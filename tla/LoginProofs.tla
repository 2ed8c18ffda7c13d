---------------------------- MODULE LoginProofs ----------------------------
(***************************************************************************)
(* Theorems about Login, for every set of settings, any number of          *)
(* transports and any number of scrambles in a dialogue.                   *)
(***************************************************************************)
EXTENDS Login, SequenceTheorems, TLAPS

-----------------------------------------------------------------------------
(***************************************************************************)
(* Sequences of packets.                                                   *)
(***************************************************************************)

LEMMA Joined ==
  ASSUME NEW S, NEW s \in Seq(S), NEW m \in S
  PROVE  /\ Append(s, m) \in Seq(S)
         /\ \A i \in DOMAIN Append(s, m) : (i \in DOMAIN s /\ Append(s, m)[i] = s[i]) \/ Append(s, m)[i] = m
         /\ s = <<>> => Append(s, m)[1] = m /\ Len(Append(s, m)) = 1
  <1>1. Append(s, m) \in Seq(S) /\ Len(Append(s, m)) = Len(s) + 1
         /\ \A i \in 1..Len(s) : Append(s, m)[i] = s[i]
         /\ Append(s, m)[Len(s) + 1] = m
    BY AppendProperties
  <1>2. Len(s) \in Nat /\ DOMAIN s = 1..Len(s) /\ DOMAIN Append(s, m) = 1..(Len(s) + 1)
    BY <1>1, LenProperties
  <1>3. s = <<>> => Len(s) = 0
    OBVIOUS
  <1> QED
    BY <1>1, <1>2, <1>3

LEMMA Rest ==
  ASSUME NEW S, NEW s \in Seq(S), s # <<>>
  PROVE  /\ s[1] \in S /\ Head(s) = s[1] /\ Tail(s) \in Seq(S) /\ Len(Tail(s)) = Len(s) - 1
         /\ Len(s) \in Nat /\ Len(s) >= 1
         /\ \A i \in DOMAIN Tail(s) : i + 1 \in DOMAIN s /\ Tail(s)[i] = s[i + 1]
         /\ Len(s) = 1 => Tail(s) = <<>>
  <1>1. /\ Tail(s) \in Seq(S) /\ Len(Tail(s)) = Len(s) - 1 /\ Head(s) = s[1]
        /\ Len(s) \in Nat /\ Len(s) >= 1
        /\ \A i \in 1..Len(Tail(s)) : Tail(s)[i] = s[i + 1]
    BY HeadTailProperties, LenProperties, EmptySeq
  <1>2. DOMAIN s = 1..Len(s) /\ DOMAIN Tail(s) = 1..Len(Tail(s))
    BY <1>1, LenProperties
  <1>3. s[1] \in S
    BY <1>1, <1>2
  <1>4. Len(s) = 1 => Tail(s) = <<>>
    <2>1. Tail(s) # <<>> => Len(Tail(s)) # 0
      BY ONLY <1>1, EmptySeq
    <2> QED
      BY ONLY <1>1, <2>1
  <1>5. ASSUME NEW i \in 1..Len(Tail(s)) PROVE i + 1 \in 1..Len(s)
    BY <1>1
  <1> QED
    BY <1>1, <1>2, <1>3, <1>4, <1>5

-----------------------------------------------------------------------------
(***************************************************************************)
(* Type correctness, for which a call that waits must have a transport.    *)
(***************************************************************************)

Waits == pc # "idle" \/ connected
Attached ==
  /\ Waits => Current # 0
  /\ pc = "greeting" => socket # 0
  /\ pc = "tls" => stream # 0

ClientTyped ==
  /\ pc \in {"idle", "greeting", "tls", "verdict", "key"}
  /\ connected \in BOOLEAN /\ tls_active \in BOOLEAN /\ compression \in BOOLEAN
  /\ socket \in 0..MaxDials /\ stream \in 0..MaxDials
  /\ tls_active => stream # 0
  /\ login \in [user : Users, password : Passwords]
  /\ attempt \in [call : {"none", "connect", "change_user"}, user : Users, password : Passwords,
                  on : 0..MaxDials]
  /\ plugin \in Plugins /\ scramble \in 0..MaxSwitches
  /\ outcome \in {"none", "ok", "threw"}
  /\ dials \in 0..MaxDials

ServerTyped ==
  /\ at \in [Transports -> {"unused", "response", "tls", "proof", "full", "ready", "closed"}]
  /\ said \in [Transports -> 0..255]
  /\ asked \in [Transports -> 0..MaxSwitches]
  /\ session \in [Transports -> [user : Users, tls : BOOLEAN, compress : BOOLEAN]]
  /\ lost \in [Transports -> BOOLEAN]

WiresTyped ==
  /\ to_server \in [Transports -> Seq(Requests)]
  /\ to_client \in [Transports -> Seq(Replies)]

TypeInv == settings \in Settings /\ ClientTyped /\ Attached /\ ServerTyped /\ WiresTyped

LEMMA TypeParts == TypeInv /\ leftover \in BOOLEAN => TypeOK
  BY DEF TypeInv, ClientTyped, ServerTyped, WiresTyped, TypeOK

LEMMA SettingsType ==
  ASSUME settings \in Settings
  PROVE  /\ settings.path \in BOOLEAN /\ settings.compress \in BOOLEAN
         /\ settings.cleartext \in BOOLEAN /\ settings.key \in BOOLEAN
         /\ settings.ssl \in {"off", "any", "ca", "identity"}
         /\ settings.default \in Plugins
         /\ settings.cert \in {"good", "foreign", "untrusted"}
         /\ settings.user \in Users /\ settings.password \in Passwords
         /\ \A u \in Users :
              settings.accounts[u].plugin \in Plugins /\ settings.accounts[u].password \in Passwords
         /\ Compressed \in BOOLEAN
         /\ NoPassword \in Passwords
  BY LoginAssumption DEF Users, Compressed, Passwords

LEMMA Bounds == /\ MaxDials \in Nat /\ MaxSwitches \in Nat /\ MaxSwitches >= 2
                /\ 0 \in 0..MaxSwitches /\ 1 \in 0..MaxSwitches /\ 2 \in 0..MaxSwitches
  BY LoginAssumption

LEMMA IdType == ASSUME NEW n \in Int PROVE n % 256 \in 0..255
  OBVIOUS

LEMMA TokenType ==
  ASSUME NEW p \in Plugins, NEW password \in Passwords, NEW nonce \in 0..MaxSwitches
  PROVE  Token(p, password, nonce) \in Proofs
  BY Bounds DEF Token, Proofs, Proof, Empty, Passwords, Plugins

LEMMA AnswerTypes ==
  ASSUME ClientTyped, NEW p \in Plugins, NEW nonce \in 0..MaxSwitches
  PROVE  /\ SafeProof(p, nonce) \in Proofs
         /\ SwitchAnswer(p, nonce) \in Proofs
         /\ Encrypted(nonce) \in Proofs
         /\ Empty \in Proofs
  <1>1. login.password \in Passwords /\ NoPassword \in Passwords
    BY DEF ClientTyped, Passwords
  <1>2. Empty \in Proofs /\ Ask \in Proofs
    BY Bounds, <1>1 DEF Proofs, Proof, Empty, Ask
  <1>3. SafeProof(p, nonce) \in Proofs
    BY Bounds, <1>1, <1>2 DEF SafeProof, Proofs, Proof
  <1>4. SwitchAnswer(p, nonce) \in Proofs
    BY <1>1, <1>3, TokenType DEF SwitchAnswer
  <1>5. Encrypted(nonce) \in Proofs
    BY <1>1 DEF Encrypted, Proofs, Proof, ClientTyped
  <1> QED
    BY <1>2, <1>3, <1>4, <1>5

LEMMA PluginType == ASSUME NEW active \in BOOLEAN, settings \in Settings PROVE ChosenPlugin(active) \in Plugins
  BY SettingsType DEF ChosenPlugin, Plugins

LEMMA CurrentType == ASSUME ClientTyped PROVE /\ Current \in 0..MaxDials
                                              /\ Current # 0 => Current \in Transports
  BY Bounds DEF ClientTyped, Current, Transports

LEMMA WriteType ==
  ASSUME TypeInv, settings' = settings, attempt'.user \in Users,
         NEW kind \in {"ssl", "response", "change", "data"}, NEW seq \in 0..255, NEW p \in Plugins,
         NEW data \in Proofs, NEW active \in BOOLEAN, Write(kind, seq, p, data, active)
  PROVE  to_server' \in [Transports -> Seq(Requests')]
  <1> DEFINE m == [kind |-> kind, seq |-> seq, user |-> attempt'.user, plugin |-> p, data |-> data,
                   tls |-> active, compress |-> Compressed]
  <1>1. Requests' = Requests
    BY DEF Requests, Users
  <1>2. m \in Requests
    BY SettingsType DEF Requests, TypeInv
  <1>3. \A s \in Seq(Requests) : Append(s, m) \in Seq(Requests)
    BY <1>2
  <1> HIDE DEF m
  <1>4. to_server' = to_server \/ to_server' = [to_server EXCEPT ![Current] = Append(@, m)]
    BY DEF Write, m
  <1> QED
    BY <1>1, <1>3, <1>4 DEF TypeInv, WiresTyped

LEMMA TakeType ==
  ASSUME TypeInv, Waits, settings' = settings, Take
  PROVE  /\ Taken \in Replies /\ NextSeq \in 0..255
         /\ to_client' \in [Transports -> Seq(Replies')]
  <1>1. Replies' = Replies
    BY DEF Replies
  <1>2. Current \in Transports
    BY CurrentType DEF TypeInv, Attached
  <1>3. to_client[Current] \in Seq(Replies) /\ to_client[Current] # <<>>
    BY <1>2 DEF TypeInv, WiresTyped, Take
  <1>4. Taken \in Replies /\ Tail(to_client[Current]) \in Seq(Replies)
    BY <1>3, Rest DEF Taken
  <1>5. Taken.seq + 1 \in Int
    <2>1. Taken.seq \in 0..255
      BY <1>4 DEF Replies
    <2> QED
      BY <2>1
  <1>6. NextSeq \in 0..255
    BY <1>5, IdType DEF NextSeq
  <1> QED
    BY <1>1, <1>4, <1>6 DEF TypeInv, WiresTyped, Take

LEMMA HangupType ==
  ASSUME TypeInv, settings' = settings, NEW ts, Hangup(ts)
  PROVE  /\ at' \in [Transports -> {"unused", "response", "tls", "proof", "full", "ready", "closed"}]
         /\ said' \in [Transports -> 0..255]
         /\ asked' \in [Transports -> 0..MaxSwitches]
         /\ session' \in [Transports -> [user : Users', tls : BOOLEAN, compress : BOOLEAN]]
         /\ WiresTyped'
  <1>1. Users' = Users /\ Requests' = Requests /\ Replies' = Replies
    BY DEF Users, Requests, Replies
  <1>2. Nobody \in [user : Users, tls : BOOLEAN, compress : BOOLEAN]
    BY SettingsType DEF Nobody, TypeInv
  <1>3. <<>> \in Seq(Requests) /\ <<>> \in Seq(Replies)
    OBVIOUS
  <1>4. /\ at' \in [Transports -> {"unused", "response", "tls", "proof", "full", "ready", "closed"}]
        /\ said' \in [Transports -> 0..255]
        /\ asked' \in [Transports -> 0..MaxSwitches]
    BY Bounds DEF Hangup, TypeInv, ServerTyped
  <1>5. session' \in [Transports -> [user : Users', tls : BOOLEAN, compress : BOOLEAN]]
    BY <1>1, <1>2 DEF Hangup, TypeInv, ServerTyped
  <1>6. to_server' \in [Transports -> Seq(Requests')] /\ to_client' \in [Transports -> Seq(Replies')]
    BY <1>1, <1>3 DEF Hangup, TypeInv, WiresTyped
  <1> QED
    BY <1>4, <1>5, <1>6 DEF WiresTyped

LEMMA InitType == Init => TypeInv
  <1> SUFFICES ASSUME Init PROVE TypeInv
    OBVIOUS
  <1>1. settings \in Settings
    BY DEF Init
  <1>2. ClientTyped /\ Attached
    <2>1. settings.password \in Passwords
      BY <1>1, SettingsType
    <2>2. /\ login \in [user : Users, password : Passwords]
          /\ attempt \in [call : {"none", "connect", "change_user"}, user : Users, password : Passwords,
                          on : 0..MaxDials]
      BY <1>1, <2>1, Bounds, SettingsType DEF Init
    <2>3. socket \in 0..MaxDials /\ stream \in 0..MaxDials /\ dials \in 0..MaxDials /\ scramble \in 0..MaxSwitches
      BY Bounds DEF Init
    <2>4. connected \in BOOLEAN /\ tls_active \in BOOLEAN /\ compression \in BOOLEAN /\ plugin \in Plugins
      BY DEF Init, Plugins
    <2>5. ClientTyped
      BY <2>2, <2>3, <2>4 DEF Init, ClientTyped
    <2> QED
      BY <2>5 DEF Init, Attached, Waits, Current
  <1>3. Nobody \in [user : Users, tls : BOOLEAN, compress : BOOLEAN]
    BY <1>1, SettingsType DEF Nobody
  <1>4. ServerTyped
    BY <1>3, Bounds DEF Init, ServerTyped
  <1>5. <<>> \in Seq(Requests) /\ <<>> \in Seq(Replies)
    OBVIOUS
  <1>6. WiresTyped
    BY <1>5 DEF Init, WiresTyped
  <1> QED
    BY <1>1, <1>2, <1>4, <1>6 DEF TypeInv

\* What a step leaves alone keeps its type, since the settings stay.
LEMMA Unchanged ==
  ASSUME TypeInv, settings' = settings
  PROVE  /\ Users' = Users /\ Requests' = Requests /\ Replies' = Replies
         /\ UNCHANGED server => ServerTyped'
         /\ UNCHANGED to_server => to_server' \in [Transports -> Seq(Requests')]
         /\ UNCHANGED to_client => to_client' \in [Transports -> Seq(Replies')]
         /\ UNCHANGED <<connection, pc, attempt, plugin, scramble, outcome, dials>> => ClientTyped' /\ Attached'
  <1>1. Users' = Users /\ Requests' = Requests /\ Replies' = Replies
    BY DEF Users, Requests, Replies
  <1>2. UNCHANGED server => ServerTyped'
    BY <1>1 DEF TypeInv, ServerTyped, server
  <1>3. UNCHANGED <<connection, pc, attempt, plugin, scramble, outcome, dials>> => ClientTyped' /\ Attached'
    BY <1>1 DEF TypeInv, ClientTyped, connection, Attached, Waits, Current
  <1> QED
    BY <1>1, <1>2, <1>3 DEF TypeInv, WiresTyped

\* The same for a step of the client: the parts that may change are given.
LEMMA ClientStep ==
  ASSUME TypeInv, settings' = settings,
         pc' \in {"idle", "greeting", "tls", "verdict", "key"},
         UNCHANGED connection,
         UNCHANGED attempt,
         plugin' \in Plugins, scramble' \in 0..MaxSwitches, outcome' \in {"none", "ok", "threw"},
         UNCHANGED dials,
         pc \notin {"idle", "greeting", "tls"}, pc' \notin {"greeting", "tls"}
  PROVE  ClientTyped' /\ Attached'
  BY Unchanged DEF TypeInv, ClientTyped, connection, Attached, Waits, Current

LEMMA RespondType ==
  ASSUME TypeInv, settings' = settings, NEW active \in BOOLEAN, Respond(active)
  PROVE  /\ to_server' \in [Transports -> Seq(Requests')]
         /\ plugin' \in Plugins /\ scramble' \in 0..MaxSwitches
         /\ pc' = "verdict" /\ UNCHANGED <<attempt, outcome>>
  <1>1. plugin' \in Plugins /\ scramble' = 1 /\ pc' = "verdict" /\ UNCHANGED <<attempt, outcome>>
    BY PluginType DEF Respond, TypeInv
  <1>2. attempt'.user \in Users
    BY <1>1 DEF TypeInv, ClientTyped
  <1>3. Token(plugin', login.password, 1) \in Proofs
    BY <1>1, TokenType, Bounds DEF TypeInv, ClientTyped
  <1>4. Write("response", IF active THEN 2 ELSE 1, plugin', Token(plugin', login.password, 1), active)
    BY DEF Respond
  <1> DEFINE id == IF active THEN 2 ELSE 1
  <1>5. id \in 0..255
    OBVIOUS
  <1>6. to_server' \in [Transports -> Seq(Requests')]
    <2> DEFINE p == plugin'
               data == Token(plugin', login.password, 1)
    <2>1. p \in Plugins /\ data \in Proofs /\ Write("response", id, p, data, active)
      BY <1>1, <1>3, <1>4
    <2> HIDE DEF p, data, id
    <2> QED
      BY <1>2, <1>5, <2>1, WriteType
  <1> QED
    BY <1>1, <1>6, Bounds

LEMMA GreetingType == ASSUME TypeInv, ReadGreeting PROVE TypeInv'
  <1> USE DEF TypeInv
  <1>1. settings' = settings /\ pc = "greeting" /\ UNCHANGED <<dials, server>> /\ Take
    BY DEF ReadGreeting
  <1>2. Waits /\ socket # 0
    BY <1>1 DEF Waits, Attached
  <1>3. ServerTyped' /\ to_client' \in [Transports -> Seq(Replies')]
    BY <1>1, <1>2, Unchanged, TakeType
  <1>4. CASE Respond(tls_active) /\ UNCHANGED connection
    <2>1. /\ to_server' \in [Transports -> Seq(Requests')]
          /\ plugin' \in Plugins /\ scramble' \in 0..MaxSwitches
          /\ pc' = "verdict" /\ UNCHANGED <<attempt, outcome>>
      BY <1>1, <1>4, RespondType DEF ClientTyped
    <2>2. ClientTyped' /\ Attached'
      BY <1>1, <1>2, <1>4, <2>1, Unchanged DEF ClientTyped, Attached, Waits, Current, connection
    <2> QED
      BY <1>1, <1>3, <2>1, <2>2 DEF WiresTyped
  <1>5. CASE Throws /\ UNCHANGED to_server
    <2>1. ClientTyped' /\ Attached'
      BY <1>1, <1>5, Unchanged DEF ClientTyped, Attached, Waits, Current, connection, Throws
    <2> QED
      BY <1>1, <1>3, <1>5, <2>1, Unchanged DEF WiresTyped
  <1>6. CASE /\ UNCHANGED <<attempt, plugin, scramble, outcome>>
             /\ Write("ssl", 1, plugin, Empty, FALSE)
             /\ pc' = "tls"
             /\ stream' = socket /\ socket' = 0
             /\ UNCHANGED <<connected, tls_active, compression, login>>
    <2>1. ClientTyped' /\ Attached'
      BY <1>1, <1>2, <1>6, Unchanged, Bounds DEF ClientTyped, Attached, Waits, Current, connection
    <2>2. attempt'.user \in Users /\ plugin \in Plugins /\ Empty \in Proofs
      BY <1>6, AnswerTypes, Bounds DEF ClientTyped
    <2>3. to_server' \in [Transports -> Seq(Requests')]
      <3> DEFINE kind == "ssl"
                 active == FALSE
                 data == Empty
      <3>1. kind \in {"ssl", "response", "change", "data"} /\ active \in BOOLEAN /\ 1 \in 0..255
        OBVIOUS
      <3>2. data \in Proofs
        BY <2>2
      <3>3. Write(kind, 1, plugin, data, active)
        BY ONLY <1>6
      <3> HIDE DEF kind, active, data
      <3> QED
        BY <1>1, <2>2, <3>1, <3>2, <3>3, WriteType
    <2> QED
      BY <1>1, <1>3, <2>1, <2>3 DEF WiresTyped
  <1> QED
    BY <1>4, <1>5, <1>6 DEF ReadGreeting

LEMMA TlsType == ASSUME TypeInv, TlsEnds PROVE TypeInv'
  <1> USE DEF TypeInv
  <1>1. settings' = settings /\ pc = "tls" /\ UNCHANGED <<dials, said, asked, lost, to_client>>
    BY DEF TlsEnds
  <1>2. stream # 0 /\ Users' = Users
    BY <1>1, Unchanged DEF Attached
  <1>3. to_client' \in [Transports -> Seq(Replies')]
    BY <1>1, Unchanged
  <1>4. CASE /\ tls_active' = TRUE
             /\ Respond(TRUE)
             /\ at' = [at EXCEPT ![Current] = "response"]
             /\ session' = [session EXCEPT ![Current].tls = TRUE]
             /\ UNCHANGED <<connected, socket, stream, compression, login>>
    <2>1. /\ to_server' \in [Transports -> Seq(Requests')]
          /\ plugin' \in Plugins /\ scramble' \in 0..MaxSwitches
          /\ pc' = "verdict" /\ UNCHANGED <<attempt, outcome>>
      BY <1>1, <1>4, RespondType DEF ClientTyped
    <2>2. ClientTyped' /\ Attached'
      BY <1>1, <1>2, <1>4, <2>1 DEF ClientTyped, Attached, Waits, Current
    <2>3. session' \in [Transports -> [user : Users', tls : BOOLEAN, compress : BOOLEAN]]
      BY <1>2, <1>4 DEF ServerTyped
    <2>4. ServerTyped'
      BY <1>1, <1>4, <2>3 DEF ServerTyped
    <2> QED
      BY <1>1, <1>3, <2>1, <2>2, <2>4 DEF WiresTyped
  <1>5. CASE Throws /\ UNCHANGED <<at, session, to_server>>
    <2>1. ClientTyped' /\ Attached'
      BY <1>1, <1>2, <1>5 DEF ClientTyped, Attached, Waits, Current, connection, Throws
    <2> QED
      BY <1>1, <1>3, <1>5, <2>1, Unchanged DEF WiresTyped, server
  <1> QED
    BY <1>4, <1>5 DEF TlsEnds

LEMMA DataType ==
  ASSUME TypeInv, Waits, Take, settings' = settings, UNCHANGED attempt,
         NEW p \in Plugins, NEW data \in Proofs, Write("data", NextSeq, p, data, tls_active)
  PROVE  to_server' \in [Transports -> Seq(Requests')]
  <1> DEFINE seq == NextSeq
             active == tls_active
  <1>1. seq \in 0..255 /\ active \in BOOLEAN /\ attempt'.user \in Users
    BY TakeType DEF TypeInv, ClientTyped
  <1>2. Write("data", seq, p, data, active)
    OBVIOUS
  <1> HIDE DEF seq, active
  <1> QED
    BY <1>1, <1>2, WriteType

LEMMA VerdictType == ASSUME TypeInv, ReadVerdict PROVE TypeInv'
  <1>1. /\ settings' = settings /\ settings \in Settings /\ pc = "verdict"
        /\ UNCHANGED <<dials, server>> /\ Take /\ Waits
    BY DEF ReadVerdict, TypeInv, Waits
  <1>2. ServerTyped' /\ to_client' \in [Transports -> Seq(Replies')]
    BY <1>1, Unchanged, TakeType
  <1>3. Taken \in Replies
    BY <1>1, TakeType
  <1>4. Taken.plugin \in Plugins /\ Taken.scramble \in 0..MaxSwitches
    BY <1>3 DEF Replies
  <1>5. plugin \in Plugins /\ scramble \in 0..MaxSwitches /\ ClientTyped
    BY DEF TypeInv, ClientTyped
  <1>6. CASE Accepted
    <2>1. /\ compression' \in BOOLEAN /\ connected' \in BOOLEAN
          /\ login' \in [user : Users, password : Passwords]
      BY <1>1, <1>5, <1>6, SettingsType DEF Accepted, ClientTyped
    <2>2. pc' = "idle" /\ outcome' = "ok" /\ UNCHANGED <<socket, stream, tls_active, attempt, plugin, scramble, dials>>
      BY <1>1, <1>6 DEF Accepted
    <2>3. ClientTyped'
      BY <1>1, <1>5, <2>1, <2>2, Unchanged DEF ClientTyped
    <2>4. Attached'
      BY <1>1, <2>2 DEF TypeInv, Attached, Waits, Current
    <2> QED
      BY <1>1, <1>2, <1>6, <2>3, <2>4, Unchanged DEF WiresTyped, Accepted, TypeInv
  <1>7. CASE Switched
    <2>1. plugin' \in Plugins /\ scramble' \in 0..MaxSwitches /\ UNCHANGED <<attempt, connection>>
          /\ pc' \in {"idle", "verdict"} /\ outcome' \in {"none", "ok", "threw"}
      BY <1>1, <1>4, <1>7 DEF Switched, TypeInv, ClientTyped
    <2>2. ClientTyped' /\ Attached'
      BY <1>1, <2>1, ClientStep
    <2>3. SwitchAnswer(Taken.plugin, Taken.scramble) \in Proofs
      BY <1>4, <1>5, AnswerTypes
    <2>4. CASE Write("data", NextSeq, plugin', SwitchAnswer(Taken.plugin, Taken.scramble), tls_active)
      <3> DEFINE p == plugin'
                 data == SwitchAnswer(Taken.plugin, Taken.scramble)
      <3>1. p \in Plugins /\ data \in Proofs /\ Write("data", NextSeq, p, data, tls_active)
        BY <2>1, <2>3, <2>4
      <3> HIDE DEF p, data
      <3>2. to_server' \in [Transports -> Seq(Requests')]
        BY <1>1, <2>1, <3>1, DataType
      <3> QED
        BY <1>1, <1>2, <2>2, <3>2 DEF WiresTyped, TypeInv
    <2>5. CASE UNCHANGED to_server
      BY <1>1, <1>2, <2>2, <2>5, Unchanged DEF WiresTyped, TypeInv
    <2> QED
      BY <1>7, <2>4, <2>5 DEF Switched
  <1>8. CASE MoreData
    <2>1. /\ UNCHANGED <<attempt, connection, plugin, scramble, outcome>>
          /\ pc' \in {"verdict", "key"}
      BY <1>1, <1>8 DEF MoreData
    <2>2. ClientTyped' /\ Attached'
      BY <1>1, <1>5, <2>1, ClientStep DEF ClientTyped
    <2>3. SafeProof(plugin, scramble) \in Proofs /\ Encrypted(scramble) \in Proofs
      BY <1>5, AnswerTypes
    <2>4. ASSUME NEW data \in Proofs, Write("data", NextSeq, plugin, data, tls_active)
          PROVE  to_server' \in [Transports -> Seq(Requests')]
      BY <1>1, <1>5, <2>1, <2>4, DataType
    <2>5. to_server' \in [Transports -> Seq(Requests')]
      BY <1>1, <1>8, <2>3, <2>4, Unchanged DEF MoreData
    <2> QED
      BY <1>1, <1>2, <2>2, <2>5 DEF WiresTyped, TypeInv
  <1>9. CASE Unexpected
    <2>1. ClientTyped' /\ Attached'
      BY <1>1, <1>5, <1>9, ClientStep DEF Unexpected, Throws, ClientTyped
    <2> QED
      BY <1>1, <1>2, <1>9, <2>1, Unchanged DEF WiresTyped, TypeInv, Unexpected
  <1> QED
    BY <1>6, <1>7, <1>8, <1>9 DEF ReadVerdict

LEMMA KeyType == ASSUME TypeInv, ReadKey PROVE TypeInv'
  <1>1. /\ settings' = settings /\ settings \in Settings /\ pc = "key"
        /\ UNCHANGED <<dials, server>> /\ Take /\ Waits
    BY DEF ReadKey, TypeInv, Waits
  <1>2. ServerTyped' /\ to_client' \in [Transports -> Seq(Replies')]
    BY <1>1, Unchanged, TakeType
  <1>3. plugin \in Plugins /\ scramble \in 0..MaxSwitches /\ ClientTyped
    BY DEF TypeInv, ClientTyped
  <1>4. ClientTyped' /\ Attached'
    BY <1>1, <1>3, ClientStep DEF ReadKey, Throws, ClientTyped
  <1>5. Encrypted(scramble) \in Proofs
    BY <1>3, AnswerTypes
  <1>6. CASE Write("data", NextSeq, plugin, Encrypted(scramble), tls_active) /\ UNCHANGED attempt
    BY <1>1, <1>2, <1>3, <1>4, <1>5, <1>6, DataType DEF WiresTyped, TypeInv
  <1>7. CASE UNCHANGED to_server
    BY <1>1, <1>2, <1>4, <1>7, Unchanged DEF WiresTyped, TypeInv
  <1> QED
    BY <1>6, <1>7 DEF ReadKey

LEMMA FailsType == ASSUME TypeInv, ReadFails \/ ReadLeftover PROVE TypeInv'
  <1>1. settings' = settings /\ Throws /\ UNCHANGED <<dials, server, wires>>
    BY DEF ReadFails, ReadLeftover
  <1>2. ClientTyped' /\ Attached'
    BY <1>1, Unchanged DEF Throws, TypeInv, ClientTyped, connection, Attached, Waits, Current
  <1> QED
    BY <1>1, <1>2, Unchanged DEF TypeInv, WiresTyped, wires

LEMMA ConnectType == ASSUME TypeInv, Connect PROVE TypeInv'
  <1>1. /\ settings' = settings /\ settings \in Settings /\ Users' = Users /\ Hangup({socket})
        /\ attempt' = [call |-> "connect", user |-> login.user, password |-> login.password,
                       on |-> IF leftover THEN 0 ELSE socket']
        /\ UNCHANGED <<connected, stream, tls_active, compression, login, plugin, scramble, lost>>
        /\ ~connected
    BY Unchanged DEF Connect, TypeInv
  <1>2. \/ dials < MaxDials /\ dials' = dials + 1 /\ socket' = dials' /\ pc' = "greeting" /\ outcome' = "none"
        \/ socket' = 0 /\ pc' = "idle" /\ outcome' = "threw" /\ dials' = dials
    BY DEF Connect
  <1>3. dials' \in 0..MaxDials /\ socket' \in 0..MaxDials /\ (pc' = "greeting" => socket' # 0)
    BY <1>2, Bounds DEF TypeInv, ClientTyped
  <1>4. ClientTyped' /\ Attached'
    <2>1. attempt'.on \in 0..MaxDials
      BY <1>1, <1>3, Bounds
    <2>2. attempt' \in [call : {"none", "connect", "change_user"}, user : Users, password : Passwords,
                        on : 0..MaxDials]
      BY <1>1, <2>1 DEF TypeInv, ClientTyped
    <2>3. ClientTyped'
      BY <1>1, <1>2, <1>3, <2>2 DEF TypeInv, ClientTyped
    <2> QED
      BY <1>1, <1>2, <1>3, <2>3 DEF Attached, Waits, Current
  <1>5. ServerTyped' /\ WiresTyped'
    BY <1>1, HangupType DEF ServerTyped, TypeInv
  <1> QED
    BY <1>1, <1>4, <1>5 DEF TypeInv

LEMMA ClosesType ==
  ASSUME TypeInv, settings' = settings, Closes, pc' = "idle", outcome' \in {"none", "ok", "threw"},
         UNCHANGED <<attempt, plugin, scramble, dials>>
  PROVE  ClientTyped' /\ Attached'
  <1>1. connected' \in BOOLEAN /\ tls_active' \in BOOLEAN /\ compression' \in BOOLEAN
    BY DEF Closes
  <1>2. ~connected' /\ ~tls_active' /\ socket' = 0 /\ stream' = 0 /\ login' = login /\ Users' = Users
    BY Unchanged DEF Closes
  <1>3. ClientTyped'
    BY <1>1, <1>2, Bounds DEF TypeInv, ClientTyped
  <1> QED
    BY <1>2, <1>3 DEF Attached, Waits

LEMMA TimeoutType == ASSUME TypeInv, ReadTimesOut PROVE TypeInv'
  <1>1. settings' = settings /\ settings \in Settings /\ Users' = Users /\ Hangup({Current}) /\ Closes
    BY Unchanged DEF ReadTimesOut, TypeInv
  <1>2. lost' \in [Transports -> BOOLEAN]
    BY DEF ReadTimesOut, TypeInv, ServerTyped
  <1>3. ClientTyped' /\ Attached'
    BY <1>1, ClosesType DEF ReadTimesOut
  <1>4. ServerTyped' /\ WiresTyped'
    BY <1>1, <1>2, HangupType DEF ServerTyped, TypeInv
  <1> QED
    BY <1>1, <1>3, <1>4 DEF TypeInv

\* The COM_QUIT that cannot be written.
QuitFails ==
  /\ connected /\ at[Current] = "closed"
  /\ stream # 0 => "quit_fails" \in Extras
  /\ connected' = FALSE /\ tls_active' = FALSE /\ compression' = FALSE
  /\ UNCHANGED <<socket, stream, login, leftover, at, said, asked, session, wires>>

LEMMA EndIs ==
  ASSUME End
  PROVE  /\ settings' = settings /\ pc = "idle" /\ UNCHANGED <<dials, dialogue, lost>>
         /\ QuitFails \/ (Closes /\ Hangup({socket, stream}))
  BY DEF End, QuitFails

LEMMA EndType == ASSUME TypeInv, End PROVE TypeInv'
  <1>1. /\ settings' = settings /\ settings \in Settings /\ Users' = Users /\ UNCHANGED lost
        /\ pc = "idle" /\ UNCHANGED <<dials, dialogue>>
    BY EndIs, Unchanged DEF TypeInv
  <1>2. CASE Closes /\ Hangup({socket, stream})
    <2>1. ClientTyped' /\ Attached'
      BY <1>1, <1>2, ClosesType DEF dialogue, TypeInv, ClientTyped
    <2>2. ServerTyped' /\ WiresTyped'
      BY <1>1, <1>2, HangupType DEF ServerTyped, TypeInv
    <2> QED
      BY <1>1, <2>1, <2>2 DEF TypeInv
  <1>3. CASE QuitFails
    <2>1. ClientTyped' /\ Attached'
      BY <1>1, <1>3 DEF QuitFails, dialogue, TypeInv, ClientTyped, Attached, Waits
    <2>2. ServerTyped' /\ WiresTyped'
      BY <1>1, <1>3, Unchanged DEF QuitFails, server, wires, WiresTyped, TypeInv
    <2> QED
      BY <1>1, <2>1, <2>2 DEF TypeInv
  <1> QED
    BY <1>2, <1>3, EndIs

LEMMA ChangeType == ASSUME TypeInv, ChangeUser PROVE TypeInv'
  <1>1. /\ settings' = settings /\ settings \in Settings /\ Users' = Users /\ pc = "idle" /\ connected
        /\ UNCHANGED <<connection, dials, server, to_client>>
        /\ plugin' = ChosenPlugin(tls_active) /\ scramble' = 1 /\ pc' = "verdict" /\ outcome' = "none"
    BY Unchanged DEF ChangeUser, TypeInv
  <1>2. Current \in 0..MaxDials
    BY CurrentType DEF TypeInv
  <1>3. /\ attempt'.password \in Passwords /\ attempt'.user \in Users
        /\ attempt' \in [call : {"none", "connect", "change_user"}, user : Users, password : Passwords,
                  on : 0..MaxDials]
    <2>1. PICK user \in Users,
               password \in {settings.accounts[u].password : u \in Users} \cup {NoPassword} :
            attempt' = [call |-> "change_user", user |-> user,
                   password |-> IF password = NoPassword THEN login.password ELSE password,
                   on |-> IF at[Current] = "ready" /\ ~leftover THEN Current ELSE 0]
      BY DEF ChangeUser, Users
    <2>2. password \in Passwords
      BY <1>1, <2>1, SettingsType
    <2>3. login.password \in Passwords
      BY DEF TypeInv, ClientTyped
    <2> QED
      BY <1>2, <2>1, <2>2, <2>3, Bounds
  <1>4. plugin' \in Plugins /\ scramble' \in 0..MaxSwitches
    BY <1>1, PluginType, Bounds DEF TypeInv, ClientTyped
  <1>5. ClientTyped' /\ Attached'
    BY <1>1, <1>3, <1>4 DEF TypeInv, ClientTyped, connection, Attached, Waits, Current
  <1>6. to_server' \in [Transports -> Seq(Requests')]
    <2> DEFINE p == plugin'
               data == Token(plugin', attempt'.password, 1)
               active == tls_active
    <2>1. p \in Plugins /\ active \in BOOLEAN
      BY <1>4 DEF TypeInv, ClientTyped
    <2>2. data \in Proofs
      BY <1>3, <1>4, TokenType, Bounds
    <2>3. Write("change", 0, p, data, active)
      BY DEF ChangeUser
    <2> HIDE DEF p, data, active
    <2> QED
      BY <1>1, <1>3, <2>1, <2>2, <2>3, WriteType
  <1> QED
    BY <1>1, <1>5, <1>6, Unchanged DEF TypeInv, WiresTyped

ReplyKinds == {"greeting", "ok", "err", "switch", "more3", "more4", "key"}
Said(t, after, kinds, p) ==
  [i \in DOMAIN kinds |-> [kind |-> kinds[i], seq |-> (after + i) % 256, plugin |-> p, scramble |-> asked'[t]]]

IsReply(s, after, kinds, p, nonce) ==
  /\ Len(s) = Len(kinds)
  /\ \A i \in 1..Len(kinds) : /\ s[i].kind = kinds[i] /\ s[i].seq = (after + i) % 256
                              /\ s[i].plugin = p /\ s[i].scramble = nonce

LEMMA SaidIs ==
  ASSUME NEW t, NEW after \in -1..255, NEW kinds \in Seq(ReplyKinds), NEW p \in Plugins,
         asked'[t] \in 0..MaxSwitches
  PROVE  /\ Said(t, after, kinds, p) \in Seq(Replies)
         /\ IsReply(Said(t, after, kinds, p), after, kinds, p, asked'[t])
  <1> DEFINE n == Len(kinds)
             f == Said(t, after, kinds, p)
  <1>1. n \in Nat /\ DOMAIN kinds = 1..n /\ \A i \in 1..n : kinds[i] \in ReplyKinds
    BY LenProperties
  <1>2. f = [i \in 1..n |->
               [kind |-> kinds[i], seq |-> (after + i) % 256, plugin |-> p, scramble |-> asked'[t]]]
    BY <1>1 DEF Said
  <1>3. ASSUME NEW i \in 1..n
        PROVE  [kind |-> kinds[i], seq |-> (after + i) % 256, plugin |-> p, scramble |-> asked'[t]] \in Replies
    <2>1. after + i \in Int
      BY <1>1
    <2>2. (after + i) % 256 \in 0..255
      BY <2>1, IdType
    <2> QED
      BY <1>1, <2>2 DEF Replies, ReplyKinds
  <1> HIDE DEF f
  <1>4. f \in [1..n -> Replies]
    BY <1>2, <1>3
  <1>5. f \in Seq(Replies) /\ DOMAIN f = 1..n
    BY <1>1, <1>4, SeqDef
  <1>6. Len(f) = n
    BY <1>1, <1>5, LenProperties
  <1>7. \A i \in 1..n : /\ f[i].kind = kinds[i] /\ f[i].seq = (after + i) % 256
                        /\ f[i].plugin = p /\ f[i].scramble = asked'[t]
    BY <1>2
  <1> QED
    BY <1>5, <1>6, <1>7 DEF f, IsReply

LEMMA SaysType ==
  ASSUME TypeInv, settings' = settings, NEW t \in Transports, NEW after \in -1..255,
         NEW kinds \in Seq(ReplyKinds), NEW p \in Plugins,
         asked' \in [Transports -> 0..MaxSwitches], Says(t, after, kinds, p)
  PROVE  /\ said' \in [Transports -> 0..255]
         /\ to_client' \in [Transports -> Seq(Replies')]
         /\ to_client[t] = <<>> => to_client'[t] = Said(t, after, kinds, p)
         /\ \A u \in Transports : u # t => to_client'[u] = to_client[u] /\ said'[u] = said[u]
         /\ said'[t] = (after + Len(kinds)) % 256
  <1> DEFINE f == Said(t, after, kinds, p)
  <1>1. f \in Seq(Replies)
    BY SaidIs
  <1>2. after + Len(kinds) \in Int
    BY LenProperties
  <1>3. (after + Len(kinds)) % 256 \in 0..255
    BY <1>2, IdType
  <1>4. to_client' = [to_client EXCEPT ![t] = @ \o f]
    BY DEF Says, Said
  <1>5. said' = [said EXCEPT ![t] = (after + Len(kinds)) % 256]
    BY DEF Says
  <1> HIDE DEF f
  <1>6. to_client[t] \o f \in Seq(Replies)
    BY <1>1 DEF TypeInv, WiresTyped
  <1>7. to_client[t] = <<>> => to_client[t] \o f = f
    BY <1>1, ConcatEmptySeq
  <1>8. to_client' \in [Transports -> Seq(Replies')]
    BY <1>4, <1>6, Unchanged DEF TypeInv, WiresTyped
  <1>9. /\ to_client'[t] = to_client[t] \o f
        /\ \A u \in Transports : u # t => to_client'[u] = to_client[u] /\ said'[u] = said[u]
    BY <1>4, <1>5 DEF TypeInv, WiresTyped, ServerTyped
  <1>10. said' \in [Transports -> 0..255] /\ said'[t] = (after + Len(kinds)) % 256
    BY <1>3, <1>5 DEF TypeInv, ServerTyped
  <1> QED
    BY <1>7, <1>8, <1>9, <1>10 DEF f

LEMMA KindSeqs ==
  /\ \A k \in ReplyKinds : <<k>> \in Seq(ReplyKinds)
  /\ <<"more3", "ok">> \in Seq(ReplyKinds)
  BY DEF ReplyKinds

\* What the server reads.
LEMMA AtServerType ==
  ASSUME TypeInv, NEW t \in Transports, to_server[t] # <<>>
  PROVE  /\ AtServer(t) \in Requests /\ AtServer(t) = to_server[t][1]
         /\ AtServer(t).seq \in -1..255 /\ AtServer(t).user \in Users /\ AtServer(t).compress \in BOOLEAN
         /\ Account(t).plugin \in Plugins
         /\ Tail(to_server[t]) \in Seq(Requests)
         /\ Len(to_server[t]) = 1 => Tail(to_server[t]) = <<>>
  <1>1. to_server[t] \in Seq(Requests)
    BY DEF TypeInv, WiresTyped
  <1>2. /\ AtServer(t) \in Requests /\ AtServer(t) = to_server[t][1]
        /\ Tail(to_server[t]) \in Seq(Requests)
        /\ Len(to_server[t]) = 1 => Tail(to_server[t]) = <<>>
    BY <1>1, Rest DEF AtServer
  <1>3. AtServer(t).seq \in -1..255 /\ AtServer(t).user \in Users /\ AtServer(t).compress \in BOOLEAN
    BY <1>2 DEF Requests
  <1>4. Account(t).plugin \in Plugins
    BY <1>3, SettingsType DEF Account, TypeInv
  <1> QED
    BY <1>2, <1>3, <1>4

Judgements == {<<"key">>, <<"more3", "ok">>, <<"more4">>, <<"ok">>, <<"err">>}

\* The server's answer to a packet, whichever it is.
LEMMA AnswerIs ==
  ASSUME TypeInv, settings' = settings, NEW t \in Transports, to_server[t] # <<>>,
         AskAgain(t) \/ Judge(t)
  PROVE  /\ asked' \in [Transports -> 0..MaxSwitches]
         /\ at' \in [Transports -> {"unused", "response", "tls", "proof", "full", "ready", "closed"}]
         /\ said' \in [Transports -> 0..255] /\ to_client' \in [Transports -> Seq(Replies')]
         /\ \A u \in Transports : u # t => /\ to_client'[u] = to_client[u] /\ said'[u] = said[u]
                                           /\ at'[u] = at[u] /\ asked'[u] = asked[u]
  <1> USE AtServerType
  <1>1. CASE AskAgain(t)
    <2>1. asked' \in [Transports -> 0..MaxSwitches] /\ \A u \in Transports : u # t => asked'[u] = asked[u]
      BY <1>1, Bounds DEF AskAgain, TypeInv, ServerTyped
    <2>2. Says(t, AtServer(t).seq, <<"switch">>, Account(t).plugin) /\ <<"switch">> \in Seq(ReplyKinds)
      BY <1>1, KindSeqs DEF AskAgain, ReplyKinds
    <2>3. /\ said' \in [Transports -> 0..255] /\ to_client' \in [Transports -> Seq(Replies')]
          /\ \A u \in Transports : u # t => to_client'[u] = to_client[u] /\ said'[u] = said[u]
      BY <2>1, <2>2, SaysType
    <2> QED
      BY <1>1, <2>1, <2>3 DEF AskAgain, TypeInv, ServerTyped
  <1>2. CASE Judge(t)
    <2>1. asked' \in [Transports -> 0..MaxSwitches] /\ \A u \in Transports : u # t => asked'[u] = asked[u]
      BY <1>2, Bounds DEF Judge, TypeInv, ServerTyped
    <2>2. PICK kinds \in Judgements, next \in {"proof", "full", "ready", "closed", at[t]} :
            /\ Says(t, AtServer(t).seq, kinds, Account(t).plugin)
            /\ at' = [at EXCEPT ![t] = next]
      BY <1>2 DEF Judge, Judgements
    <2>3. kinds \in Seq(ReplyKinds)
      BY <2>2, KindSeqs DEF Judgements, ReplyKinds
    <2>4. /\ said' \in [Transports -> 0..255] /\ to_client' \in [Transports -> Seq(Replies')]
          /\ \A u \in Transports : u # t => to_client'[u] = to_client[u] /\ said'[u] = said[u]
      BY <2>1, <2>2, <2>3, SaysType
    <2> QED
      BY <2>1, <2>2, <2>4 DEF TypeInv, ServerTyped
  <1> QED
    BY <1>1, <1>2

LEMMA ServerType ==
  ASSUME TypeInv, NEW t \in Transports, Server(t) \/ Drop(t),
         UNCHANGED <<settings, connection, leftover, dialogue, dials>>
  PROVE  TypeInv'
  <1>1. settings' = settings /\ Users' = Users /\ Requests' = Requests /\ settings \in Settings
    BY Unchanged DEF TypeInv
  <1>2. ClientTyped' /\ Attached'
    BY <1>1, Unchanged DEF dialogue
  <1>3. CASE Greet(t)
    <2>1. asked' \in [Transports -> 0..MaxSwitches]
      BY <1>3, Bounds DEF Greet, TypeInv, ServerTyped
    <2>2. Says(t, -1, <<"greeting">>, settings.default) /\ <<"greeting">> \in Seq(ReplyKinds)
      BY <1>3, KindSeqs DEF Greet, ReplyKinds
    <2>3. said' \in [Transports -> 0..255] /\ to_client' \in [Transports -> Seq(Replies')]
      <3> DEFINE after == -1
                 kinds == <<"greeting">>
                 p == settings.default
      <3>1. after \in -1..255
        OBVIOUS
      <3>2. kinds \in Seq(ReplyKinds) /\ Says(t, after, kinds, p)
        BY <2>2
      <3>3. p \in Plugins
        BY <1>1, SettingsType
      <3> HIDE DEF after, kinds, p
      <3> QED
        BY <1>1, <2>1, <3>1, <3>2, <3>3, SaysType
    <2> QED
      BY <1>1, <1>2, <1>3, <2>1, <2>3 DEF Greet, TypeInv, ServerTyped, WiresTyped
  <1>4. CASE ServerReads(t)
    <2>1. /\ to_server[t] # <<>> /\ lost' = lost
          /\ to_server' = [to_server EXCEPT ![t] = Tail(@)]
      BY <1>4 DEF ServerReads
    <2>2. to_server' \in [Transports -> Seq(Requests')]
      BY <1>1, <2>1, AtServerType DEF TypeInv, WiresTyped
    <2>3. CASE at' = [at EXCEPT ![t] = "closed"] /\ UNCHANGED <<said, asked, session, to_client>>
      BY <1>1, <1>2, <2>1, <2>2, <2>3, Unchanged DEF TypeInv, ServerTyped, WiresTyped
    <2>4. CASE /\ at' = [at EXCEPT ![t] = "tls"] /\ said' = [said EXCEPT ![t] = AtServer(t).seq]
               /\ UNCHANGED <<asked, session, to_client>>
      <3>1. AtServer(t).seq \in 0..255
        BY <2>1, AtServerType DEF Requests
      <3> QED
        BY <1>1, <1>2, <2>1, <2>2, <2>4, <3>1, Unchanged DEF TypeInv, ServerTyped, WiresTyped
    <2>5. CASE /\ AskAgain(t) \/ Judge(t)
               /\ session' = IF AtServer(t).kind = "data" THEN session
                     ELSE [session EXCEPT ![t] = [user |-> AtServer(t).user, tls |-> @.tls, compress |-> AtServer(t).compress]]
      <3>1. session' \in [Transports -> [user : Users', tls : BOOLEAN, compress : BOOLEAN]]
        BY <1>1, <2>1, <2>5, AtServerType DEF TypeInv, ServerTyped
      <3>2. ServerTyped' /\ to_client' \in [Transports -> Seq(Replies')]
        BY <1>1, <2>1, <2>5, <3>1, AnswerIs DEF TypeInv, ServerTyped
      <3> QED
        BY <1>1, <1>2, <2>2, <3>2 DEF TypeInv, WiresTyped
    <2> QED
      BY <1>4, <2>3, <2>4, <2>5 DEF ServerReads
  <1>5. CASE Drop(t)
    BY <1>1, <1>2, <1>5, Unchanged DEF Drop, wires, TypeInv, ServerTyped, WiresTyped
  <1> QED
    BY <1>3, <1>4, <1>5 DEF Server

LEMMA NextType == TypeInv /\ [Next]_vars => TypeInv'
  <1> SUFFICES ASSUME TypeInv, [Next]_vars PROVE TypeInv'
    OBVIOUS
  <1>1. CASE Client
    BY <1>1, GreetingType, TlsType, VerdictType, KeyType, FailsType DEF Client
  <1>2. CASE Caller
    BY <1>2, ConnectType, ChangeType, EndType DEF Caller
  <1>3. CASE ReadTimesOut
    BY <1>3, TimeoutType
  <1>4. ASSUME NEW t \in Transports, Server(t) \/ Drop(t), UNCHANGED <<settings, connection, leftover, dialogue, dials>>
        PROVE  TypeInv'
    BY <1>4, ServerType
  <1>5. CASE UNCHANGED vars
    BY <1>5, Unchanged DEF vars, dialogue, wires, TypeInv, WiresTyped
  <1> QED
    BY <1>1, <1>2, <1>3, <1>4, <1>5 DEF Next

LEMMA NextLeftover == leftover \in BOOLEAN /\ [Next]_vars => (leftover \in BOOLEAN)'
  <1> SUFFICES ASSUME leftover \in BOOLEAN, [Next]_vars PROVE leftover' \in BOOLEAN
    OBVIOUS
  <1>1. CASE Client
    BY <1>1 DEF Client, ReadGreeting, TlsEnds, ReadVerdict, ReadKey, ReadLeftover, ReadFails, Take
  <1>2. CASE Caller \/ ReadTimesOut
    BY <1>2 DEF Caller, Connect, ChangeUser, End, ReadTimesOut
  <1>3. CASE UNCHANGED leftover
    BY <1>3
  <1> QED
    BY <1>1, <1>2, <1>3 DEF Next, vars

\* Every variable stays in its range, whatever Extras allows.
THEOREM LoginTypeCorrect == Spec => []TypeOK
  <1>1. Init => leftover \in BOOLEAN
    BY DEF Init
  <1> QED
    BY <1>1, InitType, NextType, NextLeftover, TypeParts, PTL DEF Spec

-----------------------------------------------------------------------------
(***************************************************************************)
(* No password leaves in clear, because nothing that is made from one is   *)
(* written before TLS is up and the certificate accepted, where TLS is     *)
(* asked for.                                                              *)
(***************************************************************************)

Upgraded ==
  pc \in {"verdict", "key"} \/ connected =>
    (settings.ssl # "off" => tls_active /\ Satisfied(settings.cert))

KeepsPassword(p) ==
  p.data.password # NoPassword =>
    /\ p.data.form = "clear" => p.tls \/ settings.path
    /\ p.data.form = "clear" /\ p.plugin = "clear" => settings.cleartext
    /\ settings.ssl # "off" => p.tls /\ Satisfied(settings.cert)

LEMMA KeptIs ==
  PasswordKept <=> \A t \in Transports : \A i \in DOMAIN to_server[t] : KeepsPassword(to_server[t][i])
  BY DEF PasswordKept, KeepsPassword

\* Nothing new is on its way.
LEMMA KeptBySame ==
  ASSUME TypeInv, PasswordKept, settings' = settings,
         \A t \in Transports : to_server'[t] = to_server[t] \/ to_server'[t] = <<>>
                               \/ (to_server[t] # <<>> /\ to_server'[t] = Tail(to_server[t]))
  PROVE  PasswordKept'
  <1> SUFFICES ASSUME NEW t \in Transports, NEW i \in DOMAIN to_server'[t]
               PROVE  KeepsPassword(to_server[t][i])'
    BY DEF PasswordKept, KeepsPassword
  <1>1. to_server[t] \in Seq(Requests)
    BY DEF TypeInv, WiresTyped
  <1>2. PICK j \in DOMAIN to_server[t] : to_server'[t][i] = to_server[t][j]
    <2>1. CASE to_server'[t] = to_server[t]
      BY <2>1
    <2>2. CASE to_server'[t] = <<>>
      BY <2>2
    <2>3. CASE to_server[t] # <<>> /\ to_server'[t] = Tail(to_server[t])
      BY <1>1, <2>3, Rest
    <2> QED
      BY <2>1, <2>2, <2>3
  <1>3. KeepsPassword(to_server[t][j])
    BY <1>2, KeptIs
  <1> QED
    BY <1>2, <1>3 DEF KeepsPassword, Satisfied

\* One packet is added that keeps the password.
LEMMA KeptByWrite ==
  ASSUME TypeInv, PasswordKept, settings' = settings, attempt'.user \in Users,
         NEW kind \in {"ssl", "response", "change", "data"}, NEW seq \in 0..255, NEW p \in Plugins,
         NEW data \in Proofs, NEW active \in BOOLEAN, Write(kind, seq, p, data, active),
         data.password # NoPassword =>
           /\ data.form = "clear" => active \/ settings.path
           /\ data.form = "clear" /\ p = "clear" => settings.cleartext
           /\ settings.ssl # "off" => active /\ Satisfied(settings.cert)
  PROVE  PasswordKept'
  <1> DEFINE m == [kind |-> kind, seq |-> seq, user |-> attempt'.user, plugin |-> p, data |-> data,
                   tls |-> active, compress |-> Compressed]
  <1>1. m \in Requests
    BY SettingsType DEF Requests, TypeInv
  <1>2. KeepsPassword(m)
    BY DEF KeepsPassword
  <1>3. to_server' = to_server \/ to_server' = [to_server EXCEPT ![Current] = Append(@, m)]
    BY DEF Write
  <1> HIDE DEF m
  <1> SUFFICES ASSUME NEW t \in Transports, NEW i \in DOMAIN to_server'[t]
               PROVE  KeepsPassword(to_server[t][i])'
    BY DEF PasswordKept, KeepsPassword
  <1>4. to_server[t] \in Seq(Requests)
    BY DEF TypeInv, WiresTyped
  <1>5. to_server'[t] = to_server[t] \/ to_server'[t] = Append(to_server[t], m)
    BY <1>3 DEF TypeInv, WiresTyped
  <1>6. \/ i \in DOMAIN to_server[t] /\ to_server'[t][i] = to_server[t][i]
        \/ to_server'[t][i] = m
    BY <1>1, <1>4, <1>5, Joined
  <1>7. KeepsPassword(to_server'[t][i])
    BY <1>2, <1>6, KeptIs
  <1> QED
    BY <1>7 DEF KeepsPassword, Satisfied

LEMMA KeptByHangup ==
  ASSUME TypeInv, PasswordKept, settings' = settings, NEW ts, Hangup(ts)
  PROVE  PasswordKept'
  <1>1. \A t \in Transports : to_server'[t] = to_server[t] \/ to_server'[t] = <<>>
    BY DEF Hangup
  <1> QED
    BY <1>1, KeptBySame

LEMMA SafeProofKeeps ==
  ASSUME TypeInv, NEW p \in Plugins, NEW nonce \in 0..MaxSwitches
  PROVE  /\ SafeProof(p, nonce).form = "clear" => tls_active \/ settings.path
         /\ Encrypted(nonce).form # "clear"
         /\ CanAnswer(p) /\ SwitchAnswer(p, nonce).form = "clear" =>
              /\ tls_active \/ settings.path
              /\ p = "clear" => settings.cleartext
  <1>1. SafeProof(p, nonce).form = "clear" => tls_active \/ settings.path
    BY DEF SafeProof, Empty, Ask, Proof, Secure
  <1>2. Encrypted(nonce).form # "clear"
    BY DEF Encrypted, Proof
  <1>3. CASE p = "sha256"
    BY <1>1, <1>2, <1>3 DEF SwitchAnswer
  <1>4. CASE p # "sha256"
    BY <1>1, <1>2, <1>4 DEF SwitchAnswer, CanAnswer, Token, Secure, Proof, Empty
  <1> QED
    BY <1>3, <1>4

LEMMA TokenKeeps ==
  ASSUME NEW active \in BOOLEAN, NEW password,
         Token(ChosenPlugin(active), password, 1).form = "clear"
  PROVE  /\ active \/ settings.path
         /\ ChosenPlugin(active) = "clear" => settings.cleartext
  BY DEF Token, ChosenPlugin, Secure, Proof, Empty

LEMMA NextKept == TypeInv /\ PasswordKept /\ Upgraded /\ [Next]_vars => PasswordKept' /\ Upgraded'
  <1> SUFFICES ASSUME TypeInv, PasswordKept, Upgraded, [Next]_vars PROVE PasswordKept' /\ Upgraded'
    OBVIOUS
  <1>0. ClientTyped /\ settings \in Settings /\ plugin \in Plugins /\ scramble \in 0..MaxSwitches
        /\ login.password \in Passwords /\ tls_active \in BOOLEAN /\ attempt.user \in Users
    BY DEF TypeInv, ClientTyped
  <1>1. CASE ReadGreeting
    <2>1. settings' = settings /\ pc = "greeting"
      BY <1>1 DEF ReadGreeting
    <2>2. CASE settings.ssl = "off" /\ Respond(tls_active) /\ UNCHANGED connection
      <3> DEFINE p == plugin'
                 data == Token(plugin', login.password, 1)
                 seq == IF tls_active THEN 2 ELSE 1
      <3>1. p \in Plugins /\ p = ChosenPlugin(tls_active) /\ attempt' = attempt
            /\ Write("response", seq, p, data, tls_active)
        BY <2>2, <1>0, PluginType DEF Respond
      <3>2. data \in Proofs /\ seq \in 0..255
        BY <1>0, <3>1, TokenType, Bounds
      <3>3. data.form = "clear" => /\ tls_active \/ settings.path
                                   /\ p = "clear" => settings.cleartext
        BY <1>0, <3>1, TokenKeeps
      <3> HIDE DEF p, data, seq
      <3>4. PasswordKept'
        BY <1>0, <2>1, <2>2, <3>1, <3>2, <3>3, KeptByWrite
      <3> QED
        BY <2>1, <2>2, <3>4 DEF Upgraded
    <2>3. CASE Throws /\ UNCHANGED to_server
      BY <2>1, <2>3, KeptBySame DEF Throws, Upgraded, connection, Satisfied
    <2>4. CASE /\ UNCHANGED attempt
               /\ Write("ssl", 1, plugin, Empty, FALSE)
               /\ pc' = "tls" /\ UNCHANGED <<connected, tls_active>>
      <3> DEFINE kind == "ssl"
                 active == FALSE
                 data == Empty
      <3>1. kind \in {"ssl", "response", "change", "data"} /\ active \in BOOLEAN /\ 1 \in 0..255
        OBVIOUS
      <3>2. data \in Proofs /\ data.password = NoPassword
        BY <1>0, AnswerTypes DEF Empty, Proof
      <3>3. Write(kind, 1, plugin, data, active)
        BY ONLY <2>4
      <3> HIDE DEF kind, active, data
      <3>4. PasswordKept'
        BY <1>0, <2>1, <2>4, <3>1, <3>2, <3>3, KeptByWrite
      <3> QED
        BY <2>1, <2>4, <3>4 DEF Upgraded, Satisfied
    <2> QED
      BY <1>1, <2>2, <2>3, <2>4 DEF ReadGreeting
  <1>2. CASE TlsEnds
    <2>1. settings' = settings /\ pc = "tls"
      BY <1>2 DEF TlsEnds
    <2>2. CASE Convinced /\ tls_active' = TRUE /\ Respond(TRUE)
      <3>1. Satisfied(settings.cert)
        BY <1>0, <2>2, SettingsType DEF Convinced, Satisfied
      <3> DEFINE active == TRUE
                 p == plugin'
                 data == Token(plugin', login.password, 1)
      <3>2. p \in Plugins /\ p = ChosenPlugin(active) /\ attempt' = attempt
            /\ Write("response", 2, p, data, active)
        BY <2>2, <1>0, PluginType DEF Respond
      <3>3. data \in Proofs /\ active \in BOOLEAN /\ active
        BY <1>0, <3>2, TokenType, Bounds
      <3>4. data.form = "clear" => (p = "clear" => settings.cleartext)
        BY <1>0, <3>2, <3>3, TokenKeeps
      <3> HIDE DEF p, data, active
      <3>5. attempt'.user \in Users /\ 2 \in 0..255
        BY <1>0, <3>2
      <3>6. data.password # NoPassword =>
              /\ data.form = "clear" => active \/ settings.path
              /\ data.form = "clear" /\ p = "clear" => settings.cleartext
              /\ settings.ssl # "off" => active /\ Satisfied(settings.cert)
        BY <3>1, <3>3, <3>4
      <3>7. PasswordKept'
        BY <2>1, <3>2, <3>3, <3>5, <3>6, KeptByWrite
      <3> QED
        BY <2>1, <2>2, <3>1, <3>7 DEF Upgraded, Satisfied
    <2>3. CASE Throws /\ UNCHANGED to_server
      BY <2>1, <2>3, KeptBySame DEF Throws, Upgraded, connection, Satisfied
    <2> QED
      BY <1>2, <2>2, <2>3 DEF TlsEnds
  <1>3. CASE ReadVerdict
    <2>1. settings' = settings /\ pc = "verdict" /\ Take /\ Waits
      BY <1>3 DEF ReadVerdict, Waits
    <2>2. tls_active' = tls_active
      BY <1>3 DEF ReadVerdict, Accepted, Switched, MoreData, Unexpected, Throws, connection
    <2>3. Upgraded'
      BY <2>1, <2>2 DEF Upgraded, Satisfied
    <2>4. NextSeq \in 0..255 /\ Taken \in Replies
      BY <2>1, TakeType
    <2>5. ASSUME NEW p \in Plugins, NEW data \in Proofs, Write("data", NextSeq, p, data, tls_active),
                 UNCHANGED attempt,
                 data.form = "clear" => (tls_active \/ settings.path) /\ (p = "clear" => settings.cleartext)
          PROVE  PasswordKept'
      <3>1. settings.ssl # "off" => tls_active /\ Satisfied(settings.cert)
        BY <2>1 DEF Upgraded
      <3> DEFINE seq == NextSeq
      <3>2. seq \in 0..255 /\ Write("data", seq, p, data, tls_active)
        BY <2>4, <2>5
      <3> HIDE DEF seq
      <3> QED
        BY <1>0, <2>1, <2>5, <3>1, <3>2, KeptByWrite
    <2>6. CASE UNCHANGED to_server
      BY <2>1, <2>3, <2>6, KeptBySame
    <2>7. CASE /\ Switched /\ CanAnswer(Taken.plugin)
               /\ Write("data", NextSeq, plugin', SwitchAnswer(Taken.plugin, Taken.scramble), tls_active)
               /\ UNCHANGED attempt
      <3> DEFINE p == Taken.plugin
                 data == SwitchAnswer(Taken.plugin, Taken.scramble)
      <3>1. p \in Plugins /\ Taken.scramble \in 0..MaxSwitches
        BY <2>4 DEF Replies
      <3>2. plugin' = p
        BY <2>7 DEF Switched
      <3>3. data \in Proofs
        BY <1>0, <3>1, AnswerTypes
      <3>4. data.form = "clear" => (tls_active \/ settings.path) /\ (p = "clear" => settings.cleartext)
        BY <2>7, <3>1, SafeProofKeeps
      <3>5. Write("data", NextSeq, p, data, tls_active)
        BY <2>7, <3>2
      <3> HIDE DEF p, data
      <3> QED
        BY <2>3, <2>5, <2>7, <3>1, <3>3, <3>4, <3>5
    <2>8. CASE MoreData /\ ~(UNCHANGED to_server)
      <3>1. PICK data \in {SafeProof(plugin, scramble), Encrypted(scramble)} :
                Write("data", NextSeq, plugin, data, tls_active) /\ UNCHANGED attempt
                /\ plugin \in {"caching", "sha256"}
        BY <2>8 DEF MoreData
      <3>2. data \in Proofs
        BY <1>0, <3>1, AnswerTypes
      <3>3. data.form = "clear" => (tls_active \/ settings.path) /\ (plugin = "clear" => settings.cleartext)
        BY <1>0, <3>1, SafeProofKeeps
      <3> QED
        BY <1>0, <2>3, <2>5, <3>1, <3>2, <3>3
    <2> QED
      BY <1>3, <2>6, <2>7, <2>8 DEF ReadVerdict, Accepted, Switched, Unexpected
  <1>4. CASE ReadKey
    <2>1. settings' = settings /\ pc = "key" /\ Take /\ Waits
      BY <1>4 DEF ReadKey, Waits
    <2>2. Upgraded'
      BY <1>4, <2>1 DEF Upgraded, Satisfied, ReadKey, connection, Throws
    <2>3. CASE UNCHANGED to_server
      BY <2>1, <2>2, <2>3, KeptBySame
    <2>4. CASE Write("data", NextSeq, plugin, Encrypted(scramble), tls_active) /\ UNCHANGED attempt
      <3> DEFINE seq == NextSeq
                 data == Encrypted(scramble)
      <3>1. seq \in 0..255 /\ data \in Proofs /\ data.form # "clear"
        BY <1>0, <2>1, TakeType, AnswerTypes, SafeProofKeeps
      <3>2. settings.ssl # "off" => tls_active /\ Satisfied(settings.cert)
        BY <2>1 DEF Upgraded
      <3>3. Write("data", seq, plugin, data, tls_active)
        BY <2>4
      <3> HIDE DEF seq, data
      <3> QED
        BY <1>0, <2>1, <2>2, <2>4, <3>1, <3>2, <3>3, KeptByWrite
    <2> QED
      BY <1>4, <2>3, <2>4 DEF ReadKey
  <1>5. CASE ReadFails \/ ReadLeftover
    <2>1. settings' = settings /\ to_server' = to_server /\ pc' = "idle" /\ UNCHANGED connection
      BY <1>5 DEF ReadFails, ReadLeftover, wires, Throws
    <2> QED
      BY <2>1, KeptBySame DEF Upgraded, Satisfied, connection
  <1>6. CASE Connect
    <2>1. settings' = settings /\ Hangup({socket}) /\ pc' \in {"greeting", "idle"} /\ connected' = FALSE
      BY <1>6 DEF Connect
    <2> QED
      BY <2>1, KeptByHangup DEF Upgraded
  <1>7. CASE ReadTimesOut
    <2>1. settings' = settings /\ Hangup({Current}) /\ pc' = "idle" /\ connected' = FALSE
      BY <1>7 DEF ReadTimesOut, Closes
    <2> QED
      BY <2>1, KeptByHangup DEF Upgraded
  <1>8. CASE End
    <2>1. /\ settings' = settings /\ pc' = "idle" /\ connected' = FALSE
          /\ to_server' = to_server \/ Hangup({socket, stream})
      BY <1>8, EndIs DEF QuitFails, Closes, dialogue, wires
    <2>2. Upgraded'
      BY <2>1 DEF Upgraded
    <2>3. CASE to_server' = to_server
      BY <2>1, <2>2, <2>3, KeptBySame
    <2>4. CASE Hangup({socket, stream})
      BY <2>1, <2>2, <2>4, KeptByHangup
    <2> QED
      BY <2>1, <2>3, <2>4
  <1>9. CASE ChangeUser
    <2>1. settings' = settings /\ pc = "idle" /\ connected /\ UNCHANGED connection /\ pc' = "verdict"
      BY <1>9 DEF ChangeUser
    <2>2. settings.ssl # "off" => tls_active /\ Satisfied(settings.cert)
      BY <2>1 DEF Upgraded
    <2>3. Upgraded'
      BY <2>1, <2>2 DEF Upgraded, connection, Satisfied
    <2>4. attempt'.user \in Users /\ attempt'.password \in Passwords
      BY <1>9, ChangeType, Unchanged, <2>1 DEF TypeInv, ClientTyped
    <2> DEFINE p == plugin'
               data == Token(plugin', attempt'.password, 1)
    <2>5. p \in Plugins /\ p = ChosenPlugin(tls_active) /\ Write("change", 0, p, data, tls_active)
      BY <1>0, <1>9, PluginType DEF ChangeUser
    <2>6. data \in Proofs
      BY <2>4, <2>5, TokenType, Bounds
    <2>7. data.form = "clear" => /\ tls_active \/ settings.path
                                 /\ p = "clear" => settings.cleartext
      BY <1>0, <2>5, TokenKeeps
    <2> HIDE DEF p, data
    <2> QED
      <3>1. tls_active \in BOOLEAN
        BY DEF TypeInv, ClientTyped
      <3>2. /\ settings' = settings /\ attempt'.user \in Users /\ p \in Plugins
            /\ Write("change", 0, p, data, tls_active)
        BY <2>1, <2>4, <2>5
      <3>3. data.password # NoPassword =>
              /\ data.form = "clear" => tls_active \/ settings.path
              /\ data.form = "clear" /\ p = "clear" => settings.cleartext
              /\ settings.ssl # "off" => tls_active /\ Satisfied(settings.cert)
        BY <2>2, <2>7
      <3>4. 0 \in 0..255 /\ "change" \in {"ssl", "response", "change", "data"}
        OBVIOUS
      <3>5. PasswordKept'
        BY <2>6, <3>1, <3>2, <3>3, <3>4, KeptByWrite
      <3> QED
        BY <2>3, <3>5
  <1>10. ASSUME NEW t \in Transports, Server(t) \/ Drop(t), UNCHANGED <<settings, connection, leftover, dialogue, dials>>
         PROVE  PasswordKept' /\ Upgraded'
    <2>1. Upgraded'
      BY <1>10 DEF Upgraded, dialogue, connection, Satisfied
    <2>2. \A u \in Transports : to_server'[u] = to_server[u]
             \/ (to_server[u] # <<>> /\ to_server'[u] = Tail(to_server[u]))
      BY <1>10 DEF Server, Greet, ServerReads, Drop, wires, TypeInv, WiresTyped
    <2> QED
      BY <1>10, <2>1, <2>2, KeptBySame
  <1>11. CASE UNCHANGED vars
    BY <1>11, KeptBySame DEF vars, dialogue, connection, wires, Upgraded, Satisfied
  <1> QED
    BY <1>1, <1>2, <1>3, <1>4, <1>5, <1>6, <1>7, <1>8, <1>9, <1>10, <1>11 DEF Next, Client, Caller

\* A password leaves in clear only through TLS or a local socket, to mysql_clear_password only
\* if the application agreed; with TLS asked for, only to a server whose certificate convinced.
\* This holds whatever Extras allows.
THEOREM LoginPasswordKept == Spec => []PasswordKept
  <1>1. Init => PasswordKept /\ Upgraded
    BY DEF Init, PasswordKept, Upgraded
  <1> QED
    BY <1>1, InitType, NextType, NextKept, PTL DEF Spec

-----------------------------------------------------------------------------
(***************************************************************************)
(* A login is about the newest transport, because a failed one is ended:   *)
(* connect() then finds no TLS stream that it would read instead.  It may  *)
(* find zeros in the read buffer, and ends when it has read them.          *)
(***************************************************************************)

Ended == "no_end" \notin Extras /\ "quit_fails" \notin Extras

Newest ==
  /\ Waits => Current = dials
  /\ socket <= dials /\ stream <= dials
  /\ stream # 0 => socket = 0 /\ settings.ssl # "off"
  /\ ~Waits /\ stream # 0 => outcome = "threw"
  /\ pc \in {"greeting", "tls"} => ~tls_active /\ ~connected
  /\ pc = "greeting" => stream = 0

\* What Connect may rely on.
LEMMA ConnectFresh ==
  ASSUME Ended, TypeInv, Newest, Connect
  PROVE  /\ stream = 0 /\ ~tls_active /\ Current' = socket' /\ ~connected'
         /\ \/ dials' = dials + 1 /\ socket' = dials' /\ dials' \in Transports /\ pc' = "greeting"
            \/ dials' = dials /\ socket' = 0 /\ pc' = "idle"
  <1>1. pc = "idle" /\ connected = FALSE /\ ~Waits
    BY DEF Connect, Waits
  <1>2. stream = 0
    BY <1>1 DEF Connect, Newest, Ended, Current
  <1>3. connected' = connected /\ stream' = stream
    BY DEF Connect
  <1>4. \/ dials < MaxDials /\ dials' = dials + 1 /\ socket' = dials' /\ pc' = "greeting"
        \/ dials' = dials /\ socket' = 0 /\ pc' = "idle"
    BY DEF Connect
  <1>5. dials \in 0..MaxDials /\ (dials < MaxDials => dials + 1 \in Transports)
    BY Bounds DEF TypeInv, ClientTyped, Transports
  <1> QED
    BY <1>1, <1>2, <1>3, <1>4, <1>5 DEF TypeInv, ClientTyped, Current

LEMMA NextNewest == Ended /\ TypeInv /\ Newest /\ [Next]_vars => Newest'
  <1> SUFFICES ASSUME Ended, TypeInv, Newest, [Next]_vars PROVE Newest'
    OBVIOUS
  <1>0. /\ socket \in 0..MaxDials /\ stream \in 0..MaxDials /\ dials \in 0..MaxDials /\ MaxDials \in Nat
        /\ pc = "greeting" => socket # 0
        /\ pc = "tls" => stream # 0
    BY Bounds DEF TypeInv, ClientTyped, Attached
  <1>1. CASE ReadGreeting
    <2>1. settings' = settings /\ pc = "greeting" /\ dials' = dials
      BY <1>1 DEF ReadGreeting
    <2>2. CASE Respond(tls_active) /\ UNCHANGED connection
      BY <2>1, <2>2 DEF Respond, connection, Newest, Waits, Current
    <2>3. CASE Throws
      BY <2>1, <2>3 DEF Throws, connection, Newest, Waits, Current
    <2>4. CASE /\ pc' = "tls" /\ stream' = socket /\ socket' = 0 /\ UNCHANGED <<connected, tls_active>>
               /\ settings.ssl # "off"
      BY <1>0, <2>1, <2>4 DEF Newest, Waits, Current
    <2> QED
      BY <1>1, <2>2, <2>3, <2>4 DEF ReadGreeting
  <1>2. CASE TlsEnds
    <2>1. settings' = settings /\ pc = "tls" /\ dials' = dials
      BY <1>2 DEF TlsEnds
    <2>2. CASE Respond(TRUE) /\ UNCHANGED <<connected, socket, stream>>
      BY <2>1, <2>2 DEF Respond, Newest, Waits, Current
    <2>3. CASE Throws
      BY <2>1, <2>3 DEF Throws, connection, Newest, Waits, Current
    <2> QED
      BY <1>2, <2>2, <2>3 DEF TlsEnds
  <1>3. CASE ReadVerdict \/ ReadKey
    <2>1. settings' = settings /\ pc \in {"verdict", "key"} /\ UNCHANGED <<dials, socket, stream, tls_active>>
          /\ pc' \in {"idle", "verdict", "key"}
          /\ (pc' = "idle" => connected' \/ outcome' = "threw")
      BY <1>3 DEF ReadVerdict, Accepted, Switched, MoreData, Unexpected, ReadKey, Throws, connection
    <2> QED
      BY <2>1 DEF Newest, Waits, Current
  <1>4. CASE ReadFails \/ ReadLeftover
    <2>1. settings' = settings /\ pc # "idle" /\ dials' = dials /\ pc' = "idle" /\ outcome' = "threw"
          /\ UNCHANGED <<connected, socket, stream, tls_active>>
      BY <1>4 DEF ReadFails, ReadLeftover, Throws, connection
    <2> QED
      BY <2>1 DEF Newest, Waits, Current
  <1>5. CASE Connect
    <2>1. /\ stream' = 0 /\ ~tls_active' /\ Current' = socket' /\ ~connected'
          /\ \/ dials' = dials + 1 /\ socket' = dials' /\ pc' = "greeting"
             \/ dials' = dials /\ socket' = 0 /\ pc' = "idle"
      BY <1>5, ConnectFresh DEF Connect
    <2> QED
      BY <1>0, <2>1 DEF Newest, Waits
  <1>6. CASE ReadTimesOut \/ End
    <2>1. CASE pc' = "idle" /\ Closes /\ dials' = dials
      BY <1>0, <2>1 DEF Newest, Waits, Closes
    <2>2. CASE QuitFails /\ UNCHANGED <<settings, dials, dialogue>> /\ pc = "idle"
      BY <1>0, <2>2 DEF QuitFails, Newest, Waits, Ended, dialogue
    <2> QED
      BY <1>6, <2>1, <2>2, EndIs DEF ReadTimesOut, dialogue
  <1>7. CASE ChangeUser
    <2>1. /\ settings' = settings /\ connected /\ pc' = "verdict"
          /\ UNCHANGED <<dials, connected, socket, stream, tls_active>>
      BY <1>7 DEF ChangeUser, connection
    <2> QED
      BY <2>1 DEF Newest, Waits, Current
  <1>8. CASE UNCHANGED <<settings, connection, leftover, dialogue, dials>>
    BY <1>8 DEF connection, dialogue, Newest, Waits, Current
  <1> QED
    BY <1>1, <1>2, <1>3, <1>4, <1>5, <1>6, <1>7, <1>8 DEF Next, Client, Caller, vars

LEMMA InitNewest == Init => Newest
  BY DEF Init, Newest, Waits, Current

\* Where zeros are left in the read buffer: only a greeting is read from them, or the
\* answer to a change_user() on a transport that has gone.
Behind ==
  /\ connected => at[Current] = "closed"
  /\ pc # "idle" => attempt.on = 0 /\ (pc = "greeting" \/ connected)
Unread == leftover => Behind

LEMMA NextUnread == Ended /\ TypeInv /\ Newest /\ Unread /\ [Next]_vars => Unread'
  <1> SUFFICES ASSUME Ended, TypeInv, Newest, Unread, [Next]_vars, leftover' PROVE Behind'
    BY DEF Unread
  <1>1. CASE ReadGreeting \/ ReadVerdict \/ ReadKey
    BY <1>1 DEF ReadGreeting, ReadVerdict, ReadKey, Take
  <1>2. CASE TlsEnds
    BY <1>2 DEF TlsEnds, Unread, Behind, Newest
  <1>3. CASE ReadLeftover \/ ReadFails
    <2>1. /\ connected => at[Current] = "closed"
          /\ pc' = "idle" /\ UNCHANGED <<connection, at>>
      BY <1>3 DEF ReadLeftover, ReadFails, Throws, server, Unread, Behind
    <2> QED
      BY <2>1 DEF Behind, connection, Current
  <1>4. CASE Connect
    <2>1. ~connected' /\ leftover /\ pc' \in {"idle", "greeting"} /\ attempt'.on = 0
      BY <1>4 DEF Connect
    <2> QED
      BY <2>1 DEF Behind
  <1>5. CASE ReadTimesOut \/ End
    <2>1. ~connected' /\ pc' = "idle"
      BY <1>5, EndIs DEF ReadTimesOut, Closes, QuitFails, dialogue
    <2> QED
      BY <2>1 DEF Behind
  <1>6. CASE ChangeUser
    <2>1. leftover /\ connected /\ UNCHANGED <<connection, at>> /\ attempt'.on = 0
      BY <1>6 DEF ChangeUser, server
    <2> QED
      BY <2>1 DEF Unread, Behind, connection, Current
  <1>7. ASSUME NEW t \in Transports, Server(t) \/ Drop(t),
               UNCHANGED <<settings, connection, leftover, dialogue, dials>>
        PROVE  Behind'
    <2>1. /\ Behind /\ UNCHANGED <<connected, pc, attempt>> /\ Current' = Current
      BY <1>7 DEF Unread, connection, dialogue, Current
    <2>2. connected /\ at[Current] = "closed" => at'[Current] = "closed"
      <3>1. \/ UNCHANGED at
            \/ \E next : at[t] # "closed" /\ at' = [at EXCEPT ![t] = next]
        BY <1>7 DEF Server, Greet, ServerReads, Drop, AskAgain, Judge
      <3>2. connected => Current \in Transports
        BY CurrentType, Bounds DEF TypeInv, Attached, Waits, Transports
      <3> QED
        BY <3>1, <3>2 DEF TypeInv, ServerTyped
    <2> QED
      BY <2>1, <2>2 DEF Behind
  <1>8. CASE UNCHANGED vars
    BY <1>8 DEF vars, connection, dialogue, server, Unread, Behind, Current
  <1> QED
    BY <1>1, <1>2, <1>3, <1>4, <1>5, <1>6, <1>7, <1>8 DEF Next, Client, Caller

\* As long as end() follows a login that failed under TLS, and closes the transport, what a
\* call reads comes from the transport dialled last.  Zeros in the read buffer are met only by
\* calls that began with them, as a greeting or on a transport that has gone.
THEOREM LoginReadsNewest == ASSUME Ended PROVE Spec => []ReadsNewest
  <1>1. Newest /\ Unread => ReadsNewest
    BY DEF Newest, Waits, Unread, Behind, ReadsNewest
  <1>2. TypeInv /\ Newest /\ Unread /\ [Next]_vars => Newest' /\ Unread'
    BY NextNewest, NextUnread
  <1>3. Init => Unread
    BY DEF Init, Unread
  <1> QED
    BY <1>1, <1>2, <1>3, InitType, NextType, InitNewest, PTL DEF Spec

-----------------------------------------------------------------------------
(***************************************************************************)
(* The dialogue: whose turn it is, and what the next packet is.  A server  *)
(* that is there is always asked what it expects, with the sequence id and *)
(* the scramble that it expects, and answers what the client can take.     *)
(***************************************************************************)

Supported == Extras = {}

\* No transport is touched before it is dialled.
Fresh ==
  \A t \in Transports : t > dials =>
    /\ at[t] = "unused" /\ to_server[t] = <<>> /\ to_client[t] = <<>>
    /\ session[t].tls = FALSE

RightPassword == settings.accounts[attempt.user].password = attempt.password

Attempt ==
  /\ pc # "idle" => /\ attempt.on \in {0, Current}
                    /\ attempt.password = login.password
                    /\ attempt.call = "connect" => attempt.user = login.user
                    /\ attempt.call = "change_user" => connected
                    /\ attempt.call # "none"
  /\ connected => compression = Compressed

\* A sound transport is closed only for a wrong password.
Blame ==
  pc # "idle" /\ at[Current] = "closed" /\ attempt.on # 0 => lost[attempt.on] \/ ~RightPassword

\* A proof of the password for a plugin and a scramble, or the request for a key.
Genuine(d, p, nonce, password) ==
  \/ d.form = "ask"
  \/ d.form = "empty" /\ password = NoPassword
  \/ d.form = "clear" /\ d.password = password
  \/ d = Proof("hash", p, password, nonce)
  \/ d = Proof("rsa", p, password, nonce)

Known(c) == session[c].user = attempt.user /\ session[c].compress = Compressed

Greeting(c) ==
  /\ pc = "greeting" /\ to_server[c] = <<>> /\ session[c].tls = FALSE
  /\ \/ at[c] = "unused" /\ to_client[c] = <<>>
     \/ at[c] = "response" /\ said[c] = 0 /\ Len(to_client[c]) = 1

Upgrading(c) ==
  /\ pc = "tls" /\ to_client[c] = <<>> /\ session[c].tls = FALSE
  /\ \/ at[c] = "tls" /\ said[c] = 1 /\ to_server[c] = <<>>
     \/ /\ at[c] = "response" /\ said[c] = 0 /\ Len(to_server[c]) = 1
        /\ to_server[c][1].kind = "ssl" /\ to_server[c][1].seq = 1

Sent(c, p) ==
  /\ p.user = attempt.user /\ p.plugin = plugin /\ p.compress = Compressed
  /\ Genuine(p.data, plugin, scramble, login.password)
  /\ p.data.form = "ask" => p.kind = "data" /\ (pc = "key" \/ plugin = "sha256")
  /\ p.data.form # "ask" => pc = "verdict"
  /\ \/ p.kind = "response" /\ at[c] = "response" /\ scramble = 1 /\ p.seq = (said[c] + 1) % 256
     \/ p.kind = "change" /\ at[c] \in {"ready", "proof"} /\ scramble = 1 /\ p.seq = 0
     \/ /\ p.kind = "data" /\ at[c] \in {"proof", "full"} /\ scramble = asked[c] /\ Known(c)
        /\ p.seq = (said[c] + 1) % 256

ServersTurn(c) ==
  /\ pc \in {"verdict", "key"} /\ to_client[c] = <<>> /\ session[c].tls = tls_active
  /\ Len(to_server[c]) = 1 /\ Sent(c, to_server[c][1])

Asks(c, q) ==
  /\ q.seq = said[c]
  /\ \/ /\ q.kind = "switch" /\ at[c] = "proof" /\ pc = "verdict" /\ q.scramble = asked[c]
        /\ q.plugin = settings.accounts[attempt.user].plugin
     \/ q.kind = "more4" /\ at[c] = "full" /\ pc = "verdict" /\ plugin = "caching" /\ scramble = asked[c]
     \/ /\ q.kind = "key" /\ at[c] \in {"proof", "full"} /\ scramble = asked[c]
        /\ pc = "key" \/ plugin = "sha256"

LetsIn(c) ==
  /\ at[c] = "ready" /\ pc = "verdict" /\ RightPassword
  /\ \/ Len(to_client[c]) = 1 /\ to_client[c][1].kind = "ok"
     \/ /\ Len(to_client[c]) = 2 /\ to_client[c][1].kind = "more3" /\ to_client[c][2].kind = "ok"
        /\ plugin = "caching"

ClientsTurn(c) ==
  /\ pc \in {"verdict", "key"} /\ to_server[c] = <<>> /\ session[c].tls = tls_active
  /\ Known(c)
  /\ LetsIn(c) \/ (Len(to_client[c]) = 1 /\ Asks(c, to_client[c][1]))

Rests(c) ==
  /\ pc = "idle" /\ to_server[c] = <<>> /\ to_client[c] = <<>> /\ session[c].tls = tls_active
  /\ at[c] \in {"ready", "proof"}
  /\ at[c] = "ready" => /\ session[c].user = login.user /\ session[c].compress = compression
                        /\ login.password = settings.accounts[login.user].password

Stage(c) == Greeting(c) \/ Upgrading(c) \/ ServersTurn(c) \/ ClientsTurn(c) \/ Rests(c)
Dialogue == Waits /\ at[Current] # "closed" => Stage(Current)

DialogueInv == Fresh /\ Attempt /\ Blame /\ Dialogue /\ NoUnjustRefusal

LEMMA InitDialogue == Init => DialogueInv
  <1> SUFFICES ASSUME Init PROVE DialogueInv
    OBVIOUS
  <1>1. Fresh
    BY DEF Init, Fresh, Nobody
  <1> QED
    BY <1>1 DEF Init, DialogueInv, Attempt, Blame, Dialogue, Waits, NoUnjustRefusal

\* What the client sends is a proof of its password for the plugin and scramble at hand.
LEMMA TokenGenuine ==
  ASSUME NEW p, NEW password, NEW nonce
  PROVE  /\ Genuine(Token(p, password, nonce), p, nonce, password)
         /\ Token(p, password, nonce).form # "ask"
  BY DEF Genuine, Token, Proof, Empty

LEMMA AnswersGenuine ==
  ASSUME NEW p, NEW nonce
  PROVE  /\ Genuine(SafeProof(p, nonce), p, nonce, login.password)
         /\ SafeProof(p, nonce).form = "ask" <=> SafeProof(p, nonce) = Ask
         /\ Genuine(Encrypted(nonce), plugin, nonce, login.password)
         /\ Encrypted(nonce).form # "ask"
         /\ Genuine(SwitchAnswer(p, nonce), p, nonce, login.password)
         /\ SwitchAnswer(p, nonce).form = "ask" => p = "sha256"
  <1>1. /\ Genuine(SafeProof(p, nonce), p, nonce, login.password)
        /\ SafeProof(p, nonce).form = "ask" <=> SafeProof(p, nonce) = Ask
    BY DEF Genuine, SafeProof, Proof, Empty, Ask
  <1>2. /\ Genuine(Encrypted(nonce), plugin, nonce, login.password)
        /\ Encrypted(nonce).form # "ask"
    BY DEF Genuine, Encrypted, Proof
  <1>3. /\ Genuine(SwitchAnswer(p, nonce), p, nonce, login.password)
        /\ SwitchAnswer(p, nonce).form = "ask" => p = "sha256"
    BY <1>1, TokenGenuine DEF SwitchAnswer
  <1> QED
    BY <1>1, <1>2, <1>3

\* What a write and a read do to the wires.
Writes(c, kind, seq, p, data) ==
  /\ \A t \in Transports : t # c => to_server'[t] = to_server[t]
  /\ to_server[c] = <<>> /\ at[c] # "closed" =>
       /\ Len(to_server'[c]) = 1
       /\ to_server'[c][1].kind = kind /\ to_server'[c][1].seq = seq
       /\ to_server'[c][1].user = attempt'.user /\ to_server'[c][1].plugin = p
       /\ to_server'[c][1].data = data /\ to_server'[c][1].compress = Compressed

LEMMA WriteIs ==
  ASSUME TypeInv, settings' = settings, attempt'.user \in Users, NEW c \in Transports, c = Current,
         NEW kind \in {"ssl", "response", "change", "data"}, NEW seq \in 0..255, NEW p \in Plugins,
         NEW data \in Proofs, NEW active \in BOOLEAN, Write(kind, seq, p, data, active)
  PROVE  Writes(c, kind, seq, p, data)
  <1> DEFINE m == [kind |-> kind, seq |-> seq, user |-> attempt'.user, plugin |-> p, data |-> data,
                   tls |-> active, compress |-> Compressed]
  <1>1. m \in Requests
    BY SettingsType DEF Requests, TypeInv
  <1>2. /\ m.kind = kind /\ m.seq = seq /\ m.user = attempt'.user /\ m.plugin = p
        /\ m.data = data /\ m.compress = Compressed
    OBVIOUS
  <1>3. to_server' = IF at[c] = "closed" THEN to_server ELSE [to_server EXCEPT ![c] = Append(@, m)]
    BY DEF Write
  <1> HIDE DEF m
  <1>4. to_server[c] \in Seq(Requests)
    BY DEF TypeInv, WiresTyped
  <1>5. to_server[c] = <<>> => Append(to_server[c], m)[1] = m /\ Len(Append(to_server[c], m)) = 1
    BY <1>1, <1>4, Joined
  <1> QED
    BY <1>2, <1>3, <1>5 DEF TypeInv, WiresTyped, Writes

LEMMA TakeIs ==
  ASSUME TypeInv, NEW c \in Transports, c = Current, Take
  PROVE  /\ Taken = to_client[c][1] /\ Taken \in Replies
         /\ Len(to_client[c]) = 1 => to_client'[c] = <<>>
         /\ Len(to_client[c]) = 2 => Len(to_client'[c]) = 1 /\ to_client'[c][1] = to_client[c][2]
         /\ \A t \in Transports : t # c => to_client'[t] = to_client[t]
         /\ to_client[c] # <<>>
  <1>1. to_client[c] \in Seq(Replies) /\ to_client[c] # <<>>
    BY DEF TypeInv, WiresTyped, Take
  <1>2. to_client'[c] = Tail(to_client[c]) /\ \A t \in Transports : t # c => to_client'[t] = to_client[t]
    BY DEF TypeInv, WiresTyped, Take
  <1>3. /\ Taken = to_client[c][1] /\ Taken \in Replies
        /\ Len(to_client[c]) = 1 => to_client'[c] = <<>>
    BY <1>1, <1>2, Rest DEF Taken
  <1>4. ASSUME Len(to_client[c]) = 2
        PROVE  Len(to_client'[c]) = 1 /\ to_client'[c][1] = to_client[c][2]
    <2>1. Tail(to_client[c]) \in Seq(Replies) /\ Len(Tail(to_client[c])) = 1
      BY <1>1, <1>4, Rest
    <2>2. 1 \in DOMAIN Tail(to_client[c])
      BY <2>1, LenProperties
    <2> QED
      BY <1>1, <1>2, <2>1, <2>2, Rest
  <1> QED
    BY <1>1, <1>2, <1>3, <1>4

LEMMA FreshStays ==
  ASSUME Fresh, dials' = dials, NEW c \in Transports, c <= dials, dials \in Int,
         \A t \in Transports : t # c =>
           /\ at'[t] = at[t] /\ to_server'[t] = to_server[t] /\ to_client'[t] = to_client[t]
           /\ session'[t] = session[t]
  PROVE  Fresh'
  BY Bounds DEF Fresh, Transports

LEMMA FreshHangup ==
  ASSUME Fresh, dials \in 0..MaxDials, dials' \in 0..MaxDials, dials' >= dials,
         NEW ts, \A x \in ts : x \in Int /\ x <= dials, Hangup(ts)
  PROVE  Fresh'
  <1> SUFFICES ASSUME NEW t \in Transports, t > dials' PROVE
           /\ at'[t] = "unused" /\ to_server'[t] = <<>> /\ to_client'[t] = <<>> /\ session'[t].tls = FALSE
    BY DEF Fresh
  <1>1. t > dials /\ t \notin ts
    BY Bounds DEF Transports
  <1> QED
    BY <1>1 DEF Fresh, Hangup

\* A step of the client while a call waits: what is left to show about it.
LEMMA ClientDialogue ==
  ASSUME TypeInv, Newest, DialogueInv, pc # "idle", NEW c \in Transports, c = Current, Current' = c,
         UNCHANGED <<settings, dials, said, asked, lost, attempt>>,
         at'[c] = "closed" <=> at[c] = "closed",
         \A t \in Transports : t # c =>
           /\ to_server'[t] = to_server[t] /\ to_client'[t] = to_client[t]
           /\ at'[t] = at[t] /\ session'[t] = session[t],
         Attempt',
         outcome' = "threw" => outcome = "threw" \/ at[c] = "closed" \/ Unable(attempt.user) \/ attempt.on = 0,
         at[c] # "closed" /\ Waits' => Stage(c)'
  PROVE  DialogueInv'
  <1>1. Fresh'
    <2>1. c <= dials /\ dials \in Int
      BY Bounds DEF Newest, Waits, TypeInv, ClientTyped
    <2> QED
      BY <2>1, FreshStays DEF DialogueInv
  <1>2. Blame'
    BY DEF DialogueInv, Blame, RightPassword
  <1>3. Dialogue'
    BY DEF Dialogue
  <1>4. NoUnjustRefusal'
    <2>1. Unable(attempt.user)' <=> Unable(attempt.user)
      BY DEF Unable, Satisfied
    <2> QED
      BY <2>1 DEF DialogueInv, Blame, RightPassword, NoUnjustRefusal
  <1> QED
    BY <1>1, <1>2, <1>3, <1>4 DEF DialogueInv

LEMMA Here ==
  ASSUME TypeInv, Newest, Waits
  PROVE  Current \in Transports /\ Current = dials
  BY CurrentType DEF TypeInv, Attached, Newest

\* The response to the greeting, which is the server's turn again.
LEMMA ResponseDialogue ==
  ASSUME TypeInv, Attempt, pc # "idle", NEW c \in Transports, c = Current, Current' = c, NEW active \in BOOLEAN,
         Respond(active), UNCHANGED <<settings, said, asked, login, connected, compression>>, tls_active' = active,
         at[c] # "closed",
         to_server[c] = <<>>, to_client'[c] = <<>>, at'[c] = "response", session'[c].tls = active,
         said[c] = IF active THEN 1 ELSE 0
  PROVE  ServersTurn(c)' /\ Attempt' /\ \A t \in Transports : t # c => to_server'[t] = to_server[t]
  <1> DEFINE p == plugin'
             data == Token(plugin', login.password, 1)
             seq == IF active THEN 2 ELSE 1
             kind == "response"
  <1>1. /\ p \in Plugins /\ attempt' = attempt /\ scramble' = 1 /\ pc' = "verdict"
        /\ Write(kind, seq, p, data, active)
    BY PluginType DEF Respond, TypeInv
  <1>2. attempt'.user \in Users /\ login.password \in Passwords
    BY <1>1 DEF TypeInv, ClientTyped
  <1>3. data \in Proofs /\ seq \in 0..255 /\ kind \in {"ssl", "response", "change", "data"}
    BY <1>1, <1>2, TokenType, Bounds
  <1>4. Genuine(data, p, 1, login.password) /\ data.form # "ask"
    BY TokenGenuine
  <1>5. seq = (said[c] + 1) % 256
    OBVIOUS
  <1>6. kind = "response"
    OBVIOUS
  <1> HIDE DEF p, data, seq, kind
  <1>7. /\ \A t \in Transports : t # c => to_server'[t] = to_server[t]
        /\ Len(to_server'[c]) = 1
        /\ to_server'[c][1].kind = kind /\ to_server'[c][1].seq = seq
        /\ to_server'[c][1].user = attempt'.user /\ to_server'[c][1].plugin = p
        /\ to_server'[c][1].data = data /\ to_server'[c][1].compress = Compressed
    <2>1. Writes(c, kind, seq, p, data)
      BY <1>1, <1>2, <1>3, WriteIs
    <2> QED
      BY <2>1 DEF Writes
  <1>8. Compressed' = Compressed /\ said'[c] = said[c]
    BY DEF Compressed
  <1>9. Sent(c, to_server[c][1])'
    BY <1>1, <1>4, <1>5, <1>6, <1>7, <1>8 DEF Sent, p
  <1>10. ServersTurn(c)'
    BY <1>1, <1>7, <1>9 DEF ServersTurn
  <1>11. Attempt'
    BY <1>1, <1>8 DEF Attempt
  <1> QED
    BY <1>7, <1>10, <1>11

LEMMA GreetingDialogue == ASSUME TypeInv, Newest, DialogueInv, ReadGreeting PROVE DialogueInv'
  <1>1. /\ settings' = settings /\ pc = "greeting" /\ UNCHANGED <<dials, server>> /\ Take /\ Waits
        /\ ~tls_active /\ ~connected /\ stream = 0 /\ tls_active \in BOOLEAN
    BY DEF ReadGreeting, Waits, Newest, TypeInv, ClientTyped
  <1>2. PICK c \in Transports : c = Current
    BY <1>1, Here
  <1>3. /\ Len(to_client[c]) = 1 => to_client'[c] = <<>>
        /\ \A t \in Transports : t # c => to_client'[t] = to_client[t]
        /\ to_client[c] # <<>>
    BY <1>1, <1>2, TakeIs
  <1>4. at[c] # "closed" => /\ at[c] = "response" /\ said[c] = 0 /\ Len(to_client[c]) = 1
                            /\ to_server[c] = <<>> /\ session[c].tls = FALSE
    BY <1>1, <1>2, <1>3 DEF DialogueInv, Dialogue, Stage, Greeting, Upgrading, ServersTurn, ClientsTurn, Rests
  <1>5. CASE settings.ssl = "off" /\ Respond(tls_active) /\ UNCHANGED connection
    <2>1. Current' = c /\ UNCHANGED <<login, connected, compression, tls_active, attempt, outcome>>
      BY <1>2, <1>5 DEF Current, connection, Respond
    <2>2. at[c] # "closed" => ServersTurn(c)'
      BY <1>1, <1>2, <1>3, <1>4, <1>5, <2>1, ResponseDialogue DEF DialogueInv, server
    <2>3. Attempt'
      BY <1>1, <1>2, <2>1, <1>5 DEF DialogueInv, Attempt, Compressed, Respond
    <2>4. \A t \in Transports : t # c => to_server'[t] = to_server[t]
      BY <1>2, <1>5 DEF Respond, Write, TypeInv, WiresTyped
    <2> QED
      BY <1>1, <1>2, <1>3, <2>1, <2>2, <2>3, <2>4, ClientDialogue DEF Stage, server
  <1>6. CASE Throws /\ UNCHANGED to_server /\ settings.ssl # "off" /\ "ssl" \notin settings.offers
    <2>1. Current' = c /\ UNCHANGED <<connected, compression, attempt>> /\ pc' = "idle"
      BY <1>2, <1>6 DEF Current, connection, Throws
    <2>2. Attempt' /\ ~Waits'
      BY <1>1, <2>1 DEF DialogueInv, Attempt, Compressed, Waits
    <2>3. Unable(attempt.user)
      BY <1>6 DEF Unable
    <2> QED
      BY <1>1, <1>2, <1>3, <1>6, <2>1, <2>2, <2>3, ClientDialogue DEF server
  <1>7. CASE /\ UNCHANGED <<attempt, plugin, scramble, outcome>>
             /\ Write("ssl", 1, plugin, Empty, FALSE)
             /\ pc' = "tls"
             /\ stream' = socket /\ socket' = 0
             /\ UNCHANGED <<connected, tls_active, compression, login>>
    <2>1. Current' = c
      BY <1>1, <1>2, <1>7, Bounds DEF Current, Transports
    <2>2. Attempt'
      BY <1>1, <1>2, <1>7, <2>1 DEF DialogueInv, Attempt, Compressed
    <2> DEFINE kind == "ssl"
               active == FALSE
               data == Empty
    <2>3. kind \in {"ssl", "response", "change", "data"} /\ active \in BOOLEAN /\ 1 \in 0..255
      OBVIOUS
    <2>4. data \in Proofs /\ plugin \in Plugins /\ attempt'.user \in Users
      BY <1>7, Bounds, AnswerTypes DEF TypeInv, ClientTyped
    <2>5. Write(kind, 1, plugin, data, active)
      BY ONLY <1>7
    <2>6. kind = "ssl"
      OBVIOUS
    <2> HIDE DEF kind, active, data
    <2>7. /\ \A t \in Transports : t # c => to_server'[t] = to_server[t]
          /\ to_server[c] = <<>> /\ at[c] # "closed" =>
               Len(to_server'[c]) = 1 /\ to_server'[c][1].kind = "ssl" /\ to_server'[c][1].seq = 1
      <3>1. Writes(c, kind, 1, plugin, data)
        BY <1>1, <1>2, <2>3, <2>4, <2>5, WriteIs
      <3> QED
        BY <2>6, <3>1 DEF Writes
    <2>8. at[c] # "closed" => Upgrading(c)'
      BY <1>1, <1>3, <1>4, <1>7, <2>7 DEF Upgrading, server
    <2> QED
      BY <1>1, <1>2, <1>3, <1>7, <2>1, <2>2, <2>7, <2>8, ClientDialogue DEF Stage, server
  <1> QED
    BY <1>5, <1>6, <1>7 DEF ReadGreeting

LEMMA TlsDialogue == ASSUME TypeInv, Newest, DialogueInv, TlsEnds PROVE DialogueInv'
  <1>1. /\ settings' = settings /\ pc = "tls" /\ UNCHANGED <<dials, said, asked, lost, to_client>> /\ Waits
        /\ ~tls_active /\ ~connected /\ stream # 0 /\ at[Current] = "tls"
    BY DEF TlsEnds, Waits, Newest, TypeInv, Attached
  <1>2. PICK c \in Transports : c = Current
    BY <1>1, Here
  <1>3. said[c] = 1 /\ to_server[c] = <<>> /\ to_client[c] = <<>>
    BY <1>1, <1>2 DEF DialogueInv, Dialogue, Stage, Greeting, Upgrading, ServersTurn, ClientsTurn, Sent, Asks, LetsIn, Rests
  <1>4. CASE /\ tls_active' = TRUE
             /\ Respond(TRUE)
             /\ at' = [at EXCEPT ![Current] = "response"]
             /\ session' = [session EXCEPT ![Current].tls = TRUE]
             /\ UNCHANGED <<connected, socket, stream, compression, login>>
    <2>1. Current' = c /\ UNCHANGED <<attempt, outcome>>
      BY <1>2, <1>4 DEF Current, Respond
    <2>2. at'[c] = "response" /\ session'[c].tls = TRUE
          /\ \A t \in Transports : t # c => at'[t] = at[t] /\ session'[t] = session[t]
      BY <1>2, <1>4 DEF TypeInv, ServerTyped
    <2> DEFINE active == TRUE
    <2>3. active \in BOOLEAN /\ Respond(active) /\ tls_active' = active /\ session'[c].tls = active
          /\ said[c] = IF active THEN 1 ELSE 0
      BY <1>3, <1>4, <2>2
    <2> HIDE DEF active
    <2>4. ServersTurn(c)' /\ Attempt' /\ \A t \in Transports : t # c => to_server'[t] = to_server[t]
      BY <1>1, <1>2, <1>3, <1>4, <2>1, <2>2, <2>3, ResponseDialogue DEF DialogueInv
    <2> QED
      BY <1>1, <1>2, <2>1, <2>2, <2>4, ClientDialogue DEF Stage
  <1>5. CASE ~Convinced /\ Throws /\ UNCHANGED <<at, session, to_server>>
    <2>1. Current' = c /\ UNCHANGED <<connected, compression, attempt>> /\ pc' = "idle"
      BY <1>2, <1>5 DEF Current, connection, Throws
    <2>2. Attempt' /\ ~Waits'
      BY <1>1, <2>1 DEF DialogueInv, Attempt, Compressed, Waits
    <2>3. Unable(attempt.user)
      <3>1. settings.ssl # "off" /\ settings \in Settings
        BY <1>1 DEF Newest, TypeInv
      <3>2. ~Satisfied(settings.cert)
        BY <1>5, <3>1, SettingsType DEF Convinced, Satisfied
      <3> QED
        BY <3>1, <3>2 DEF Unable
    <2> QED
      BY <1>1, <1>2, <1>5, <2>1, <2>2, <2>3, ClientDialogue
  <1> QED
    BY <1>4, <1>5 DEF TlsEnds

\* The answer to a request for another proof, which is the server's turn again.
LEMMA AnswerDialogue ==
  ASSUME TypeInv, Waits, Take, NEW c \in Transports, c = Current,
         UNCHANGED <<settings, attempt, said, asked, at, session, login, tls_active>>,
         NEW p \in Plugins, NEW data \in Proofs, Write("data", NextSeq, p, data, tls_active),
         plugin' = p, Genuine(data, p, scramble', login.password),
         data.form = "ask" => pc' = "key" \/ p = "sha256",
         data.form # "ask" => pc' = "verdict",
         pc' \in {"verdict", "key"},
         at[c] # "closed" => /\ to_server[c] = <<>> /\ to_client'[c] = <<>> /\ at[c] \in {"proof", "full"}
                             /\ scramble' = asked[c] /\ Known(c) /\ session[c].tls = tls_active
                             /\ Taken.seq = said[c]
  PROVE  /\ \A t \in Transports : t # c => to_server'[t] = to_server[t]
         /\ at[c] # "closed" => ServersTurn(c)'
  <1> DEFINE seq == NextSeq
             kind == "data"
  <1>1. seq \in 0..255 /\ attempt'.user \in Users /\ tls_active \in BOOLEAN
    BY TakeType DEF TypeInv, ClientTyped
  <1>2. kind \in {"ssl", "response", "change", "data"} /\ kind = "data"
    OBVIOUS
  <1>3. Write(kind, seq, p, data, tls_active)
    OBVIOUS
  <1>4. seq = (Taken.seq + 1) % 256
    BY DEF NextSeq
  <1> HIDE DEF seq, kind
  <1>5. Writes(c, kind, seq, p, data)
    BY <1>1, <1>2, <1>3, WriteIs
  <1>6. ASSUME at[c] # "closed" PROVE ServersTurn(c)'
    <2>1. Compressed' = Compressed /\ Known(c)'
      BY <1>6 DEF Compressed, Known
    <2>2. Sent(c, to_server[c][1])'
      BY <1>2, <1>4, <1>5, <1>6, <2>1 DEF Sent, Writes
    <2> QED
      BY <1>5, <1>6, <2>2 DEF ServersTurn, Writes
  <1> QED
    BY <1>5, <1>6 DEF Writes

LEMMA VerdictDialogue == ASSUME TypeInv, Newest, Upgraded, DialogueInv, ReadVerdict PROVE DialogueInv'
  <1>1. /\ settings' = settings /\ pc = "verdict" /\ UNCHANGED <<dials, at, said, asked, session, lost>>
        /\ Take /\ Waits
    BY DEF ReadVerdict, Waits, server
  <1>2. PICK c \in Transports : c = Current
    BY <1>1, Here
  <1>3. /\ Taken = to_client[c][1] /\ Taken \in Replies
        /\ Len(to_client[c]) = 1 => to_client'[c] = <<>>
        /\ Len(to_client[c]) = 2 => Len(to_client'[c]) = 1 /\ to_client'[c][1] = to_client[c][2]
        /\ \A t \in Transports : t # c => to_client'[t] = to_client[t]
        /\ to_client[c] # <<>>
    BY <1>1, <1>2, TakeIs
  <1>4. at[c] # "closed" => ClientsTurn(c)
    BY <1>1, <1>2, <1>3 DEF DialogueInv, Dialogue, Stage, Greeting, Upgrading, ServersTurn, Rests
  <1>5. Attempt /\ plugin \in Plugins /\ scramble \in 0..MaxSwitches /\ ClientTyped /\ attempt.user \in Users
        /\ settings \in Settings
    BY DEF DialogueInv, TypeInv, ClientTyped
  <1>6. Compressed' = Compressed
    BY <1>1 DEF Compressed
  <1>7. CASE Accepted
    <2>1. Current' = c /\ UNCHANGED <<attempt, to_server, tls_active>> /\ pc' = "idle" /\ outcome' = "ok" /\ connected' = TRUE
      BY <1>2, <1>7 DEF Accepted, Current
    <2>2. compression' = Compressed
      BY <1>1, <1>5, <1>7 DEF Accepted, Attempt, ClientTyped
    <2>3. Attempt'
      BY <1>6, <2>1, <2>2 DEF Attempt
    <2>4. /\ login'.user = attempt.user /\ login'.password = attempt.password
      BY <1>1, <1>5, <1>7 DEF Accepted, Attempt, ClientTyped
    <2>5. ASSUME at[c] # "closed" PROVE Rests(c)'
      <3>1. LetsIn(c) /\ Len(to_client[c]) = 1
        BY <1>3, <1>4, <1>7, <2>5 DEF Accepted, ClientsTurn, LetsIn, Asks
      <3> QED
        BY <1>1, <1>3, <1>4, <2>1, <2>2, <2>4, <2>5, <3>1 DEF ClientsTurn, LetsIn, Rests, Known, RightPassword
    <2> QED
      BY <1>1, <1>2, <1>3, <2>1, <2>3, <2>5, ClientDialogue DEF Stage
  <1>8. CASE Switched
    <2>1. Current' = c /\ UNCHANGED <<attempt, connected, compression, login, tls_active>>
          /\ plugin' = Taken.plugin /\ scramble' = Taken.scramble /\ Taken.kind = "switch"
      BY <1>1, <1>2, <1>8 DEF Switched, Current, connection
    <2>2. Taken.plugin \in Plugins /\ Taken.scramble \in 0..MaxSwitches
      BY <1>3 DEF Replies
    <2>3. at[c] # "closed" => /\ to_server[c] = <<>> /\ session[c].tls = tls_active /\ Known(c)
                              /\ Len(to_client[c]) = 1 /\ at[c] = "proof" /\ Taken.scramble = asked[c]
                              /\ Taken.seq = said[c] /\ Taken.plugin = settings.accounts[attempt.user].plugin
      BY <1>3, <1>4, <2>1 DEF ClientsTurn, LetsIn, Asks
    <2>4. CASE /\ UNCHANGED <<pc, outcome>>
               /\ Write("data", NextSeq, plugin', SwitchAnswer(Taken.plugin, Taken.scramble), tls_active)
      <3>1. Attempt'
        BY <1>5, <1>6, <1>2, <2>1, <2>4 DEF Attempt
      <3> DEFINE p == Taken.plugin
                 data == SwitchAnswer(Taken.plugin, Taken.scramble)
      <3>2. p \in Plugins /\ plugin' = p /\ Write("data", NextSeq, p, data, tls_active)
        BY <2>1, <2>2, <2>4
      <3>3. data \in Proofs
        BY <1>5, <2>2, AnswerTypes
      <3>4. Genuine(data, p, scramble', login.password) /\ (data.form = "ask" => p = "sha256")
        BY <2>1, AnswersGenuine
      <3> HIDE DEF p, data
      <3>5. /\ \A t \in Transports : t # c => to_server'[t] = to_server[t]
            /\ at[c] # "closed" => ServersTurn(c)'
        BY <1>1, <1>2, <1>3, <2>1, <2>3, <2>4, <3>2, <3>3, <3>4, AnswerDialogue
      <3> QED
        BY <1>1, <1>2, <1>3, <2>1, <2>4, <3>1, <3>5, ClientDialogue DEF Stage
    <2>5. CASE /\ ~CanAnswer(Taken.plugin)
               /\ pc' = "idle" /\ outcome' = "threw" /\ UNCHANGED to_server
      <3>1. Attempt'
        BY <1>5, <1>6, <2>1, <2>5 DEF Attempt
      <3>2. at[c] # "closed" => Unable(attempt.user)
        BY <1>1, <2>3, <2>5 DEF CanAnswer, Secure, Unable, Upgraded
      <3>3. at[c] # "closed" => Rests(c)'
        BY <1>1, <1>3, <2>1, <2>3, <2>5 DEF Rests
      <3> QED
        BY <1>1, <1>2, <1>3, <2>1, <2>5, <3>1, <3>2, <3>3, ClientDialogue DEF Stage
    <2> QED
      BY <1>8, <2>4, <2>5 DEF Switched
  <1>9. CASE MoreData
    <2>1. /\ Current' = c /\ UNCHANGED <<attempt, connected, compression, login, tls_active, plugin, scramble, outcome>>
          /\ pc' \in {"verdict", "key"}
      BY <1>1, <1>2, <1>9 DEF MoreData, Current, connection
    <2>2. Attempt'
      BY <1>1, <1>2, <1>5, <1>6, <2>1 DEF Attempt
    <2>3. CASE Taken.kind = "more3" /\ plugin = "caching" /\ pc' = pc /\ UNCHANGED to_server
      <3>1. at[c] # "closed" => LetsIn(c) /\ Len(to_client[c]) = 2
        BY <1>3, <1>4, <2>3 DEF ClientsTurn, LetsIn, Asks
      <3>2. at[c] # "closed" => LetsIn(c)'
        BY <1>1, <1>3, <2>1, <2>3, <3>1 DEF LetsIn, RightPassword
      <3>3. at[c] # "closed" => ClientsTurn(c)'
        BY <1>1, <1>4, <1>6, <2>1, <2>3, <3>2 DEF ClientsTurn, Known
      <3> QED
        BY <1>1, <1>2, <1>3, <2>1, <2>2, <2>3, <3>3, ClientDialogue DEF Stage
    <2>4. ASSUME NEW data \in Proofs, Write("data", NextSeq, plugin, data, tls_active),
                 Genuine(data, plugin, scramble, login.password),
                 data.form = "ask" => pc' = "key",
                 data.form # "ask" => pc' = "verdict",
                 at[c] # "closed" => /\ Len(to_client[c]) = 1 /\ at[c] \in {"proof", "full"}
                                     /\ scramble = asked[c] /\ Taken.seq = said[c]
          PROVE  DialogueInv'
      <3>1. at[c] # "closed" => to_server[c] = <<>> /\ session[c].tls = tls_active /\ Known(c)
        BY <1>4 DEF ClientsTurn
      <3>2. /\ \A t \in Transports : t # c => to_server'[t] = to_server[t]
            /\ at[c] # "closed" => ServersTurn(c)'
        BY <1>1, <1>2, <1>3, <1>5, <2>1, <2>4, <3>1, AnswerDialogue
      <3> QED
        BY <1>1, <1>2, <1>3, <2>1, <2>2, <3>2, ClientDialogue DEF Stage
    <2>5. CASE /\ Taken.kind = "more4" /\ plugin = "caching"
               /\ Write("data", NextSeq, plugin, SafeProof(plugin, scramble), tls_active)
               /\ pc' = IF SafeProof(plugin, scramble) = Ask THEN "key" ELSE pc
      <3> DEFINE data == SafeProof(plugin, scramble)
      <3>1. data \in Proofs
        BY <1>5, AnswerTypes
      <3>2. Genuine(data, plugin, scramble, login.password) /\ (data.form = "ask" <=> data = Ask)
        BY AnswersGenuine
      <3>3. at[c] # "closed" => /\ Len(to_client[c]) = 1 /\ at[c] \in {"proof", "full"}
                                /\ scramble = asked[c] /\ Taken.seq = said[c]
        BY <1>3, <1>4, <2>5 DEF ClientsTurn, LetsIn, Asks
      <3>4. Write("data", NextSeq, plugin, data, tls_active) /\ pc' = IF data = Ask THEN "key" ELSE "verdict"
        BY <1>1, <2>5
      <3> HIDE DEF data
      <3>5. (data.form = "ask" => pc' = "key") /\ (data.form # "ask" => pc' = "verdict")
        BY <3>2, <3>4 DEF IsReply
      <3> QED
        BY <2>4, <3>1, <3>2, <3>3, <3>4, <3>5
    <2>6. CASE /\ plugin = "sha256" /\ HasKey /\ pc' = pc
               /\ Write("data", NextSeq, plugin, Encrypted(scramble), tls_active)
      <3> DEFINE data == Encrypted(scramble)
      <3>1. data \in Proofs
        BY <1>5, AnswerTypes
      <3>2. Genuine(data, plugin, scramble, login.password) /\ data.form # "ask"
        BY AnswersGenuine
      <3>3. at[c] # "closed" => /\ Len(to_client[c]) = 1 /\ at[c] \in {"proof", "full"}
                                /\ scramble = asked[c] /\ Taken.seq = said[c]
        BY <1>3, <1>4, <2>6 DEF ClientsTurn, LetsIn, Asks, HasKey
      <3>4. Write("data", NextSeq, plugin, data, tls_active)
        BY <2>6
      <3> HIDE DEF data
      <3> QED
        BY <1>1, <2>4, <2>6, <3>1, <3>2, <3>3, <3>4
    <2> QED
      BY <1>9, <2>3, <2>5, <2>6 DEF MoreData
  <1>10. CASE Unexpected
    <2>1. /\ Current' = c /\ UNCHANGED <<attempt, connected, compression, to_server>>
          /\ pc' = "idle" /\ outcome' = "threw"
      BY <1>2, <1>10 DEF Unexpected, Throws, Current, connection
    <2>2. at[c] = "closed"
      BY <1>1, <1>3, <1>4, <1>10 DEF Unexpected, ClientsTurn, LetsIn, Asks, HasKey
    <2>3. Attempt'
      BY <1>5, <1>6, <2>1 DEF Attempt
    <2> QED
      BY <1>1, <1>2, <1>3, <2>1, <2>2, <2>3, ClientDialogue
  <1> QED
    BY <1>7, <1>8, <1>9, <1>10 DEF ReadVerdict

LEMMA KeyDialogue == ASSUME TypeInv, Newest, DialogueInv, ReadKey PROVE DialogueInv'
  <1>1. /\ settings' = settings /\ pc = "key" /\ UNCHANGED <<dials, at, said, asked, session, lost>>
        /\ Take /\ Waits
    BY DEF ReadKey, Waits, server
  <1>2. PICK c \in Transports : c = Current
    BY <1>1, Here
  <1>3. /\ Taken = to_client[c][1]
        /\ Len(to_client[c]) = 1 => to_client'[c] = <<>>
        /\ \A t \in Transports : t # c => to_client'[t] = to_client[t]
        /\ to_client[c] # <<>>
    BY <1>1, <1>2, TakeIs
  <1>4. at[c] # "closed" => ClientsTurn(c)
    BY <1>1, <1>2, <1>3 DEF DialogueInv, Dialogue, Stage, Greeting, Upgrading, ServersTurn, Rests
  <1>5. at[c] # "closed" => /\ Len(to_client[c]) = 1 /\ Taken.kind = "key" /\ at[c] \in {"proof", "full"}
                            /\ scramble = asked[c] /\ Taken.seq = said[c]
                            /\ to_server[c] = <<>> /\ session[c].tls = tls_active /\ Known(c)
    BY <1>1, <1>3, <1>4 DEF ClientsTurn, LetsIn, Asks
  <1>6. Attempt /\ plugin \in Plugins /\ scramble \in 0..MaxSwitches /\ ClientTyped
    BY DEF DialogueInv, TypeInv, ClientTyped
  <1>7. /\ Current' = c /\ UNCHANGED <<attempt, connected, compression, login, tls_active, plugin, scramble>>
    BY <1>2 DEF ReadKey, Throws, Current, connection
  <1>8. Compressed' = Compressed
    BY <1>1 DEF Compressed
  <1>9. CASE /\ UNCHANGED outcome /\ pc' = "verdict"
             /\ Write("data", NextSeq, plugin, Encrypted(scramble), tls_active)
    <2>1. Attempt'
      BY <1>1, <1>2, <1>6, <1>7, <1>8, <1>9 DEF Attempt
    <2> DEFINE data == Encrypted(scramble)
    <2>2. data \in Proofs
      BY <1>6, AnswerTypes
    <2>3. Genuine(data, plugin, scramble, login.password) /\ data.form # "ask"
      BY AnswersGenuine
    <2>4. Write("data", NextSeq, plugin, data, tls_active)
      BY <1>9
    <2> HIDE DEF data
    <2>5. /\ \A t \in Transports : t # c => to_server'[t] = to_server[t]
          /\ at[c] # "closed" => ServersTurn(c)'
      BY <1>1, <1>2, <1>3, <1>5, <1>6, <1>7, <1>9, <2>2, <2>3, <2>4, AnswerDialogue
    <2> QED
      BY <1>1, <1>2, <1>3, <1>7, <1>9, <2>1, <2>5, ClientDialogue DEF Stage
  <1>10. CASE Taken.kind # "key" /\ Throws /\ UNCHANGED to_server
    <2>1. Attempt' /\ at[c] = "closed"
      BY <1>5, <1>6, <1>7, <1>8, <1>10 DEF Attempt, Throws
    <2> QED
      BY <1>1, <1>2, <1>3, <1>7, <1>10, <2>1, ClientDialogue DEF Throws
  <1> QED
    BY <1>9, <1>10 DEF ReadKey

LEMMA FailsDialogue ==
  ASSUME TypeInv, Newest, Unread, DialogueInv, ReadFails \/ ReadLeftover
  PROVE  DialogueInv'
  <1>1. /\ settings' = settings /\ pc # "idle" /\ Waits
        /\ (at[Current] = "closed" \/ attempt.on = 0)
        /\ (connected => at[Current] = "closed")
        /\ UNCHANGED <<dials, at, said, asked, session, lost, to_server, to_client, attempt, connected, compression>>
        /\ pc' = "idle" /\ outcome' = "threw" /\ Current' = Current
    BY DEF ReadFails, ReadLeftover, Throws, server, wires, connection, Current, Waits, Unread, Behind
  <1>2. PICK c \in Transports : c = Current
    BY <1>1, Here
  <1>3. Attempt'
    BY <1>1 DEF DialogueInv, Attempt, Compressed
  <1>4. at[c] # "closed" /\ Waits' => Stage(c)'
    BY <1>1, <1>2 DEF Waits
  <1> QED
    BY <1>1, <1>2, <1>3, <1>4, ClientDialogue

LEMMA ConnectDialogue == ASSUME Supported, TypeInv, Newest, DialogueInv, Connect PROVE DialogueInv'
  <1>1. /\ settings' = settings /\ pc = "idle" /\ Hangup({socket}) /\ UNCHANGED <<login, lost>>
        /\ attempt' = [call |-> "connect", user |-> login.user, password |-> login.password,
                       on |-> IF leftover THEN 0 ELSE socket']
        /\ outcome' = "threw" => pc' = "idle"
    BY DEF Connect
  <1>2. /\ stream = 0 /\ ~tls_active /\ Current' = socket' /\ ~connected'
        /\ \/ dials' = dials + 1 /\ socket' = dials' /\ dials' \in Transports /\ pc' = "greeting"
           \/ dials' = dials /\ socket' = 0 /\ pc' = "idle"
    BY ConnectFresh DEF Supported, Ended
  <1>3. socket \in 0..MaxDials /\ socket <= dials /\ dials \in 0..MaxDials /\ MaxDials \in Nat
    BY Bounds DEF TypeInv, ClientTyped, Newest
  <1>4. Fresh'
    <2>1. dials' \in 0..MaxDials /\ dials' >= dials
      BY <1>2, <1>3 DEF Transports
    <2> QED
      BY <1>1, <1>3, <2>1, FreshHangup DEF DialogueInv
  <1>5. Attempt'
    BY <1>1, <1>2 DEF Attempt
  <1>6. CASE socket' = 0 /\ pc' = "idle"
    <2>1. Blame' /\ Dialogue'
      BY <1>2, <1>6 DEF Blame, Dialogue, Waits
    <2>2. NoUnjustRefusal'
      BY <1>1, <1>6 DEF NoUnjustRefusal
    <2> QED
      BY <1>4, <1>5, <2>1, <2>2 DEF DialogueInv
  <1>7. CASE dials' = dials + 1 /\ socket' = dials' /\ dials' \in Transports /\ pc' = "greeting"
    <2>1. PICK c \in Transports : c = Current' /\ c = dials + 1
      BY <1>2, <1>7
    <2>2. c > dials /\ c \notin {socket}
      BY <1>3, <2>1
    <2>3. /\ at[c] = "unused" /\ to_server[c] = <<>> /\ to_client[c] = <<>> /\ session[c].tls = FALSE
      BY <2>2 DEF DialogueInv, Fresh
    <2>4. /\ at'[c] = "unused" /\ to_server'[c] = <<>> /\ to_client'[c] = <<>> /\ session'[c].tls = FALSE
      BY <1>1, <2>2, <2>3 DEF Hangup
    <2>5. Greeting(c)'
      BY <1>7, <2>4 DEF Greeting
    <2>6. Blame' /\ Dialogue'
      BY <2>1, <2>4, <2>5 DEF Blame, Dialogue, Stage
    <2>7. NoUnjustRefusal'
      BY <1>1, <1>7 DEF NoUnjustRefusal
    <2> QED
      BY <1>4, <1>5, <2>6, <2>7 DEF DialogueInv
  <1> QED
    BY <1>2, <1>6, <1>7

LEMMA TimeoutDialogue == ASSUME TypeInv, Newest, DialogueInv, ReadTimesOut PROVE DialogueInv'
  <1>1. /\ settings' = settings /\ pc # "idle" /\ Waits /\ Hangup({Current}) /\ pc' = "idle" /\ connected' = FALSE
        /\ UNCHANGED <<attempt, dials>> /\ lost' = [lost EXCEPT ![attempt.on] = TRUE]
    BY DEF ReadTimesOut, Waits, Closes
  <1>2. Current \in Transports /\ Current = dials /\ dials \in 0..MaxDials
    BY <1>1, Here DEF TypeInv, ClientTyped
  <1>3. Fresh'
    BY <1>1, <1>2, Bounds, FreshHangup DEF DialogueInv, Transports
  <1>4. Attempt' /\ Blame' /\ Dialogue'
    BY <1>1 DEF Attempt, Blame, Dialogue, Waits
  <1>5. attempt.on = 0 \/ lost'[attempt.on]
    BY <1>1, <1>2 DEF DialogueInv, Attempt, TypeInv, ServerTyped
  <1> QED
    BY <1>1, <1>3, <1>4, <1>5 DEF DialogueInv, NoUnjustRefusal

LEMMA EndDialogue == ASSUME TypeInv, Newest, DialogueInv, End PROVE DialogueInv'
  <1>1. /\ settings' = settings /\ pc' = "idle" /\ connected' = FALSE
        /\ UNCHANGED <<attempt, outcome, dials, lost>>
        /\ Hangup({socket, stream}) \/ UNCHANGED <<at, session, to_server, to_client>>
    BY EndIs DEF QuitFails, Closes, dialogue, wires
  <1>2. /\ socket \in 0..MaxDials /\ socket <= dials /\ stream \in 0..MaxDials /\ stream <= dials
        /\ dials \in 0..MaxDials /\ MaxDials \in Nat
    BY Bounds DEF TypeInv, ClientTyped, Newest
  <1>3. Fresh'
    <2>1. CASE Hangup({socket, stream})
      BY <1>1, <1>2, <2>1, FreshHangup DEF DialogueInv
    <2>2. CASE UNCHANGED <<at, session, to_server, to_client>>
      BY <1>1, <2>2 DEF DialogueInv, Fresh
    <2> QED
      BY <1>1, <2>1, <2>2
  <1>4. Attempt' /\ Blame' /\ Dialogue'
    BY <1>1 DEF Attempt, Blame, Dialogue, Waits
  <1>5. NoUnjustRefusal'
    BY <1>1 DEF DialogueInv, NoUnjustRefusal, Unable, Satisfied
  <1> QED
    BY <1>3, <1>4, <1>5 DEF DialogueInv

LEMMA ChangeDialogue == ASSUME Supported, TypeInv, Newest, DialogueInv, ChangeUser PROVE DialogueInv'
  <1>1. /\ settings' = settings /\ pc = "idle" /\ connected /\ Waits
        /\ UNCHANGED <<connection, dials, server, to_client>>
        /\ plugin' = ChosenPlugin(tls_active) /\ scramble' = 1 /\ pc' = "verdict" /\ outcome' = "none"
    BY DEF ChangeUser, Waits
  <1>2. PICK c \in Transports : c = Current /\ c = dials
    BY <1>1, Here
  <1>3. /\ attempt'.call = "change_user" /\ attempt'.password = login.password
        /\ attempt'.on = 0 \/ (at[c] = "ready" /\ attempt'.on = c)
        /\ attempt'.user \in Users
    BY <1>2 DEF ChangeUser, Supported, Users
  <1>4. /\ Current' = c /\ UNCHANGED <<connected, compression, login, tls_active>> /\ Compressed' = Compressed
        /\ UNCHANGED <<at, said, asked, session, lost>>
    BY <1>1, <1>2 DEF Current, connection, Compressed, server
  <1>5. at[c] # "closed" => Rests(c)
    BY <1>1, <1>2 DEF DialogueInv, Dialogue, Stage, Greeting, Upgrading, ServersTurn, ClientsTurn
  <1>6. ClientTyped /\ tls_active \in BOOLEAN /\ login.password \in Passwords /\ dials \in Int
    BY Bounds DEF TypeInv, ClientTyped
  <1> DEFINE p == plugin'
             data == Token(plugin', login.password, 1)
             kind == "change"
  <1>7. p \in Plugins /\ Write(kind, 0, p, data, tls_active)
    BY <1>1, <1>3, <1>6, PluginType DEF ChangeUser, TypeInv
  <1>8. data \in Proofs /\ kind \in {"ssl", "response", "change", "data"} /\ 0 \in 0..255
    BY <1>6, <1>7, TokenType, Bounds
  <1>9. Genuine(data, p, 1, login.password) /\ data.form # "ask" /\ kind = "change"
    BY TokenGenuine
  <1> HIDE DEF p, data, kind
  <1>10. Writes(c, kind, 0, p, data)
    BY <1>1, <1>2, <1>3, <1>6, <1>7, <1>8, WriteIs
  <1>11. ASSUME at[c] # "closed" PROVE ServersTurn(c)'
    <2>1. to_server[c] = <<>> /\ to_client'[c] = <<>> /\ session[c].tls = tls_active /\ at[c] \in {"ready", "proof"}
      BY <1>1, <1>5, <1>11 DEF Rests
    <2>2. Sent(c, to_server[c][1])'
      BY <1>1, <1>4, <1>9, <1>10, <1>11, <2>1 DEF Sent, Writes, p
    <2> QED
      BY <1>1, <1>4, <1>10, <1>11, <2>1, <2>2 DEF ServersTurn, Writes
  <1>12. Fresh'
    BY <1>1, <1>2, <1>4, <1>6, <1>10, FreshStays DEF DialogueInv, Writes
  <1>13. Attempt'
    BY <1>1, <1>3, <1>4 DEF DialogueInv, Attempt
  <1>14. Blame' /\ Dialogue'
    BY <1>3, <1>4, <1>11 DEF Blame, Dialogue, Stage
  <1>15. NoUnjustRefusal'
    BY <1>1 DEF NoUnjustRefusal
  <1> QED
    BY <1>12, <1>13, <1>14, <1>15 DEF DialogueInv

\* A step of a server: what is left to show about it.
LEMMA ServerDialogue ==
  ASSUME TypeInv, Newest, DialogueInv, NEW t \in Transports, t <= dials,
         UNCHANGED <<settings, connection, leftover, dialogue, dials>>,
         \A u \in Transports : u # t =>
           /\ to_server'[u] = to_server[u] /\ to_client'[u] = to_client[u]
           /\ at'[u] = at[u] /\ session'[u] = session[u] /\ said'[u] = said[u] /\ asked'[u] = asked[u]
           /\ lost'[u] = lost[u],
         lost[t] => lost'[t],
         pc # "idle" /\ t = Current /\ at'[t] = "closed" => at[t] = "closed" \/ lost'[t] \/ ~RightPassword,
         Waits /\ t = Current /\ at'[t] # "closed" => at[t] # "closed" /\ (Stage(t) => Stage(t)')
  PROVE  DialogueInv'
  <1>1. /\ UNCHANGED <<pc, attempt, plugin, scramble, outcome, connected, compression, login, tls_active>>
        /\ Current' = Current /\ Waits' = Waits /\ Compressed' = Compressed /\ settings' = settings
        /\ dials \in Int /\ Current \in 0..MaxDials
    BY CurrentType, Bounds DEF connection, dialogue, Current, Waits, Compressed, TypeInv, ClientTyped
  <1>2. Fresh'
    BY <1>1, FreshStays DEF DialogueInv
  <1>3. Attempt'
    BY <1>1 DEF DialogueInv, Attempt
  <1>4. \A u \in Transports : lost[u] => lost'[u]
    OBVIOUS
  <1>5. attempt.on \in 0..MaxDials /\ (attempt.on # 0 => attempt.on \in Transports)
    BY Bounds DEF TypeInv, ClientTyped, Transports
  <1>6. Blame'
    <2> SUFFICES ASSUME pc # "idle", at'[Current] = "closed", attempt.on # 0
                 PROVE  lost'[attempt.on] \/ ~RightPassword
      BY <1>1 DEF Blame, RightPassword
    <2>1. Current \in Transports /\ attempt.on = Current
      BY Here DEF DialogueInv, Attempt, Waits
    <2>2. at[Current] = "closed" \/ lost'[Current] \/ ~RightPassword
      BY <2>1
    <2>3. at[Current] = "closed" => lost[Current] \/ ~RightPassword
      BY <2>1 DEF DialogueInv, Blame
    <2> QED
      BY <1>4, <2>1, <2>2, <2>3
  <1>7. Dialogue'
    <2> SUFFICES ASSUME Waits, at'[Current] # "closed" PROVE Stage(Current)'
      BY <1>1 DEF Dialogue
    <2>1. PICK c \in Transports : c = Current
      BY Here
    <2>2. CASE t = c
      BY <1>1, <2>1, <2>2 DEF DialogueInv, Dialogue
    <2>3. CASE t # c
      <3>1. at[c] # "closed" /\ Stage(c)
        BY <2>1, <2>3 DEF DialogueInv, Dialogue
      <3>2. /\ to_server'[c] = to_server[c] /\ to_client'[c] = to_client[c]
            /\ at'[c] = at[c] /\ session'[c] = session[c] /\ said'[c] = said[c] /\ asked'[c] = asked[c]
        BY <2>3
      <3>3. Stage(c)'
        BY <1>1, <3>1, <3>2 DEF Stage, Greeting, Upgrading, ServersTurn, Sent, ClientsTurn, LetsIn, Asks, Rests,
                               Known, RightPassword
      <3> QED
        BY <1>1, <2>1, <3>3
    <2> QED
      BY <2>2, <2>3
  <1>8. NoUnjustRefusal'
    BY <1>1, <1>4, <1>5 DEF DialogueInv, NoUnjustRefusal, Unable, Satisfied
  <1> QED
    BY <1>2, <1>3, <1>6, <1>7, <1>8 DEF DialogueInv

\* A packet that is the only one on its way to the client.
LEMMA OnlyReply ==
  ASSUME TypeInv, settings' = settings, NEW t \in Transports, NEW after \in -1..255,
         NEW kinds \in Seq(ReplyKinds), NEW p \in Plugins,
         asked' \in [Transports -> 0..MaxSwitches], Says(t, after, kinds, p), to_client[t] = <<>>
  PROVE  /\ IsReply(to_client'[t], after, kinds, p, asked'[t])
         /\ said'[t] = (after + Len(kinds)) % 256
  <1>1. to_client'[t] = Said(t, after, kinds, p) /\ said'[t] = (after + Len(kinds)) % 256
    BY SaysType
  <1>2. asked'[t] \in 0..MaxSwitches
    OBVIOUS
  <1> QED
    BY <1>1, <1>2, SaidIs

LEMMA GreetDialogue ==
  ASSUME TypeInv, Newest, DialogueInv, NEW t \in Transports, Greet(t),
         UNCHANGED <<settings, connection, leftover, dialogue, dials>>
  PROVE  DialogueInv'
  <1>1. /\ at[t] = "unused" /\ t <= dials /\ at' = [at EXCEPT ![t] = "response"]
        /\ asked' = [asked EXCEPT ![t] = 1] /\ UNCHANGED <<session, lost, to_server>>
    BY DEF Greet
  <1> DEFINE after == -1
             kinds == <<"greeting">>
             p == settings.default
  <1>2. after \in -1..255 /\ after + Len(kinds) = 0 /\ Len(kinds) = 1
    OBVIOUS
  <1>3. kinds \in Seq(ReplyKinds) /\ Says(t, after, kinds, p)
    BY KindSeqs DEF Greet, ReplyKinds
  <1>4. p \in Plugins
    BY SettingsType DEF TypeInv
  <1> HIDE DEF after, kinds, p
  <1>5. asked' \in [Transports -> 0..MaxSwitches]
    BY <1>1, Bounds DEF TypeInv, ServerTyped
  <1>6. \A u \in Transports : u # t => to_client'[u] = to_client[u] /\ said'[u] = said[u]
    BY <1>2, <1>3, <1>4, <1>5, SaysType
  <1>7. ASSUME Waits, Stage(t) PROVE Stage(t)'
    <2>1. Greeting(t) /\ to_client[t] = <<>>
      BY <1>1, <1>7 DEF Stage, Greeting, Upgrading, ServersTurn, Sent, ClientsTurn, LetsIn, Asks, Rests
    <2>2. Len(to_client'[t]) = 1 /\ said'[t] = 0
      <3>1. IsReply(to_client'[t], after, kinds, p, asked'[t]) /\ said'[t] = (after + Len(kinds)) % 256
        BY <1>2, <1>3, <1>4, <1>5, <2>1, OnlyReply, ZenonT(30)
      <3> QED
        BY <1>2, <3>1 DEF IsReply
    <2>3. at'[t] = "response" /\ pc' = pc
      BY <1>1 DEF TypeInv, ServerTyped, dialogue
    <2> QED
      BY <1>1, <2>1, <2>2, <2>3 DEF Stage, Greeting
  <1>8. /\ at'[t] = "response" /\ at[t] # "closed"
        /\ \A u \in Transports : u # t => at'[u] = at[u] /\ asked'[u] = asked[u]
    BY <1>1 DEF TypeInv, ServerTyped
  <1> QED
    BY <1>1, <1>6, <1>7, <1>8, ServerDialogue

LEMMA DropDialogue ==
  ASSUME TypeInv, Newest, DialogueInv, NEW t \in Transports, Drop(t),
         UNCHANGED <<settings, connection, leftover, dialogue, dials>>
  PROVE  DialogueInv'
  <1>1. /\ t <= dials /\ at' = [at EXCEPT ![t] = "closed"] /\ lost' = [lost EXCEPT ![t] = TRUE]
        /\ UNCHANGED <<said, asked, session, to_server, to_client>>
    BY DEF Drop, wires
  <1>2. /\ at'[t] = "closed" /\ lost'[t]
        /\ \A u \in Transports : u # t => at'[u] = at[u] /\ lost'[u] = lost[u]
    BY <1>1 DEF TypeInv, ServerTyped
  <1> QED
    BY <1>1, <1>2, ServerDialogue

\* The server lets in whoever has the right password, and nobody else.
LEMMA RightIs ==
  ASSUME TypeInv, Attempt, pc # "idle", NEW t, AtServer(t).user = attempt.user,
         Genuine(AtServer(t).data, Account(t).plugin, asked'[t], login.password)
  PROVE  /\ Right(t) => RightPassword
         /\ RightPassword /\ AtServer(t).data.form # "ask" => Right(t)
  <1>1. Account(t).password = settings.accounts[attempt.user].password
    BY DEF Account
  <1>2. login.password = attempt.password
    BY DEF Attempt
  <1>3. Account(t).password = attempt.password <=> RightPassword
    BY <1>1 DEF RightPassword
  <1> QED
    BY <1>2, <1>3 DEF Right, Genuine, Proof

LEMMA AnsweredDialogue ==
  ASSUME TypeInv, Newest, DialogueInv, NEW t \in Transports, to_server[t] # <<>>,
         t = Current, at[t] # "closed", Waits, ServersTurn(t),
         AskAgain(t) \/ Judge(t), to_server' = [to_server EXCEPT ![t] = Tail(@)],
         session' = IF AtServer(t).kind = "data" THEN session
                    ELSE [session EXCEPT ![t] = [user |-> AtServer(t).user, tls |-> @.tls,
                                                 compress |-> AtServer(t).compress]],
         UNCHANGED <<settings, connection, dialogue, dials, lost>>
  PROVE  /\ at'[t] = "closed" => ~RightPassword
         /\ at'[t] # "closed" => ClientsTurn(t)'
  <1>1. /\ UNCHANGED <<pc, attempt, plugin, scramble, login, tls_active, settings>>
        /\ Compressed' = Compressed
    BY DEF connection, dialogue, Compressed
  <1>2. /\ AtServer(t) = to_server[t][1] /\ AtServer(t).seq \in -1..255
        /\ AtServer(t).user \in Users /\ AtServer(t).compress \in BOOLEAN /\ Account(t).plugin \in Plugins
        /\ Len(to_server[t]) = 1 => Tail(to_server[t]) = <<>>
    BY AtServerType
  <1>3. /\ pc \in {"verdict", "key"} /\ to_client[t] = <<>> /\ session[t].tls = tls_active
        /\ Sent(t, AtServer(t)) /\ to_server'[t] = <<>>
    BY <1>2 DEF ServersTurn, TypeInv, WiresTyped
  <1>4. asked' \in [Transports -> 0..MaxSwitches]
    BY AnswerIs
  <1>5. Known(t)' /\ session'[t].tls = tls_active'
    BY <1>1, <1>2, <1>3 DEF Known, Sent, TypeInv, ServerTyped
  <1>6. Account(t).plugin = settings.accounts[attempt.user].plugin
    BY <1>3 DEF Sent, Account
  <1>7. ASSUME NEW k \in ReplyKinds, Says(t, AtServer(t).seq, <<k>>, Account(t).plugin)
        PROVE  /\ Len(to_client'[t]) = 1 /\ to_client'[t][1].kind = k /\ to_client'[t][1].seq = said'[t]
               /\ to_client'[t][1].plugin = Account(t).plugin /\ to_client'[t][1].scramble = asked'[t]
    <2> DEFINE kinds == <<k>>
    <2>1. kinds \in Seq(ReplyKinds) /\ Len(kinds) = 1 /\ kinds[1] = k
      BY KindSeqs
    <2>2. Says(t, AtServer(t).seq, kinds, Account(t).plugin)
      BY <1>7
    <2> HIDE DEF kinds
    <2>3. /\ IsReply(to_client'[t], AtServer(t).seq, kinds, Account(t).plugin, asked'[t])
          /\ said'[t] = (AtServer(t).seq + Len(kinds)) % 256
      BY <1>2, <1>3, <1>4, <2>1, <2>2, OnlyReply
    <2> QED
      BY <2>1, <2>3 DEF IsReply
  <1>8. CASE AskAgain(t)
    <2>1. /\ asked' = [asked EXCEPT ![t] = IF AtServer(t).kind = "data" THEN @ + 1 ELSE 2]
          /\ AtServer(t).kind = "data" => AtServer(t).data.form # "ask"
          /\ Says(t, AtServer(t).seq, <<"switch">>, Account(t).plugin)
          /\ at'[t] = "proof"
      BY <1>8 DEF AskAgain, TypeInv, ServerTyped
    <2>2. pc = "verdict"
      BY <1>3, <2>1 DEF Sent
    <2>3. /\ Len(to_client'[t]) = 1 /\ to_client'[t][1].kind = "switch" /\ to_client'[t][1].seq = said'[t]
          /\ to_client'[t][1].plugin = Account(t).plugin /\ to_client'[t][1].scramble = asked'[t]
      BY <1>7, <2>1 DEF ReplyKinds
    <2>4. Asks(t, to_client[t][1])'
      BY <1>1, <1>6, <2>1, <2>2, <2>3 DEF Asks
    <2> QED
      BY <1>1, <1>3, <1>5, <2>1, <2>3, <2>4 DEF ClientsTurn
  <1>9. CASE Judge(t)
    <2>1. /\ AtServer(t).plugin = Account(t).plugin /\ plugin = Account(t).plugin
          /\ asked' = IF AtServer(t).kind = "data" THEN asked ELSE [asked EXCEPT ![t] = 1]
      BY <1>3, <1>9 DEF Judge, Sent
    <2>2. scramble = asked'[t]
      BY <1>3, <2>1 DEF Sent, TypeInv, ServerTyped
    <2>3. pc # "idle" /\ AtServer(t).user = attempt.user
          /\ Genuine(AtServer(t).data, Account(t).plugin, asked'[t], login.password)
      BY <1>3, <2>1, <2>2 DEF Sent
    <2>4. /\ Right(t) => RightPassword
          /\ RightPassword /\ AtServer(t).data.form # "ask" => Right(t)
      BY <2>3, RightIs DEF DialogueInv
    <2>5. RightPassword' = RightPassword
      BY <1>1 DEF RightPassword
    <2>6. CASE /\ AtServer(t).data.form = "ask"
               /\ Says(t, AtServer(t).seq, <<"key">>, Account(t).plugin) /\ at' = [at EXCEPT ![t] = at[t]]
      <3>1. at'[t] \in {"proof", "full"} /\ (pc = "key" \/ plugin = "sha256")
        BY <1>3, <2>6 DEF Sent, TypeInv, ServerTyped
      <3>2. Len(to_client'[t]) = 1 /\ to_client'[t][1].kind = "key" /\ to_client'[t][1].seq = said'[t]
        BY <1>7, <2>6 DEF ReplyKinds
      <3>3. Asks(t, to_client[t][1])'
        BY <1>1, <2>2, <3>1, <3>2 DEF Asks
      <3> QED
        BY <1>1, <1>3, <1>5, <3>1, <3>2, <3>3 DEF ClientsTurn
    <2>7. CASE /\ Account(t).plugin = "caching" /\ AtServer(t).data.form = "hash"
               /\ Says(t, AtServer(t).seq, <<"more4">>, Account(t).plugin) /\ at' = [at EXCEPT ![t] = "full"]
      <3>1. at'[t] = "full" /\ pc = "verdict"
        BY <1>3, <2>7 DEF Sent, TypeInv, ServerTyped
      <3>2. Len(to_client'[t]) = 1 /\ to_client'[t][1].kind = "more4" /\ to_client'[t][1].seq = said'[t]
        BY <1>7, <2>7 DEF ReplyKinds
      <3>3. Asks(t, to_client[t][1])'
        BY <1>1, <2>1, <2>2, <2>7, <3>1, <3>2 DEF Asks
      <3> QED
        BY <1>1, <1>3, <1>5, <3>1, <3>2, <3>3 DEF ClientsTurn
    <2>8. CASE /\ Right(t)
               /\ Says(t, AtServer(t).seq, <<"ok">>, Account(t).plugin) /\ at' = [at EXCEPT ![t] = "ready"]
      <3>1. at'[t] = "ready" /\ AtServer(t).data.form # "ask" /\ pc = "verdict"
        BY <1>3, <2>8 DEF Sent, TypeInv, ServerTyped, Right, Proof
      <3>2. Len(to_client'[t]) = 1 /\ to_client'[t][1].kind = "ok"
        BY <1>7, <2>8 DEF ReplyKinds
      <3>3. LetsIn(t)'
        BY <1>1, <2>4, <2>5, <2>8, <3>1, <3>2 DEF LetsIn
      <3> QED
        BY <1>1, <1>3, <1>5, <3>1, <3>3 DEF ClientsTurn
    <2>9. CASE /\ Account(t).plugin = "caching" /\ AtServer(t).data.form = "hash" /\ Right(t)
               /\ Says(t, AtServer(t).seq, <<"more3", "ok">>, Account(t).plugin) /\ at' = [at EXCEPT ![t] = "ready"]
      <3>1. at'[t] = "ready" /\ pc = "verdict"
        BY <1>3, <2>9 DEF Sent, TypeInv, ServerTyped
      <3> DEFINE kinds == <<"more3", "ok">>
      <3>2. kinds \in Seq(ReplyKinds) /\ Len(kinds) = 2 /\ kinds[1] = "more3" /\ kinds[2] = "ok"
        BY KindSeqs
      <3>3. Says(t, AtServer(t).seq, kinds, Account(t).plugin)
        BY <2>9
      <3> HIDE DEF kinds
      <3>4. IsReply(to_client'[t], AtServer(t).seq, kinds, Account(t).plugin, asked'[t])
        BY <1>2, <1>3, <1>4, <3>2, <3>3, OnlyReply
      <3>5. Len(to_client'[t]) = 2 /\ to_client'[t][1].kind = "more3" /\ to_client'[t][2].kind = "ok"
        BY <3>2, <3>4 DEF IsReply
      <3>6. LetsIn(t)'
        BY <1>1, <2>1, <2>4, <2>5, <2>9, <3>1, <3>5 DEF LetsIn
      <3> QED
        BY <1>1, <1>3, <1>5, <3>1, <3>6 DEF ClientsTurn
    <2>10. CASE /\ ~Right(t) /\ AtServer(t).data.form # "ask" /\ at' = [at EXCEPT ![t] = "closed"]
      BY <2>4, <2>10 DEF TypeInv, ServerTyped
    <2> QED
      BY <1>9, <2>6, <2>7, <2>8, <2>9, <2>10 DEF Judge
  <1> QED
    BY <1>8, <1>9

LEMMA ReadsDialogue ==
  ASSUME TypeInv, Newest, DialogueInv, NEW t \in Transports, ServerReads(t),
         UNCHANGED <<settings, connection, leftover, dialogue, dials>>
  PROVE  DialogueInv'
  <1>1. /\ at[t] \in {"response", "proof", "full", "ready"} /\ to_server[t] # <<>> /\ lost' = lost
        /\ to_server' = [to_server EXCEPT ![t] = Tail(@)]
    BY DEF ServerReads
  <1>2. t <= dials
    BY <1>1, Bounds DEF DialogueInv, Fresh, Transports, TypeInv, ClientTyped
  <1>3. \A u \in Transports : u # t =>
          /\ to_server'[u] = to_server[u] /\ to_client'[u] = to_client[u]
          /\ at'[u] = at[u] /\ session'[u] = session[u] /\ said'[u] = said[u] /\ asked'[u] = asked[u]
    BY <1>1, AnswerIs DEF ServerReads, TypeInv, ServerTyped, WiresTyped
  <1>4. CASE ~(Waits /\ t = Current)
    <2>1. pc # "idle" => Waits
      BY DEF Waits
    <2> QED
      BY <1>1, <1>2, <1>3, <1>4, <2>1, ServerDialogue
  <1>5. CASE Waits /\ t = Current
    <2>1. Upgrading(t) \/ ServersTurn(t)
      BY <1>1, <1>5 DEF DialogueInv, Dialogue, Stage, Greeting, ClientsTurn, Rests
    <2>2. AtServer(t) = to_server[t][1] /\ (Len(to_server[t]) = 1 => Tail(to_server[t]) = <<>>)
      BY <1>1, AtServerType
    <2>3. CASE Upgrading(t)
      <3>1. /\ said[t] = 0 /\ Len(to_server[t]) = 1 /\ AtServer(t).kind = "ssl" /\ AtServer(t).seq = 1
            /\ pc = "tls" /\ to_client[t] = <<>> /\ session[t].tls = FALSE
        BY <1>1, <2>2, <2>3 DEF Upgrading
      <3>2. /\ at' = [at EXCEPT ![t] = "tls"] /\ said' = [said EXCEPT ![t] = 1]
            /\ UNCHANGED <<asked, session, to_client>>
        BY <3>1 DEF ServerReads
      <3>3. at'[t] = "tls" /\ said'[t] = 1 /\ to_server'[t] = <<>> /\ pc' = pc
        BY <1>1, <2>2, <3>1, <3>2 DEF TypeInv, ServerTyped, WiresTyped, dialogue
      <3>4. Upgrading(t)'
        BY <3>1, <3>2, <3>3 DEF Upgrading
      <3> QED
        BY <1>1, <1>2, <1>3, <3>3, <3>4, ServerDialogue DEF Stage
    <2>4. CASE ServersTurn(t)
      <3>1. Sent(t, AtServer(t))
        BY <2>2, <2>4 DEF ServersTurn
      <3>2. /\ AtServer(t).kind # "ssl"
            /\ AtServer(t).seq = IF AtServer(t).kind = "change" THEN 0 ELSE (said[t] + 1) % 256
        BY <3>1 DEF Sent
      <3>3. /\ AskAgain(t) \/ Judge(t)
            /\ session' = IF AtServer(t).kind = "data" THEN session
                          ELSE [session EXCEPT ![t] = [user |-> AtServer(t).user, tls |-> @.tls,
                                                       compress |-> AtServer(t).compress]]
        BY <3>2 DEF ServerReads
      <3>4. /\ at'[t] = "closed" => ~RightPassword
            /\ at'[t] # "closed" => ClientsTurn(t)'
        BY <1>1, <1>5, <2>4, <3>3, AnsweredDialogue
      <3> QED
        BY <1>1, <1>2, <1>3, <3>4, ServerDialogue DEF Stage
    <2> QED
      BY <2>1, <2>3, <2>4
  <1> QED
    BY <1>4, <1>5

LEMMA NextDialogue ==
  Supported /\ TypeInv /\ Newest /\ Unread /\ Upgraded /\ DialogueInv /\ [Next]_vars => DialogueInv'
  <1> SUFFICES ASSUME Supported, TypeInv, Newest, Unread, Upgraded, DialogueInv, [Next]_vars PROVE DialogueInv'
    OBVIOUS
  <1>1. CASE Client
    BY <1>1, GreetingDialogue, TlsDialogue, VerdictDialogue, KeyDialogue, FailsDialogue DEF Client
  <1>2. CASE Caller
    BY <1>2, ConnectDialogue, ChangeDialogue, EndDialogue DEF Caller
  <1>3. CASE ReadTimesOut
    BY <1>3, TimeoutDialogue
  <1>4. ASSUME NEW t \in Transports, Server(t) \/ Drop(t), UNCHANGED <<settings, connection, leftover, dialogue, dials>>
        PROVE  DialogueInv'
    BY <1>4, GreetDialogue, ReadsDialogue, DropDialogue DEF Server
  <1>5. CASE UNCHANGED vars
    <2>1. /\ UNCHANGED <<settings, pc, attempt, plugin, scramble, outcome, connected, socket, stream, tls_active,
                         compression, login, dials, at, said, asked, session, lost, to_server, to_client>>
          /\ Current' = Current /\ Waits' = Waits /\ Compressed' = Compressed
      BY <1>5 DEF vars, connection, dialogue, server, wires, Current, Waits, Compressed
    <2>2. Fresh' /\ Attempt' /\ Blame' /\ NoUnjustRefusal'
      BY <2>1 DEF DialogueInv, Fresh, Attempt, Blame, RightPassword, NoUnjustRefusal, Unable, Satisfied
    <2>3. Stage(Current) => Stage(Current)'
      BY <2>1 DEF Stage, Greeting, Upgrading, ServersTurn, Sent, ClientsTurn, LetsIn, Asks, Rests,
                  Known, RightPassword
    <2> QED
      BY <2>1, <2>2, <2>3 DEF DialogueInv, Dialogue
  <1> QED
    BY <1>1, <1>2, <1>3, <1>4, <1>5 DEF Next

LEMMA DialogueHolds == ASSUME Supported PROVE Spec => [](TypeInv /\ Newest /\ DialogueInv)
  <1>1. Ended
    BY DEF Supported, Ended
  <1>2. Init => TypeInv /\ Newest /\ Unread /\ DialogueInv /\ PasswordKept /\ Upgraded
    BY InitType, InitNewest, InitDialogue DEF Init, PasswordKept, Upgraded, Unread
  <1>3. TypeInv /\ Newest /\ Unread /\ DialogueInv /\ PasswordKept /\ Upgraded /\ [Next]_vars
          => (TypeInv /\ Newest /\ Unread /\ DialogueInv /\ PasswordKept /\ Upgraded)'
    BY <1>1, NextType, NextNewest, NextUnread, NextDialogue, NextKept
  <1> QED
    BY <1>2, <1>3, PTL DEF Spec

\* With the right password connect() and change_user() fail only where the transport broke,
\* the read buffer held zeros when the call began, or the options rule out what the server asks
\* for, in every order of switches, fast answers, full dialogues and key requests.  Supported
\* excludes connecting again under TLS after a login that failed without end(), or after an end()
\* that could not write COM_QUIT, and change_user() with another password.
THEOREM LoginNoUnjustRefusal == ASSUME Supported PROVE Spec => []NoUnjustRefusal
  <1>1. DialogueInv => NoUnjustRefusal
    BY DEF DialogueInv
  <1> QED
    BY <1>1, DialogueHolds, PTL

\* Between calls both ends agree on the user, on TLS and on compression, and the options
\* would log in again.
THEOREM LoginAgreed == ASSUME Supported PROVE Spec => []Agreed
  <1>1. TypeInv /\ Newest /\ DialogueInv => Agreed
    <2> SUFFICES ASSUME TypeInv, Newest, DialogueInv, pc = "idle", connected, at[Current] = "ready"
                 PROVE  /\ session[Current] = [user |-> login.user, tls |-> tls_active, compress |-> compression]
                        /\ login.password = settings.accounts[login.user].password
      BY DEF Agreed
    <2>1. PICK c \in Transports : c = Current
      BY Here DEF Waits
    <2>2. Rests(c)
      BY <2>1 DEF DialogueInv, Dialogue, Waits, Stage, Greeting, Upgrading, ServersTurn, ClientsTurn
    <2>3. session[c] \in [user : Users, tls : BOOLEAN, compress : BOOLEAN]
      BY DEF TypeInv, ServerTyped
    <2> QED
      BY <2>1, <2>2, <2>3 DEF Rests
  <1> QED
    BY <1>1, DialogueHolds, PTL
=============================================================================
