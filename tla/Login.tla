-------------------------------- MODULE Login --------------------------------
(***************************************************************************)
(* How a connection logs in: connect() from the greeting to the server's   *)
(* verdict, with the upgrade to TLS and the dialogue of the authentication *)
(* plugins, change_user(), which has the same dialogue, and end().         *)
(*                                                                         *)
(* A password is a model value of its own, a scramble a number, and a      *)
(* proof of a password a record of what it was made from.  The server is   *)
(* an honest one: it asks for the plugin of the account, as often as       *)
(* MaxSwitches allows, and lets in who proves the account's password.      *)
(***************************************************************************)
EXTENDS Integers, Sequences

CONSTANTS
  Settings,     \* the options of the connection and what its server is like
  MaxDials,     \* bound on the transports opened
  MaxSwitches,  \* bound on the scrambles of one dialogue: a server may ask without end
  Extras        \* what happens only where the code does not cope with it

NoPassword == ""
Plugins == {"native", "caching", "sha256", "clear", "other"}

\* path: socket_path; ssl: off, any (reject_unauthorized unset), ca (verify_identity unset)
\* or identity; key: server_public_key_pem; offers: capabilities of the server; default: its
\* first plugin; cert: whom its certificate convinces; accounts: plugin and password of each.
ASSUME LoginAssumption ==
  /\ \A s \in Settings :
       /\ {s.path, s.compress, s.cleartext, s.key} \subseteq BOOLEAN
       /\ s.ssl \in {"off", "any", "ca", "identity"}
       /\ s.offers \subseteq {"ssl", "compress", "plugin_auth"}
       /\ s.default \in Plugins
       /\ s.cert \in {"good", "foreign", "untrusted"}
       /\ s.user \in DOMAIN s.accounts
       /\ \A u \in DOMAIN s.accounts : s.accounts[u].plugin \in Plugins
       \* A server that does not negotiate plugins has one.
       /\ "plugin_auth" \notin s.offers => \A u \in DOMAIN s.accounts : s.accounts[u].plugin = "native"
  \* A dialogue begins with the scramble of the greeting; a switch brings a second one.
  /\ MaxDials \in Nat /\ MaxSwitches \in Nat \ {0, 1}
  /\ Extras \subseteq {"no_end", "quit_fails", "new_password"}

VARIABLES
  settings,
  pc,           \* what the connection waits for: idle (nothing), greeting, tls, verdict, key
  connected,    \* connected_
  socket,       \* the transport in socket_; 0: none
  stream,       \* the transport that tls_stream_ has taken over; 0: none
  tls_active,   \* tls_active_
  compression,  \* compression_active_
  login,        \* options_.user and options_.password
  leftover,     \* transport_read_buffer_ holds the zeros that a failed read left there
  attempt,      \* history: the last call, whom it logs in, and on which sound transport with
                \* an empty read buffer (0: none)
  plugin,       \* current_plugin
  scramble,     \* current_scramble
  outcome,      \* how the last call ended: none, ok, threw
  dials,        \* number of transports opened
  at,           \* what the server does on each transport
  said,         \* the sequence id that it sent last
  asked,        \* how many scrambles it has sent in this dialogue
  session,      \* whom it talks to, whether by TLS, whether compressed
  lost,         \* the transport broke, or one side gave up for reasons of its own
  to_server, to_client

connection == <<connected, socket, stream, tls_active, compression, login>>
dialogue == <<pc, attempt, plugin, scramble, outcome>>
server == <<at, said, asked, session, lost>>
wires == <<to_server, to_client>>
vars == <<settings, connection, leftover, dialogue, dials, server, wires>>

Transports == 1..MaxDials
Proof(form, p, password, nonce) ==
  [form |-> form, plugin |-> p, password |-> password, scramble |-> nonce]
Empty == Proof("empty", "none", NoPassword, 0)
Ask == Proof("ask", "none", NoPassword, 0)

Nobody == [user |-> settings.user, tls |-> FALSE, compress |-> FALSE]

Passwords == {NoPassword} \cup {s.password : s \in Settings}
             \cup UNION {{s.accounts[u].password : u \in DOMAIN s.accounts} : s \in Settings}
Proofs == [form : {"empty", "hash", "clear", "rsa", "ask"}, plugin : Plugins \cup {"none"},
           password : Passwords, scramble : 0..MaxSwitches]
Users == DOMAIN settings.accounts
Requests == [kind : {"ssl", "response", "change", "data"}, seq : 0..255, user : Users,
             plugin : Plugins, data : Proofs, tls : BOOLEAN, compress : BOOLEAN]
Replies == [kind : {"greeting", "ok", "err", "switch", "more3", "more4", "key"}, seq : 0..255,
            plugin : Plugins, scramble : 0..MaxSwitches]
TypeOK ==
  /\ pc \in {"idle", "greeting", "tls", "verdict", "key"}
  /\ {connected, tls_active, compression, leftover} \subseteq BOOLEAN
  /\ {socket, stream} \subseteq 0..MaxDials
  /\ tls_active => stream # 0
  /\ login \in [user : Users, password : Passwords]
  /\ attempt \in [call : {"none", "connect", "change_user"}, user : Users, password : Passwords,
                  on : 0..MaxDials]
  /\ plugin \in Plugins /\ scramble \in 0..MaxSwitches
  /\ outcome \in {"none", "ok", "threw"}
  /\ dials \in 0..MaxDials
  /\ at \in [Transports -> {"unused", "response", "tls", "proof", "full", "ready", "closed"}]
  /\ said \in [Transports -> 0..255]
  /\ asked \in [Transports -> 0..MaxSwitches]
  /\ session \in [Transports -> [user : Users, tls : BOOLEAN, compress : BOOLEAN]]
  /\ lost \in [Transports -> BOOLEAN]
  /\ to_server \in [Transports -> Seq(Requests)]
  /\ to_client \in [Transports -> Seq(Replies)]

Init ==
  /\ settings \in Settings
  /\ pc = "idle" /\ outcome = "none"
  /\ connected = FALSE /\ tls_active = FALSE /\ compression = FALSE
  /\ leftover = FALSE
  /\ socket = 0 /\ stream = 0 /\ dials = 0
  /\ login = [user |-> settings.user, password |-> settings.password]
  /\ attempt = [call |-> "none", user |-> settings.user, password |-> settings.password, on |-> 0]
  /\ plugin = "native" /\ scramble = 0
  /\ at = [t \in Transports |-> "unused"]
  /\ said = [t \in Transports |-> 0]
  /\ asked = [t \in Transports |-> 0]
  /\ session = [t \in Transports |-> Nobody]
  /\ lost = [t \in Transports |-> FALSE]
  /\ to_server = [t \in Transports |-> <<>>]
  /\ to_client = [t \in Transports |-> <<>>]

-----------------------------------------------------------------------------
(* What the client answers.                                                *)

\* The transport that read_packet and write_packet use.
Current == IF stream # 0 THEN stream ELSE socket

\* build_client_flags, as far as the dialogue depends on it.
Compressed == settings.compress /\ "compress" \in settings.offers

\* secure_transport
Secure(active) == active \/ settings.path

\* choose_auth_plugin
ChosenPlugin(active) ==
  IF \/ settings.default \in {"native", "caching"}
     \/ settings.default = "sha256" /\ Secure(active)
     \/ settings.default = "clear" /\ Secure(active) /\ settings.cleartext
  THEN settings.default ELSE "native"

\* calculate_auth_token: the hash of an empty password is empty, the other plugins send a 0 byte.
Token(p, password, nonce) ==
  IF p \in {"sha256", "clear"} THEN Proof("clear", p, password, 0)
  ELSE IF password = NoPassword THEN Empty ELSE Proof("hash", p, password, nonce)

\* encrypt_password_with_rsa
Encrypted(nonce) == Proof("rsa", plugin, login.password, nonce)

\* What sha256_password and the full dialogue of caching_sha2_password send for a password.
SafeProof(p, nonce) ==
  IF login.password = NoPassword THEN Empty
  ELSE IF Secure(tls_active) THEN Proof("clear", p, login.password, 0)
  ELSE IF settings.key THEN Proof("rsa", p, login.password, nonce)
  ELSE Ask

\* Mutant of CanAnswer: the option is not asked for.
CanAnswerClear(p) == p # "other" /\ (p = "clear" => Secure(tls_active))

\* auth_switch_response: which plugins it answers for, and what.
CanAnswer(p) == p # "other" /\ (p = "clear" => Secure(tls_active) /\ settings.cleartext)
\* Mutant of SwitchAnswer: the answer is for the scramble of before the switch.
SwitchAnswerStale(p, nonce) ==
  IF p = "sha256" THEN SafeProof(p, scramble) ELSE Token(p, login.password, scramble)
SwitchAnswer(p, nonce) ==
  IF p = "sha256" THEN SafeProof(p, nonce) ELSE Token(p, login.password, nonce)

-----------------------------------------------------------------------------
(* connect(), change_user() and end().                                     *)

Write(kind, seq, p, data, active) ==
  to_server' = IF at[Current] = "closed" THEN to_server
    ELSE [to_server EXCEPT ![Current] = Append(@,
            [kind |-> kind, seq |-> seq, user |-> attempt'.user, plugin |-> p, data |-> data,
             tls |-> active, compress |-> Compressed])]

\* read_packet takes what is in the buffer first.
Take ==
  /\ ~leftover /\ UNCHANGED leftover
  /\ to_client[Current] # <<>>
  /\ to_client' = [to_client EXCEPT ![Current] = Tail(@)]
Taken == Head(to_client[Current])
NextSeq == (Taken.seq + 1) % 256

Throws ==
  /\ pc' = "idle" /\ outcome' = "threw"
  /\ UNCHANGED <<connection, attempt, plugin, scramble>>

\* The client closes a transport, and all that it was about is gone.
Hangup(ts) ==
  /\ at' = [t \in Transports |-> IF t \in ts THEN "closed" ELSE at[t]]
  /\ said' = [t \in Transports |-> IF t \in ts THEN 0 ELSE said[t]]
  /\ asked' = [t \in Transports |-> IF t \in ts THEN 0 ELSE asked[t]]
  /\ session' = [t \in Transports |-> IF t \in ts THEN Nobody ELSE session[t]]
  /\ to_server' = [t \in Transports |-> IF t \in ts THEN <<>> ELSE to_server[t]]
  /\ to_client' = [t \in Transports |-> IF t \in ts THEN <<>> ELSE to_client[t]]

\* connect() up to the greeting.  connect_socket takes a new socket_ and leaves alone the read
\* buffer and tls_stream_, which is still there where a login failed under TLS and end() was
\* not called after it, or did not close it.
Connect ==
  /\ pc = "idle" /\ ~connected
  /\ outcome = "threw" /\ settings.ssl # "off" /\ Current # 0 => "no_end" \in Extras
  /\ \/ /\ dials < MaxDials
        /\ dials' = dials + 1 /\ socket' = dials'
        /\ pc' = "greeting" /\ outcome' = "none"
     \/ /\ socket' = 0
        /\ pc' = "idle" /\ outcome' = "threw"
        /\ UNCHANGED dials
  /\ Hangup({socket})
  /\ attempt' = [call |-> "connect", user |-> login.user, password |-> login.password,
                 on |-> IF leftover THEN 0 ELSE socket']
  /\ UNCHANGED <<settings, connected, stream, tls_active, compression, login, leftover, plugin,
                 scramble, lost>>

\* The answer to the greeting: the chosen plugin and its token, after TLS with the sequence id 2.
Respond(active) ==
  /\ pc' = "verdict"
  /\ plugin' = ChosenPlugin(active) /\ scramble' = 1
  /\ UNCHANGED <<attempt, outcome>>
  /\ Write("response", IF active THEN 2 ELSE 1, plugin', Token(plugin', login.password, 1), active)

\* Without TLS the response, with it the request for TLS.
ReadGreeting ==
  /\ pc = "greeting" /\ Take
  /\ \/ /\ settings.ssl = "off"
        /\ Respond(tls_active)
        /\ UNCHANGED connection
     \/ /\ settings.ssl # "off" /\ "ssl" \notin settings.offers
        /\ Throws /\ UNCHANGED to_server
     \/ /\ settings.ssl # "off" /\ "ssl" \in settings.offers
        /\ UNCHANGED <<attempt, plugin, scramble, outcome>>
        /\ Write("ssl", 1, plugin, Empty, FALSE)
        /\ pc' = "tls"
        /\ stream' = socket /\ socket' = 0
        /\ UNCHANGED <<connected, tls_active, compression, login>>
  /\ UNCHANGED <<settings, dials, server>>

\* The certificate satisfies configure_tls_context and the checks after the handshake.
Convinced ==
  \/ settings.ssl = "any"
  \/ settings.ssl = "ca" /\ settings.cert # "untrusted"
  \/ settings.ssl = "identity" /\ IF settings.path THEN settings.cert # "untrusted" ELSE settings.cert = "good"

\* upgrade_to_tls comes to its end, and the response follows.
TlsEnds ==
  /\ pc = "tls" /\ at[Current] = "tls"
  /\ IF Convinced
     THEN /\ tls_active' = TRUE
          /\ Respond(TRUE)
          /\ at' = [at EXCEPT ![Current] = "response"]
          /\ session' = [session EXCEPT ![Current].tls = TRUE]
          /\ UNCHANGED <<connected, socket, stream, compression, login>>
     ELSE Throws /\ UNCHANGED <<at, session, to_server>>
  /\ UNCHANGED <<settings, leftover, dials, said, asked, lost, to_client>>

-----------------------------------------------------------------------------
(* handle_auth_result: one action for each packet of the server.           *)

\* Mutant of Accepted: the option alone turns compression on.
AcceptedCompressing ==
  /\ Taken.kind = "ok"
  /\ pc' = "idle" /\ outcome' = "ok"
  /\ connected' = TRUE
  /\ IF attempt.call = "connect" THEN compression' = settings.compress /\ UNCHANGED login
     ELSE login' = [user |-> attempt.user, password |-> attempt.password] /\ UNCHANGED compression
  /\ UNCHANGED <<socket, stream, tls_active, attempt, plugin, scramble, to_server>>

\* OK: connect() and change_user() go on from there.
Accepted ==
  /\ Taken.kind = "ok"
  /\ pc' = "idle" /\ outcome' = "ok"
  /\ connected' = TRUE
  /\ IF attempt.call = "connect" THEN compression' = Compressed /\ UNCHANGED login
     ELSE login' = [user |-> attempt.user, password |-> attempt.password] /\ UNCHANGED compression
  /\ UNCHANGED <<socket, stream, tls_active, attempt, plugin, scramble, to_server>>

\* A switch of plugin, or the next factor.  change_user() too answers from options_.
Switched ==
  /\ Taken.kind = "switch"
  /\ plugin' = Taken.plugin /\ scramble' = Taken.scramble
  /\ IF CanAnswer(Taken.plugin)
     THEN /\ UNCHANGED <<pc, attempt, outcome>>
          /\ Write("data", NextSeq, plugin', SwitchAnswer(Taken.plugin, Taken.scramble), tls_active)
     ELSE /\ pc' = "idle" /\ outcome' = "threw"
          /\ UNCHANGED <<attempt, to_server>>
  /\ UNCHANGED connection

\* Mutant of MoreData: the public key of sha256_password is taken and not answered.
MoreDataUnanswered ==
  /\ \/ Taken.kind \in {"more3", "key"} /\ plugin \in {"caching", "sha256"}
        /\ UNCHANGED <<pc, attempt, to_server>>
     \/ Taken.kind = "more4" /\ plugin = "caching"
        /\ UNCHANGED attempt
        /\ Write("data", NextSeq, plugin, SafeProof(plugin, scramble), tls_active)
        /\ pc' = IF SafeProof(plugin, scramble) = Ask THEN "key" ELSE pc
  /\ UNCHANGED <<connection, plugin, scramble, outcome>>

\* sha256_password takes any data for the public key, unless it has one.
HasKey == Taken.kind = "key" \/ (Taken.kind \in {"more3", "more4"} /\ settings.key)

\* More data: the fast path of caching_sha2_password, its full dialogue, or a public key.
MoreData ==
  /\ \/ /\ Taken.kind = "more3" /\ plugin = "caching"
        /\ UNCHANGED <<pc, attempt, to_server>>
     \/ /\ Taken.kind = "more4" /\ plugin = "caching"
        /\ UNCHANGED attempt
        /\ Write("data", NextSeq, plugin, SafeProof(plugin, scramble), tls_active)
        /\ pc' = IF SafeProof(plugin, scramble) = Ask THEN "key" ELSE pc
     \/ /\ plugin = "sha256" /\ HasKey
        /\ UNCHANGED <<pc, attempt>>
        /\ Write("data", NextSeq, plugin, Encrypted(scramble), tls_active)
  /\ UNCHANGED <<connection, plugin, scramble, outcome>>

\* An error and everything else throws and leaves the connection as it is.
Unexpected ==
  /\ Taken.kind \notin {"ok", "switch"}
  /\ Taken.kind \in {"more3", "more4"} => plugin # "caching"
  /\ plugin = "sha256" => ~HasKey
  /\ Throws /\ UNCHANGED to_server

ReadVerdict ==
  /\ pc = "verdict" /\ Take
  /\ Accepted \/ Switched \/ MoreData \/ Unexpected
  /\ UNCHANGED <<settings, dials, server>>

\* The key that Ask asked for; with any other data the encryption throws.
ReadKey ==
  /\ pc = "key" /\ Take
  /\ IF Taken.kind = "key"
     THEN /\ UNCHANGED <<connection, attempt, plugin, scramble, outcome>>
          /\ Write("data", NextSeq, plugin, Encrypted(scramble), tls_active)
          /\ pc' = "verdict"
     ELSE Throws /\ UNCHANGED to_server
  /\ UNCHANGED <<settings, dials, server>>

\* Zeros of the read buffer make an empty packet, which is neither a greeting nor a verdict
\* nor a key.  After many of them the buffer is empty.
ReadLeftover ==
  /\ pc \in {"greeting", "verdict", "key"} /\ leftover
  /\ leftover' \in BOOLEAN
  /\ Throws
  /\ UNCHANGED <<settings, dials, server, wires>>

\* The other side has gone, and the handshake of TLS, a write or a read fails.  A read has
\* made the read buffer large and full of zeros before it fails (refill_transport_read_buffer).
ReadFails ==
  /\ pc # "idle" /\ ~leftover /\ at[Current] = "closed" /\ to_client[Current] = <<>>
  /\ leftover' \in IF pc = "tls" THEN {FALSE} ELSE IF pc = "greeting" THEN {TRUE} ELSE BOOLEAN
  /\ Throws
  /\ UNCHANGED <<settings, dials, server, wires>>

\* Mutant of Closes: tls_active_ outlives tls_stream_.
ClosesActive ==
  /\ connected' = FALSE /\ compression' = FALSE
  /\ socket' = 0 /\ stream' = 0
  /\ UNCHANGED <<tls_active, login>>
\* Mutant of Closes: the TLS stream outlives its transport.
ClosesSocket ==
  /\ connected' = FALSE /\ tls_active' = FALSE /\ compression' = FALSE
  /\ socket' = 0
  /\ UNCHANGED <<stream, login>>

\* close_transport and abort_transport_for_timeout, with what their callers reset.
Closes ==
  /\ connected' = FALSE /\ tls_active' = FALSE /\ compression' = FALSE
  /\ socket' = 0 /\ stream' = 0
  /\ UNCHANGED login

\* A read of connect() runs into the deadline of the command that connects.  As after any
\* failed read zeros are left, and end() does nothing where no transport is open.
ReadTimesOut ==
  /\ pc \in {"greeting", "verdict", "key"} /\ ~leftover /\ attempt.call = "connect"
  /\ Closes
  /\ leftover' = TRUE
  /\ Hangup({Current})
  /\ lost' = [lost EXCEPT ![attempt.on] = TRUE]
  /\ pc' = "idle" /\ outcome' = "threw"
  /\ UNCHANGED <<settings, attempt, plugin, scramble, dials>>

\* change_user(): an empty password stands for the old one.  The token is for the password
\* given, but a switch is answered with the old one (Switched), so that passing a new one is
\* left to Extras.
ChangeUser ==
  /\ pc = "idle" /\ connected
  /\ \E user \in DOMAIN settings.accounts,
        password \in IF "new_password" \in Extras
                     THEN {settings.accounts[u].password : u \in DOMAIN settings.accounts}
                     ELSE {NoPassword} :
       attempt' = [call |-> "change_user", user |-> user,
                   password |-> IF password = NoPassword THEN login.password ELSE password,
                   on |-> IF at[Current] = "ready" /\ ~leftover THEN Current ELSE 0]
  /\ plugin' = ChosenPlugin(tls_active) /\ scramble' = 1
  /\ Write("change", 0, plugin', Token(plugin', attempt'.password, 1), tls_active)
  /\ pc' = "verdict" /\ outcome' = "none"
  /\ UNCHANGED <<settings, connection, leftover, dials, server, to_client>>

\* close_transport empties the read buffer.  A COM_QUIT that cannot be written throws, and
\* the transport stays; under TLS the next connect() would meet it, which is left to Extras.
End ==
  /\ pc = "idle"
  /\ connected \/ Current # 0
  /\ \/ /\ Closes /\ leftover' = FALSE
        /\ Hangup({socket, stream})
     \/ /\ connected /\ at[Current] = "closed"
        /\ stream # 0 => "quit_fails" \in Extras
        /\ connected' = FALSE /\ tls_active' = FALSE /\ compression' = FALSE
        /\ UNCHANGED <<socket, stream, login, leftover, at, said, asked, session, wires>>
  /\ UNCHANGED <<settings, dialogue, dials, lost>>

Client ==
  \/ ReadGreeting \/ TlsEnds \/ ReadVerdict \/ ReadKey \/ ReadLeftover \/ ReadFails
Caller == Connect \/ ChangeUser \/ End

-----------------------------------------------------------------------------
(* The server.                                                             *)

AtServer(t) == Head(to_server[t])
Account(t) == settings.accounts[AtServer(t).user]

\* Packets that follow the one with the sequence id after.
Says(t, after, kinds, p) ==
  /\ said' = [said EXCEPT ![t] = (after + Len(kinds)) % 256]
  /\ to_client' = [to_client EXCEPT ![t] = @ \o [i \in DOMAIN kinds |->
       [kind |-> kinds[i], seq |-> (after + i) % 256, plugin |-> p, scramble |-> asked'[t]]]]

Greet(t) ==
  /\ at[t] = "unused" /\ t <= dials
  /\ at' = [at EXCEPT ![t] = "response"]
  /\ asked' = [asked EXCEPT ![t] = 1]
  /\ Says(t, -1, <<"greeting">>, settings.default)
  /\ UNCHANGED <<session, lost, to_server>>

\* The proof is of the account's password, for the scramble sent last.
Right(t) ==
  LET data == AtServer(t).data  password == Account(t).password IN
  \/ data.form = "empty" /\ password = NoPassword
  \/ data.form = "clear" /\ data.password = password
  \/ data.form = "hash" /\ data = Proof("hash", Account(t).plugin, password, asked'[t])
  \/ data.form = "rsa" /\ data.password = password /\ data.scramble = asked'[t]

\* Asks for the account's plugin: the client chose another, it is to prove itself again for
\* a next factor, or the server prefers a new scramble.
AskAgain(t) ==
  /\ AtServer(t).kind = "data" => asked[t] < MaxSwitches
  /\ asked' = [asked EXCEPT ![t] = IF AtServer(t).kind = "data" THEN @ + 1 ELSE 2]
  /\ AtServer(t).kind = "data" => at[t] = "proof" /\ AtServer(t).data.form # "ask"
  /\ Says(t, AtServer(t).seq, <<"switch">>, Account(t).plugin)
  /\ at' = [at EXCEPT ![t] = "proof"]

\* Judges a proof of the account's plugin; caching_sha2_password may have to see the password.
Judge(t) ==
  LET quick == at[t] # "full" /\ Account(t).plugin = "caching" /\ AtServer(t).data.form = "hash"
      Answer(kinds, next) == /\ Says(t, AtServer(t).seq, kinds, Account(t).plugin)
                             /\ at' = [at EXCEPT ![t] = next]
  IN
  /\ AtServer(t).plugin = Account(t).plugin
  /\ asked' = IF AtServer(t).kind = "data" THEN asked ELSE [asked EXCEPT ![t] = 1]
  /\ \/ AtServer(t).data.form = "ask" /\ Answer(<<"key">>, at[t])
     \/ quick /\ Right(t) /\ Answer(<<"more3", "ok">>, "ready")
     \/ quick /\ Answer(<<"more4">>, "full")
     \/ ~quick /\ Right(t) /\ Answer(<<"ok">>, "ready")
     \/ ~quick /\ ~Right(t) /\ AtServer(t).data.form # "ask" /\ Answer(<<"err">>, "closed")

ServerReads(t) ==
  /\ at[t] \in {"response", "proof", "full", "ready"} /\ to_server[t] # <<>>
  /\ to_server' = [to_server EXCEPT ![t] = Tail(@)]
  /\ UNCHANGED lost
  /\ LET p == AtServer(t) IN
     IF p.seq # IF p.kind = "change" THEN 0 ELSE (said[t] + 1) % 256
     THEN /\ at' = [at EXCEPT ![t] = "closed"]
          /\ UNCHANGED <<said, asked, session, to_client>>
     ELSE IF p.kind = "ssl"
     THEN /\ at' = [at EXCEPT ![t] = "tls"] /\ said' = [said EXCEPT ![t] = p.seq]
          /\ UNCHANGED <<asked, session, to_client>>
     ELSE /\ AskAgain(t) \/ Judge(t)
          /\ session' = IF p.kind = "data" THEN session
               ELSE [session EXCEPT ![t] = [user |-> p.user, tls |-> @.tls, compress |-> p.compress]]

\* The network fails, or the server sends no more, whatever its reason.
Drop(t) ==
  /\ at[t] # "closed" /\ t <= dials
  /\ at' = [at EXCEPT ![t] = "closed"]
  /\ lost' = [lost EXCEPT ![t] = TRUE]
  /\ UNCHANGED <<said, asked, session, wires>>

Server(t) == Greet(t) \/ ServerReads(t)

Next ==
  \/ Client \/ Caller \/ ReadTimesOut
  \/ \E t \in Transports : (Server(t) \/ Drop(t)) /\ UNCHANGED <<settings, connection, leftover, dialogue, dials>>

\* Packets arrive, the event loop that a call runs serves them, and the server answers.
Spec == Init /\ [][Next]_vars /\ WF_vars(Client)
        /\ \A t \in Transports : WF_vars(Server(t) /\ UNCHANGED <<settings, connection, leftover, dialogue, dials>>)

-----------------------------------------------------------------------------
(* Properties.                                                             *)

Satisfied(cert) ==
  \/ settings.ssl \in {"off", "any"}
  \/ cert = "good"
  \/ cert = "foreign" /\ (settings.ssl = "ca" \/ settings.path)

\* A password leaves in clear only where nobody reads along: through TLS or a local socket,
\* to mysql_clear_password only if the application agreed.  With ssl.enabled nothing that
\* is made from a password leaves before TLS is up and the server's certificate accepted
\* (secure_transport, auth_switch_response, upgrade_to_tls).
PasswordKept ==
  \A t \in Transports : \A i \in DOMAIN to_server[t] :
    LET p == to_server[t][i] IN
    p.data.password # NoPassword =>
      /\ p.data.form = "clear" => p.tls \/ settings.path
      /\ p.data.form = "clear" /\ p.plugin = "clear" => settings.cleartext
      /\ settings.ssl # "off" => p.tls /\ Satisfied(settings.cert)

\* What may keep a client out that has the right password.
Unable(user) ==
  LET account == settings.accounts[user] IN
  \/ settings.ssl # "off" /\ ("ssl" \notin settings.offers \/ ~Satisfied(settings.cert))
  \/ account.plugin = "other"
  \/ account.plugin = "clear" /\ ~(settings.cleartext /\ (settings.path \/ settings.ssl # "off"))

\* connect() and change_user() fail only for a reason: the transport broke or was not sound
\* when the call began, the read buffer then held the zeros of a read that had failed, the
\* password is wrong, or the options rule out what the server asks for.  Every combination of plugins, transports and keys is otherwise let in, whatever the
\* order of switches, fast answers, full dialogues and key requests, with the sequence ids
\* and scrambles that the server expects (handle_auth_result).
NoUnjustRefusal ==
  outcome = "threw" =>
    \/ attempt.on = 0 \/ lost[attempt.on]
    \/ settings.accounts[attempt.user].password # attempt.password
    \/ Unable(attempt.user)

\* A login is about the transport dialled last, never about the remains of an older one
\* (connect_socket and close_transport, which share tls_stream_).  What is left in the read
\* buffer is taken for a greeting or on a transport that has gone, and for nothing else: no
\* call that began without it meets it, and no login gets beyond it (read_exact_into).
ReadsNewest ==
  pc # "idle" =>
    /\ Current = dials
    /\ leftover => attempt.on = 0 /\ (pc = "greeting" \/ at[Current] = "closed")

\* Between calls both ends agree on who is logged in, on TLS and on compression, and the
\* options hold a password that would log in again (connect, change_user).
Agreed ==
  pc = "idle" /\ connected /\ at[Current] = "ready" =>
    /\ session[Current] = [user |-> login.user, tls |-> tls_active, compress |-> compression]
    /\ login.password = settings.accounts[login.user].password

\* The two never wait for each other: every call comes to its end, well or not.
LoginEnds == pc # "idle" ~> pc = "idle"
=============================================================================
