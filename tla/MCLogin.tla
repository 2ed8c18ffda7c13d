------------------------------ MODULE MCLogin ------------------------------
(* Instances of Login for TLC.                                             *)
EXTENDS Login, TLC

\* The ways to reach the server: plainly, by a local socket, and with TLS against good and
\* bad certificates and against a server without TLS.
Ways == {
  [path |-> FALSE, ssl |-> "off", offers |-> {"ssl", "compress", "plugin_auth"}, cert |-> "good"],
  [path |-> TRUE, ssl |-> "off", offers |-> {"plugin_auth"}, cert |-> "good"],
  [path |-> FALSE, ssl |-> "identity", offers |-> {"ssl", "compress", "plugin_auth"}, cert |-> "good"],
  [path |-> FALSE, ssl |-> "identity", offers |-> {"ssl", "plugin_auth"}, cert |-> "foreign"],
  [path |-> TRUE, ssl |-> "identity", offers |-> {"ssl", "plugin_auth"}, cert |-> "foreign"],
  [path |-> FALSE, ssl |-> "ca", offers |-> {"ssl", "plugin_auth"}, cert |-> "foreign"],
  [path |-> FALSE, ssl |-> "ca", offers |-> {"ssl", "plugin_auth"}, cert |-> "untrusted"],
  [path |-> FALSE, ssl |-> "any", offers |-> {"ssl", "plugin_auth"}, cert |-> "untrusted"],
  [path |-> FALSE, ssl |-> "ca", offers |-> {"plugin_auth"}, cert |-> "good"]}

\* A server's first plugin, an account of the same or another plugin, a right and a wrong
\* password, and a second account for change_user().
MCSettings ==
  {[compress |-> TRUE, cleartext |-> c, key |-> c, default |-> d, user |-> "u1", password |-> p[1],
    accounts |-> "u1" :> [plugin |-> a, password |-> p[2]] @@ "u2" :> [plugin |-> "sha256", password |-> "p1"]]
   @@ w : w \in Ways, c \in BOOLEAN, d \in {"native", "caching", "sha256", "clear"},
          a \in Plugins, p \in {<<"", "">>, <<"p1", "p1">>, <<"p1", "">>}}
=============================================================================
