---------------------------- MODULE SessionLease ----------------------------
(***************************************************************************)
(* What a connection pool promises its callers, without saying how: each   *)
(* caller leases at most one connection, a leased connection is exclusive  *)
(* to its caller until the caller gives it back, and a pool that has been  *)
(* ended grants no further lease.  The leases that are out when the pool   *)
(* ends stay with their callers.                                           *)
(***************************************************************************)
CONSTANTS Client,  \* the callers of the pool
          Conn,    \* identities of Connection objects
          NoConn   \* no connection, and no member of Conn: an empty handle

VARIABLES lease,   \* lease[t]: the connection caller t holds, or NoConn
          ended    \* the pool has been ended

vars == <<lease, ended>>

Init == /\ lease = [t \in Client |-> NoConn]
        /\ ended = FALSE

Grant(t, c) ==
    /\ ~ended
    /\ lease[t] = NoConn
    /\ \A u \in Client : lease[u] # c
    /\ lease' = [lease EXCEPT ![t] = c]
    /\ UNCHANGED ended

GiveBack(t) ==
    /\ lease[t] # NoConn
    /\ lease' = [lease EXCEPT ![t] = NoConn]
    /\ UNCHANGED ended

End == /\ ended' = TRUE
       /\ UNCHANGED lease

Next == \/ \E t \in Client, c \in Conn : Grant(t, c)
        \/ \E t \in Client : GiveBack(t)
        \/ End

Spec == Init /\ [][Next]_vars
=============================================================================
