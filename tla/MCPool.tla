------------------------------- MODULE MCPool -------------------------------
(***************************************************************************)
(* Instances of Pool for TLC.  Option sets are records; the two modes of   *)
(* waiting, a small queue, an idle list shorter than the limit, no idle    *)
(* list at all, resets on release and throwing listeners all occur.        *)
(***************************************************************************)
EXTENDS Pool, TLC

Option(max_idle, queue_limit, timeout, reset, throws) ==
    [max_idle |-> max_idle, queue_limit |-> queue_limit,
     wait_for_connections |-> TRUE, wait_timeout |-> timeout,
     reset_on_release |-> reset, listeners_throw |-> throws]

NoWaiting == [Option(2, 0, FALSE, FALSE, FALSE) EXCEPT !.wait_for_connections = FALSE]

\* The safety run: max_idle above, at and below the limit.
SafetySettings == {Option(3, 0, FALSE, TRUE, FALSE), Option(1, 1, TRUE, TRUE, FALSE),
                   Option(0, 2, FALSE, FALSE, FALSE), Option(2, 1, TRUE, FALSE, TRUE),
                   Option(1, 0, FALSE, TRUE, TRUE), NoWaiting}

\* The liveness run: with and without deadlines.
LiveSettings == {Option(1, 0, TRUE, TRUE, FALSE), Option(1, 0, FALSE, FALSE, FALSE)}

\* No deadline, and resets on release, which may fail.
ResetSettings == {Option(2, 0, FALSE, TRUE, FALSE)}

PlainSettings == {Option(2, 0, FALSE, FALSE, FALSE)}

Symmetry == Permutations(Client) \union Permutations(Conn)
=============================================================================
