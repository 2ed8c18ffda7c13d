------------------------------ MODULE MCCluster ------------------------------
(***************************************************************************)
(* Instances of Cluster for TLC: two threads, two nodes, a pattern for all *)
(* of them and one for the first.                                          *)
(***************************************************************************)
EXTENDS Cluster, TLC

CONSTANT FirstId

AllAndFirst == {Id, {FirstId}}

Option(retry, count, restore) ==
    [can_retry |-> retry, remove_node_error_count |-> count, restore |-> restore]

\* Removal at the first error; offline at the second; offline, and no retries.
MixedSettings == {Option(TRUE, 1, FALSE), Option(TRUE, 2, TRUE), Option(FALSE, 1, TRUE)}
==============================================================================
