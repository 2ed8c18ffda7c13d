------------------------------ MODULE MCSession ------------------------------
(***************************************************************************)
(* Instances of Session for TLC.                                           *)
(***************************************************************************)
EXTENDS Session, TLC

AllApis == {"query", "raw", "stream", "cursor", "fetch", "ping", "reset", "change_user",
            "prepare", "execute", "close", "binlog_stream", "binlog_dump"}

\* Enough to lose a session and come back to the statement cache.
StatementApis == {"query", "execute"}

\* Keep is SelectSeq.
ASSUME KeepIsSelectSeq ==
    \A n \in 0..4 : \A seq \in [1..n -> {1, 2, 3}], keep \in SUBSET {1, 2, 3} :
        Keep(seq, keep) = SelectSeq(seq, LAMBDA x : x \in keep)
==============================================================================
