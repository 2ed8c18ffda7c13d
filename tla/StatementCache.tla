--------------------------- MODULE StatementCache ---------------------------
(***************************************************************************)
(* What execute(sql) promises of the statements that a connection caches,  *)
(* without saying how they are kept: there are never more than Size of     *)
(* them, and a statement leaves for one of four reasons only.  Its text or *)
(* its id is closed, the session is reset, or another text needs room; and *)
(* then it is the one that was used least recently, it leaves only when    *)
(* all places are taken, and its id is closed next.                        *)
(***************************************************************************)
EXTENDS Naturals, FiniteSets

CONSTANTS Text,    \* SQL texts
          NoText,  \* no SQL text
          Size     \* how many statements may be cached

VARIABLES ids,      \* the id of the statement cached for a text, or 0
          older,    \* the cached texts that were used before a cached text was
          wanted,   \* the text whose statement is on its way into the cache, or NoText
          closing   \* the id of the statement that is to be closed, or 0

vars == <<ids, older, wanted, closing>>

InCache == {s \in Text : ids[s] # 0}

Init ==
    /\ ids = [s \in Text |-> 0]
    /\ older = [s \in Text |-> {}]
    /\ wanted = NoText /\ closing = 0

\* The texts of a set leave; the others keep their order.
Drop(texts) ==
    /\ ids' = [s \in Text |-> IF s \in texts THEN 0 ELSE ids[s]]
    /\ older' = [s \in Text |-> IF s \in texts THEN {} ELSE older[s] \ texts]

Quiet == wanted = NoText /\ closing = 0

\* A hit makes its text the one used last.
Hit(s) ==
    /\ Quiet
    /\ s \in InCache
    /\ older' = [t \in Text |-> IF t = s THEN InCache \ {s} ELSE older[t] \ {s}]
    /\ UNCHANGED <<ids, wanted, closing>>

Miss(s) ==
    /\ Quiet
    /\ s \in Text \ InCache
    /\ wanted' = s
    /\ UNCHANGED <<ids, older, closing>>

\* A text is closed: its entry leaves at once, and its id is closed next, or never
\* where that cannot be asked for.
CloseText(s) ==
    /\ Quiet
    /\ s \in InCache
    /\ Drop({s})
    /\ closing' \in {0, ids[s]}
    /\ UNCHANGED wanted

CloseId ==
    /\ Quiet
    /\ closing' \in Nat
    /\ UNCHANGED <<ids, older, wanted>>

Evict(s) ==
    /\ wanted # NoText /\ closing = 0
    /\ Cardinality(InCache) = Size
    /\ s \in InCache /\ older[s] = {}
    /\ Drop({s})
    /\ closing' = ids[s]
    /\ UNCHANGED wanted

\* Whatever has the id that is closed leaves with it; the call may fail there.
Forget ==
    /\ closing # 0
    /\ Drop({s \in Text : ids[s] = closing})
    /\ closing' = 0
    /\ wanted' \in {wanted, NoText}

Insert ==
    /\ wanted # NoText /\ closing = 0
    /\ wanted \notin InCache
    /\ Cardinality(InCache) < Size
    /\ ids' \in [Text -> Nat] /\ ids'[wanted] # 0
    /\ \A s \in Text \ {wanted} : ids'[s] = ids[s]
    /\ older' = [older EXCEPT ![wanted] = InCache]
    /\ wanted' = NoText
    /\ UNCHANGED closing

\* A call gives up, with what it did so far.
Abandon ==
    /\ wanted' = NoText /\ closing' = 0
    /\ UNCHANGED <<ids, older>>

Reset ==
    /\ Quiet
    /\ Drop(Text)
    /\ UNCHANGED <<wanted, closing>>

Next ==
    \/ \E s \in Text : Hit(s) \/ Miss(s) \/ CloseText(s) \/ Evict(s)
    \/ CloseId \/ Forget \/ Insert \/ Abandon \/ Reset

Spec == Init /\ [][Next]_vars
=============================================================================
