--------------------------- MODULE MCSupervisorLoop ----------------------------
(* Instances of SupervisorLoop for TLC.                                    *)
EXTENDS SupervisorLoop

\* Kept is SelectSeq, on every sequence of up to four scopes.
ASSUME KeptIsSelectSeq ==
    \A n \in 0..4 : \A q \in [1..n -> Scopes], S \in SUBSET Scopes :
        Kept(q, S) = SelectSeq(q, LAMBDA s : s \in S)
================================================================================
