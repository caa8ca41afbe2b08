---------------------------- MODULE MCMemoryMerges ----------------------------
(* TLC instance of MemoryMerges.                                           *)
EXTENDS MemoryMerges, TLC

\* Ids that exist at first, ids to come, operations and Candidates are
\* interchangeable within each set.
Interchangeable ==
    Permutations(Seeds) \cup Permutations(Items \ Seeds) \cup Permutations(Ops)
        \cup Permutations(Cands)
================================================================================
