------------------------------ MODULE FencedTerms ------------------------------
(***************************************************************************)
(* What the supervisor lease promises to everyone who publishes under it:  *)
(* generations only grow, each one by a single step, and a publication     *)
(* carries the newest generation there is.                                 *)
(***************************************************************************)
EXTENDS Integers

VARIABLES generation,  \* the newest generation, 0 before the first term
          published    \* generation of the latest committed publication

vars == <<generation, published>>

Init == generation = 0 /\ published = 0

\* A term is opened, taken over or revoked.
Advance ==
    /\ generation' = generation + 1
    /\ UNCHANGED published

\* A transaction of the newest term commits.
Publish ==
    /\ generation > 0
    /\ published' = generation
    /\ UNCHANGED generation

Next == Advance \/ Publish

Spec == Init /\ [][Next]_vars
================================================================================
