---------------------------- MODULE JournalConsumer ----------------------------
(***************************************************************************)
(* What a source-window processor promises, without terms, requests,       *)
(* workers or retries: every journal position of a scope is taken exactly  *)
(* once, in order, in windows that never run past the journal head, and    *)
(* taking never stops short of the head for ever.                          *)
(***************************************************************************)
EXTENDS Integers

CONSTANTS Scopes,    \* scopes that own a source journal
          Positions  \* journal positions that can be allocated

VARIABLES head,      \* head[s]: last allocated journal position
          consumed,  \* consumed[s]: last position taken
          emitted    \* emitted[s][p]: how often position p was taken

vars == <<head, consumed, emitted>>

Init ==
    /\ head \in [Scopes -> Positions \cup {0}]
    /\ consumed = [s \in Scopes |-> 0]
    /\ emitted = [s \in Scopes |-> [p \in Positions |-> 0]]

Grow(s) ==
    /\ \E h \in Positions : h > head[s] /\ head' = [head EXCEPT ![s] = h]
    /\ UNCHANGED <<consumed, emitted>>

Take(s) ==
    /\ \E t \in Positions :
          /\ consumed[s] < t /\ t <= head[s]
          /\ consumed' = [consumed EXCEPT ![s] = t]
          /\ emitted' = [emitted EXCEPT ![s] =
                            [p \in Positions |->
                                IF consumed[s] < p /\ p <= t
                                THEN @[p] + 1 ELSE @[p]]]
    /\ UNCHANGED head

Next == \E s \in Scopes : Grow(s) \/ Take(s)

Safe == Init /\ [][Next]_vars

Spec == Safe /\ \A s \in Scopes : WF_vars(Take(s))
================================================================================
