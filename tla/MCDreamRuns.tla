------------------------------ MODULE MCDreamRuns ------------------------------
(***************************************************************************)
(* Bounded instances of DreamRuns.  The view identifies states that differ *)
(* in names only, and drops what neither a later step nor a property       *)
(* reads.                                                                  *)
(***************************************************************************)
EXTENDS DreamRuns, TLC

Open == {r \in Runs : Live(r)}

\* The place of r in the order in which open runs are served.
Rank(r) == Cardinality({q \in Open : run[q].request < run[r].request})

\* Requests are compared with each other and with the handled one, never used as
\* such (but for the bound MaxRequested).
Above(n) == IF n < intent.handled THEN 0 ELSE n - intent.handled

\* An open run is known by its place, its principal by what else it has, and a
\* reference by where it occurs (to: a renaming of references).
RunView(r, to) ==
    [run[r] EXCEPT !.request = <<Rank(r), Above(@)>>, !.principal = "none",
                   !.evidence = {to[e] : e \in @}]

\* Of an ended run only a proposal that stands is read again, and not its
\* evidence, since requests that come later are compared with it, not it with
\* them.
ProposalView(r, to) ==
    <<run[r].print, {to[e] : e \in run[r].cites}, run[r].candidate>>

WorkerView(w, to) ==
    [worker[w] EXCEPT !.run = IF @ \in Open THEN Rank(@) + 1 ELSE 0,
                      !.claimed = Above(@), !.evidence = {to[e] : e \in @}]

\* What belongs together: the runs of each principal, and the running term's
\* worker.  A worker of an older term is refused by the fence whatever it holds.
Named(to) ==
    <<{<<{RunView(r, to) : r \in {q \in Open : run[q].principal = p}},
         {ProposalView(r, to) : r \in {q \in Runs : Stands(q) /\ run[q].principal = p}}>> :
            p \in Principals},
      {WorkerView(w, to) : w \in {v \in Workers : /\ worker[v].phase # "idle"
                                                  /\ worker[v].term = term}}>>

View ==
    LET ended == {r \in Runs : Terminal(r)}
    IN  <<term, streak, bypass, intent.dirty, intent.clean, Registered(intent),
          intent.requested - intent.handled,
          IF intent.requested < MaxRequested THEN intent.requested ELSE MaxRequested,
          {Named(to) : to \in Permutations(References)},
          Cardinality(ended), Cardinality({r \in Runs : Stands(r)}),
          \A r \in ended : WithinBudget(r), NoRepeatedProposal,
          Cardinality({w \in Workers : /\ worker[w].phase # "idle"
                                       /\ worker[w].term # term})>>
================================================================================
