------------------------ MODULE SupervisionLeaseProofs -------------------------
(***************************************************************************)
(* Proofs about SupervisionLease, for every set of processes and workers,  *)
(* every lease duration, both lease modes and every generation bound.      *)
(***************************************************************************)
EXTENDS SupervisionLease, TLAPS

\* The fields of a live worker's assignment and of a fence never run ahead of
\* the row, and generation 0 is nobody's.
Bounded ==
    /\ \A w \in Workers : Live(w) => /\ worker[w].generation > 0
                                     /\ worker[w].generation <= lease.generation
    /\ \A h \in Holders : /\ fence[h] <= lease.generation
                          /\ phase[h] \in {"leader", "revoking"} => fence[h] > 0

\* What a process in standby still has running is on its unreaped list.
StandbyWaits ==
    \A h \in Holders, w \in Workers :
        phase[h] = "standby" /\ Live(w) /\ worker[w].holder = h
            => worker[w].unreaped

\* The inductive invariant.
LeaseInv ==
    /\ TypeOK
    /\ TransactionPinsTerm
    /\ Bounded
    /\ GenerationHasOneHolder
    /\ StandbyWaits
    /\ NoChildOfEarlierTerm

--------------------------------------------------------------------------------
\* The initial state has no row, no fence and no worker.
LEMMA InitTypeOK == Init => TypeOK
BY HolderAssumption, TicksAssumption
DEF Init, TypeOK, Phases, WorkerSteps, NoWorker, NoExpiry

\* No handler leaves a row or an attribute malformed.
LEMMA NextTypeOK == TypeOK /\ [Next]_vars => TypeOK'
<1> SUFFICES ASSUME TypeOK, [Next]_vars
             PROVE  TypeOK'
    OBVIOUS
<1> USE HolderAssumption, TicksAssumption DEF TypeOK, Phases, WorkerSteps
<1>1. ASSUME NEW h \in Holders, StartSingleProcessTerm(h) PROVE TypeOK'
    BY <1>1 DEF StartSingleProcessTerm, BecomeLeader, NextGeneration, NoExpiry
<1>2. ASSUME NEW h \in Holders, TryAcquire(h) PROVE TypeOK'
    BY <1>2 DEF TryAcquire, BecomeLeader, NextGeneration
<1>3. ASSUME NEW h \in Holders, Renew(h) PROVE TypeOK'
    BY <1>3 DEF Renew
<1>4. ASSUME NEW h \in Holders, RenewFails(h) PROVE TypeOK'
    BY <1>4 DEF RenewFails
<1>5. CASE Tick
    BY <1>5 DEF Tick, NoExpiry
<1>6. ASSUME NEW h \in Holders, NEW w \in Workers, Dispatch(h, w) PROVE TypeOK'
    BY <1>6 DEF Dispatch
<1>7. ASSUME NEW w \in Workers, BeginPublish(w) PROVE TypeOK'
    BY <1>7 DEF BeginPublish
<1>8. ASSUME NEW w \in Workers, ConfirmFence(w) PROVE TypeOK'
    BY <1>8 DEF ConfirmFence
<1>9. ASSUME NEW w \in Workers, RollBack(w) PROVE TypeOK'
    BY <1>9 DEF RollBack
<1>10. ASSUME NEW w \in Workers, CommitPublish(w) PROVE TypeOK'
    BY <1>10 DEF CommitPublish
<1>11. ASSUME NEW w \in Workers, WorkerExits(w) PROVE TypeOK'
    BY <1>11 DEF WorkerExits, NoWorker
<1>12. ASSUME NEW h \in Holders, LoseLeadership(h) PROVE TypeOK'
    BY <1>12 DEF LoseLeadership
<1>13. ASSUME NEW h \in Holders, Revoke(h) PROVE TypeOK'
    BY <1>13 DEF Revoke
<1>14. ASSUME NEW h \in Holders, RevokeFails(h) PROVE TypeOK'
    BY <1>14 DEF RevokeFails
<1>15. ASSUME NEW h \in Holders, NEW stubborn \in SUBSET Workers,
              CancelWorkers(h, stubborn)
       PROVE  TypeOK'
    BY <1>15 DEF CancelWorkers, NoWorker
<1>16. ASSUME NEW h \in Holders, Crash(h) PROVE TypeOK'
    BY <1>16 DEF Crash
<1>17. CASE UNCHANGED vars
    BY <1>17 DEF vars
<1> QED
    BY <1>1, <1>2, <1>3, <1>4, <1>5, <1>6, <1>7, <1>8, <1>9, <1>10, <1>11,
       <1>12, <1>13, <1>14, <1>15, <1>16, <1>17
    DEF Next

\* Every row and attribute keeps its shape in every reachable state.
THEOREM TypeCorrect == Spec => []TypeOK
BY InitTypeOK, NextTypeOK, PTL DEF Spec

--------------------------------------------------------------------------------
\* The strengthening holds initially.
LEMMA InitLeaseInv == Init => LeaseInv
<1> SUFFICES ASSUME Init PROVE LeaseInv
    OBVIOUS
<1>1. TypeOK
    BY InitTypeOK
<1> QED
    BY <1>1
    DEF Init, LeaseInv, TransactionPinsTerm, Bounded, GenerationHasOneHolder,
        StandbyWaits, NoChildOfEarlierTerm, Live, InTransaction, NoWorker

\* Every writer of the row waits for the open transaction, and a transaction
\* opens only under its own term.
LEMMA NextPins ==
    ASSUME TypeOK, TypeOK', TransactionPinsTerm, [Next]_vars
    PROVE  TransactionPinsTerm'
<1> USE
       DEF TypeOK, TransactionPinsTerm, InTransaction, RowUnlocked,
           FenceHolds, NoWorker
<1>1. ASSUME NEW h \in Holders, StartSingleProcessTerm(h)
      PROVE  TransactionPinsTerm'
    BY <1>1 DEF StartSingleProcessTerm, BecomeLeader, NextGeneration
<1>2. ASSUME NEW h \in Holders, TryAcquire(h) PROVE TransactionPinsTerm'
    BY <1>2 DEF TryAcquire, BecomeLeader, NextGeneration
<1>3. ASSUME NEW h \in Holders, Renew(h) PROVE TransactionPinsTerm'
    BY <1>3 DEF Renew
<1>4. ASSUME NEW h \in Holders, RenewFails(h) PROVE TransactionPinsTerm'
    BY <1>4 DEF RenewFails
<1>5. CASE Tick
    BY <1>5 DEF Tick
<1>6. ASSUME NEW h \in Holders, NEW w \in Workers, Dispatch(h, w)
      PROVE  TransactionPinsTerm'
    BY <1>6 DEF Dispatch
<1>7. ASSUME NEW w \in Workers, BeginPublish(w) PROVE TransactionPinsTerm'
    BY <1>7 DEF BeginPublish
<1>8. ASSUME NEW w \in Workers, ConfirmFence(w) PROVE TransactionPinsTerm'
    BY <1>8 DEF ConfirmFence
<1>9. ASSUME NEW w \in Workers, RollBack(w) PROVE TransactionPinsTerm'
    BY <1>9 DEF RollBack
<1>10. ASSUME NEW w \in Workers, CommitPublish(w) PROVE TransactionPinsTerm'
    BY <1>10 DEF CommitPublish
<1>11. ASSUME NEW w \in Workers, WorkerExits(w) PROVE TransactionPinsTerm'
    BY <1>11 DEF WorkerExits
<1>12. ASSUME NEW h \in Holders, LoseLeadership(h) PROVE TransactionPinsTerm'
    BY <1>12 DEF LoseLeadership
<1>13. ASSUME NEW h \in Holders, Revoke(h) PROVE TransactionPinsTerm'
    BY <1>13 DEF Revoke
<1>14. ASSUME NEW h \in Holders, RevokeFails(h) PROVE TransactionPinsTerm'
    BY <1>14 DEF RevokeFails
<1>15. ASSUME NEW h \in Holders, NEW stubborn \in SUBSET Workers,
              CancelWorkers(h, stubborn)
       PROVE  TransactionPinsTerm'
    BY <1>15 DEF CancelWorkers
<1>16. ASSUME NEW h \in Holders, Crash(h) PROVE TransactionPinsTerm'
    BY <1>16 DEF Crash
<1>17. CASE UNCHANGED vars
    BY <1>17 DEF vars
<1> QED
    BY <1>1, <1>2, <1>3, <1>4, <1>5, <1>6, <1>7, <1>8, <1>9,
       <1>10, <1>11, <1>12, <1>13, <1>14, <1>15, <1>16, <1>17
    DEF Next

\* Fences and assignments stay at or below the row's generation.
LEMMA NextBounded ==
    ASSUME TypeOK, TypeOK', Bounded, [Next]_vars
    PROVE  Bounded'
<1> USE HolderAssumption DEF TypeOK, Bounded, Live, FenceHolds, NoWorker
<1>1. ASSUME NEW h \in Holders, StartSingleProcessTerm(h) PROVE Bounded'
    BY <1>1 DEF StartSingleProcessTerm, BecomeLeader, NextGeneration
<1>2. ASSUME NEW h \in Holders, TryAcquire(h) PROVE Bounded'
    BY <1>2 DEF TryAcquire, BecomeLeader, NextGeneration
<1>3. ASSUME NEW h \in Holders, Renew(h) PROVE Bounded'
    BY <1>3 DEF Renew
<1>4. ASSUME NEW h \in Holders, RenewFails(h) PROVE Bounded'
    BY <1>4 DEF RenewFails
<1>5. CASE Tick
    BY <1>5 DEF Tick
<1>6. ASSUME NEW h \in Holders, NEW w \in Workers, Dispatch(h, w) PROVE Bounded'
    BY <1>6 DEF Dispatch
<1>7. ASSUME NEW w \in Workers, BeginPublish(w) PROVE Bounded'
    BY <1>7 DEF BeginPublish
<1>8. ASSUME NEW w \in Workers, ConfirmFence(w) PROVE Bounded'
    BY <1>8 DEF ConfirmFence
<1>9. ASSUME NEW w \in Workers, RollBack(w) PROVE Bounded'
    BY <1>9 DEF RollBack
<1>10. ASSUME NEW w \in Workers, CommitPublish(w) PROVE Bounded'
    BY <1>10 DEF CommitPublish
<1>11. ASSUME NEW w \in Workers, WorkerExits(w) PROVE Bounded'
    BY <1>11 DEF WorkerExits
<1>12. ASSUME NEW h \in Holders, LoseLeadership(h) PROVE Bounded'
    BY <1>12 DEF LoseLeadership
<1>13. ASSUME NEW h \in Holders, Revoke(h) PROVE Bounded'
    BY <1>13 DEF Revoke
<1>14. ASSUME NEW h \in Holders, RevokeFails(h) PROVE Bounded'
    BY <1>14 DEF RevokeFails
<1>15. ASSUME NEW h \in Holders, NEW stubborn \in SUBSET Workers,
              CancelWorkers(h, stubborn)
       PROVE  Bounded'
    BY <1>15 DEF CancelWorkers
<1>16. ASSUME NEW h \in Holders, Crash(h) PROVE Bounded'
    BY <1>16 DEF Crash
<1>17. CASE UNCHANGED vars
    BY <1>17 DEF vars
<1> QED
    BY <1>1, <1>2, <1>3, <1>4, <1>5, <1>6, <1>7, <1>8, <1>9,
       <1>10, <1>11, <1>12, <1>13, <1>14, <1>15, <1>16, <1>17
    DEF Next

\* A new term gets a generation above every fence and every worker.
LEMMA NextOneHolder ==
    ASSUME TypeOK, TypeOK', Bounded, GenerationHasOneHolder, [Next]_vars
    PROVE  GenerationHasOneHolder'
<1> USE HolderAssumption
       DEF TypeOK, Bounded, GenerationHasOneHolder, Live,
           NoWorker
<1>1. ASSUME NEW h \in Holders, StartSingleProcessTerm(h)
      PROVE  GenerationHasOneHolder'
    BY <1>1 DEF StartSingleProcessTerm, BecomeLeader, NextGeneration
<1>2. ASSUME NEW h \in Holders, TryAcquire(h) PROVE GenerationHasOneHolder'
    BY <1>2 DEF TryAcquire, BecomeLeader, NextGeneration
<1>3. ASSUME NEW h \in Holders, Renew(h) PROVE GenerationHasOneHolder'
    BY <1>3 DEF Renew
<1>4. ASSUME NEW h \in Holders, RenewFails(h) PROVE GenerationHasOneHolder'
    BY <1>4 DEF RenewFails
<1>5. CASE Tick
    BY <1>5 DEF Tick
<1>6. ASSUME NEW h \in Holders, NEW w \in Workers, Dispatch(h, w)
      PROVE  GenerationHasOneHolder'
    BY <1>6 DEF Dispatch
<1>7. ASSUME NEW w \in Workers, BeginPublish(w) PROVE GenerationHasOneHolder'
    BY <1>7 DEF BeginPublish
<1>8. ASSUME NEW w \in Workers, ConfirmFence(w) PROVE GenerationHasOneHolder'
    BY <1>8 DEF ConfirmFence
<1>9. ASSUME NEW w \in Workers, RollBack(w) PROVE GenerationHasOneHolder'
    BY <1>9 DEF RollBack
<1>10. ASSUME NEW w \in Workers, CommitPublish(w) PROVE GenerationHasOneHolder'
    BY <1>10 DEF CommitPublish
<1>11. ASSUME NEW w \in Workers, WorkerExits(w) PROVE GenerationHasOneHolder'
    BY <1>11 DEF WorkerExits
<1>12. ASSUME NEW h \in Holders, LoseLeadership(h) PROVE GenerationHasOneHolder'
    BY <1>12 DEF LoseLeadership
<1>13. ASSUME NEW h \in Holders, Revoke(h) PROVE GenerationHasOneHolder'
    BY <1>13 DEF Revoke
<1>14. ASSUME NEW h \in Holders, RevokeFails(h) PROVE GenerationHasOneHolder'
    BY <1>14 DEF RevokeFails
<1>15. ASSUME NEW h \in Holders, NEW stubborn \in SUBSET Workers,
              CancelWorkers(h, stubborn)
       PROVE  GenerationHasOneHolder'
    BY <1>15 DEF CancelWorkers
<1>16. ASSUME NEW h \in Holders, Crash(h) PROVE GenerationHasOneHolder'
    BY <1>16 DEF Crash
<1>17. CASE UNCHANGED vars
    BY <1>17 DEF vars
<1> QED
    BY <1>1, <1>2, <1>3, <1>4, <1>5, <1>6, <1>7, <1>8, <1>9,
       <1>10, <1>11, <1>12, <1>13, <1>14, <1>15, <1>16, <1>17
    DEF Next

\* Cancellation leaves either nothing or an unreaped handle behind.
LEMMA NextStandbyWaits ==
    ASSUME TypeOK, TypeOK', StandbyWaits, [Next]_vars
    PROVE  StandbyWaits'
<1> USE HolderAssumption DEF TypeOK, StandbyWaits, Live, NoWorker
<1>1. ASSUME NEW h \in Holders, StartSingleProcessTerm(h) PROVE StandbyWaits'
    BY <1>1 DEF StartSingleProcessTerm, BecomeLeader, NextGeneration
<1>2. ASSUME NEW h \in Holders, TryAcquire(h) PROVE StandbyWaits'
    BY <1>2 DEF TryAcquire, BecomeLeader, NextGeneration
<1>3. ASSUME NEW h \in Holders, Renew(h) PROVE StandbyWaits'
    BY <1>3 DEF Renew
<1>4. ASSUME NEW h \in Holders, RenewFails(h) PROVE StandbyWaits'
    BY <1>4 DEF RenewFails
<1>5. CASE Tick
    BY <1>5 DEF Tick
<1>6. ASSUME NEW h \in Holders, NEW w \in Workers, Dispatch(h, w)
      PROVE  StandbyWaits'
    BY <1>6 DEF Dispatch
<1>7. ASSUME NEW w \in Workers, BeginPublish(w) PROVE StandbyWaits'
    BY <1>7 DEF BeginPublish
<1>8. ASSUME NEW w \in Workers, ConfirmFence(w) PROVE StandbyWaits'
    BY <1>8 DEF ConfirmFence
<1>9. ASSUME NEW w \in Workers, RollBack(w) PROVE StandbyWaits'
    BY <1>9 DEF RollBack
<1>10. ASSUME NEW w \in Workers, CommitPublish(w) PROVE StandbyWaits'
    BY <1>10 DEF CommitPublish
<1>11. ASSUME NEW w \in Workers, WorkerExits(w) PROVE StandbyWaits'
    BY <1>11 DEF WorkerExits
<1>12. ASSUME NEW h \in Holders, LoseLeadership(h) PROVE StandbyWaits'
    BY <1>12 DEF LoseLeadership
<1>13. ASSUME NEW h \in Holders, Revoke(h) PROVE StandbyWaits'
    BY <1>13 DEF Revoke
<1>14. ASSUME NEW h \in Holders, RevokeFails(h) PROVE StandbyWaits'
    BY <1>14 DEF RevokeFails
<1>15. ASSUME NEW h \in Holders, NEW stubborn \in SUBSET Workers,
              CancelWorkers(h, stubborn)
       PROVE  StandbyWaits'
    BY <1>15 DEF CancelWorkers
<1>16. ASSUME NEW h \in Holders, Crash(h) PROVE StandbyWaits'
    BY <1>16 DEF Crash
<1>17. CASE UNCHANGED vars
    BY <1>17 DEF vars
<1> QED
    BY <1>1, <1>2, <1>3, <1>4, <1>5, <1>6, <1>7, <1>8, <1>9,
       <1>10, <1>11, <1>12, <1>13, <1>14, <1>15, <1>16, <1>17
    DEF Next

\* A process leads only after everything it left behind has been reaped.
LEMMA NextNoChild ==
    ASSUME TypeOK, TypeOK', StandbyWaits, NoChildOfEarlierTerm, [Next]_vars
    PROVE  NoChildOfEarlierTerm'
<1> USE HolderAssumption
       DEF TypeOK, StandbyWaits, NoChildOfEarlierTerm, Live,
           NothingUnreaped, NoWorker
<1>1. ASSUME NEW h \in Holders, StartSingleProcessTerm(h)
      PROVE  NoChildOfEarlierTerm'
    BY <1>1 DEF StartSingleProcessTerm, BecomeLeader, NextGeneration
<1>2. ASSUME NEW h \in Holders, TryAcquire(h) PROVE NoChildOfEarlierTerm'
    BY <1>2 DEF TryAcquire, BecomeLeader, NextGeneration
<1>3. ASSUME NEW h \in Holders, Renew(h) PROVE NoChildOfEarlierTerm'
    BY <1>3 DEF Renew
<1>4. ASSUME NEW h \in Holders, RenewFails(h) PROVE NoChildOfEarlierTerm'
    BY <1>4 DEF RenewFails
<1>5. CASE Tick
    BY <1>5 DEF Tick
<1>6. ASSUME NEW h \in Holders, NEW w \in Workers, Dispatch(h, w)
      PROVE  NoChildOfEarlierTerm'
    BY <1>6 DEF Dispatch
<1>7. ASSUME NEW w \in Workers, BeginPublish(w) PROVE NoChildOfEarlierTerm'
    BY <1>7 DEF BeginPublish
<1>8. ASSUME NEW w \in Workers, ConfirmFence(w) PROVE NoChildOfEarlierTerm'
    BY <1>8 DEF ConfirmFence
<1>9. ASSUME NEW w \in Workers, RollBack(w) PROVE NoChildOfEarlierTerm'
    BY <1>9 DEF RollBack
<1>10. ASSUME NEW w \in Workers, CommitPublish(w) PROVE NoChildOfEarlierTerm'
    BY <1>10 DEF CommitPublish
<1>11. ASSUME NEW w \in Workers, WorkerExits(w) PROVE NoChildOfEarlierTerm'
    BY <1>11 DEF WorkerExits
<1>12. ASSUME NEW h \in Holders, LoseLeadership(h) PROVE NoChildOfEarlierTerm'
    BY <1>12 DEF LoseLeadership
<1>13. ASSUME NEW h \in Holders, Revoke(h) PROVE NoChildOfEarlierTerm'
    BY <1>13 DEF Revoke
<1>14. ASSUME NEW h \in Holders, RevokeFails(h) PROVE NoChildOfEarlierTerm'
    BY <1>14 DEF RevokeFails
<1>15. ASSUME NEW h \in Holders, NEW stubborn \in SUBSET Workers,
              CancelWorkers(h, stubborn)
       PROVE  NoChildOfEarlierTerm'
    BY <1>15 DEF CancelWorkers
<1>16. ASSUME NEW h \in Holders, Crash(h) PROVE NoChildOfEarlierTerm'
    BY <1>16 DEF Crash
<1>17. CASE UNCHANGED vars
    BY <1>17 DEF vars
<1> QED
    BY <1>1, <1>2, <1>3, <1>4, <1>5, <1>6, <1>7, <1>8, <1>9,
       <1>10, <1>11, <1>12, <1>13, <1>14, <1>15, <1>16, <1>17
    DEF Next

\* The strengthening is inductive.
LEMMA NextLeaseInv == LeaseInv /\ [Next]_vars => LeaseInv'
<1> SUFFICES ASSUME LeaseInv, [Next]_vars
             PROVE  LeaseInv'
    OBVIOUS
<1>1. TypeOK /\ TypeOK'
    BY NextTypeOK DEF LeaseInv
<1>2. TransactionPinsTerm'
    BY <1>1, NextPins DEF LeaseInv
<1>3. Bounded'
    BY <1>1, NextBounded DEF LeaseInv
<1>4. GenerationHasOneHolder'
    BY <1>1, NextOneHolder DEF LeaseInv
<1>5. StandbyWaits'
    BY <1>1, NextStandbyWaits DEF LeaseInv
<1>6. NoChildOfEarlierTerm'
    BY <1>1, NextNoChild DEF LeaseInv
<1> QED
    BY <1>1, <1>2, <1>3, <1>4, <1>5, <1>6 DEF LeaseInv

\* The inductive invariant holds in every reachable state.
LEMMA LeaseInvariant == Spec => []LeaseInv
BY InitLeaseInv, NextLeaseInv, PTL DEF Spec

\* A publication transaction keeps its own term in the row from its fence
\* check to its commit, whatever the clock and the other processes do.
THEOREM TransactionsPinTheirTerm == Spec => []TransactionPinsTerm
<1>1. LeaseInv => TransactionPinsTerm
    BY DEF LeaseInv
<1> QED
    BY <1>1, LeaseInvariant, PTL

\* No two processes, and no worker that outlived its process, ever hold the
\* same generation.
THEOREM GenerationsAreExclusive == Spec => []GenerationHasOneHolder
<1>1. LeaseInv => GenerationHasOneHolder
    BY DEF LeaseInv
<1> QED
    BY <1>1, LeaseInvariant, PTL

\* A leading process has no child of one of its earlier terms.
THEOREM EarlierChildrenAreGone == Spec => []NoChildOfEarlierTerm
<1>1. LeaseInv => NoChildOfEarlierTerm
    BY DEF LeaseInv
<1> QED
    BY <1>1, LeaseInvariant, PTL

--------------------------------------------------------------------------------
\* Every step of the lease is a step of the abstract terms or leaves them be.
LEMMA StepRefines ==
    LeaseInv /\ [Next]_vars => [Terms!Next]_(Terms!vars)
<1> SUFFICES ASSUME LeaseInv, [Next]_vars
             PROVE  Terms!Next \/ UNCHANGED Terms!vars
    OBVIOUS
<1> USE
       DEF LeaseInv, TypeOK, Terms!Next, Terms!Advance,
           Terms!Publish, Terms!vars
<1>1. ASSUME NEW h \in Holders, StartSingleProcessTerm(h)
      PROVE  Terms!Next \/ UNCHANGED Terms!vars
    BY <1>1 DEF StartSingleProcessTerm, BecomeLeader, NextGeneration
<1>2. ASSUME NEW h \in Holders, TryAcquire(h)
      PROVE  Terms!Next \/ UNCHANGED Terms!vars
    BY <1>2 DEF TryAcquire, BecomeLeader, NextGeneration
<1>3. ASSUME NEW h \in Holders, Renew(h)
      PROVE  Terms!Next \/ UNCHANGED Terms!vars
    BY <1>3 DEF Renew
<1>4. ASSUME NEW h \in Holders, RenewFails(h)
      PROVE  Terms!Next \/ UNCHANGED Terms!vars
    BY <1>4 DEF RenewFails
<1>5. CASE Tick
    BY <1>5 DEF Tick
<1>6. ASSUME NEW h \in Holders, NEW w \in Workers, Dispatch(h, w)
      PROVE  Terms!Next \/ UNCHANGED Terms!vars
    BY <1>6 DEF Dispatch
<1>7. ASSUME NEW w \in Workers, BeginPublish(w)
      PROVE  Terms!Next \/ UNCHANGED Terms!vars
    BY <1>7 DEF BeginPublish
<1>8. ASSUME NEW w \in Workers, ConfirmFence(w)
      PROVE  Terms!Next \/ UNCHANGED Terms!vars
    BY <1>8 DEF ConfirmFence
<1>9. ASSUME NEW w \in Workers, RollBack(w)
      PROVE  Terms!Next \/ UNCHANGED Terms!vars
    BY <1>9 DEF RollBack
<1>10. ASSUME NEW w \in Workers, CommitPublish(w)
      PROVE  Terms!Next \/ UNCHANGED Terms!vars
    BY <1>10 DEF CommitPublish, TransactionPinsTerm, InTransaction, Bounded, Live
<1>11. ASSUME NEW w \in Workers, WorkerExits(w)
      PROVE  Terms!Next \/ UNCHANGED Terms!vars
    BY <1>11 DEF WorkerExits
<1>12. ASSUME NEW h \in Holders, LoseLeadership(h)
      PROVE  Terms!Next \/ UNCHANGED Terms!vars
    BY <1>12 DEF LoseLeadership
<1>13. ASSUME NEW h \in Holders, Revoke(h)
      PROVE  Terms!Next \/ UNCHANGED Terms!vars
    BY <1>13 DEF Revoke, FenceHolds
<1>14. ASSUME NEW h \in Holders, RevokeFails(h)
      PROVE  Terms!Next \/ UNCHANGED Terms!vars
    BY <1>14 DEF RevokeFails
<1>15. ASSUME NEW h \in Holders, NEW stubborn \in SUBSET Workers,
              CancelWorkers(h, stubborn)
       PROVE  Terms!Next \/ UNCHANGED Terms!vars
    BY <1>15 DEF CancelWorkers
<1>16. ASSUME NEW h \in Holders, Crash(h)
      PROVE  Terms!Next \/ UNCHANGED Terms!vars
    BY <1>16 DEF Crash
<1>17. CASE UNCHANGED vars
    BY <1>17 DEF vars
<1> QED
    BY <1>1, <1>2, <1>3, <1>4, <1>5, <1>6, <1>7, <1>8, <1>9,
       <1>10, <1>11, <1>12, <1>13, <1>14, <1>15, <1>16, <1>17
    DEF Next

\* The lease implements the abstract terms: generations grow one by one, and
\* only a transaction of the newest one ever commits a publication.
THEOREM LeaseImplementsTerms == Spec => ImplementsFencedTerms
<1>1. Init => Terms!Init
    BY DEF Init, Terms!Init
<1> QED
    BY <1>1, LeaseInvariant, StepRefines, PTL
    DEF Spec, ImplementsFencedTerms, Terms!Spec
================================================================================
