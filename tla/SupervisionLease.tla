--------------------------- MODULE SupervisionLease ----------------------------
(***************************************************************************)
(* The supervisor lease (persistence/supervision.py) and the life of a     *)
(* leadership term in the supervisor (runtime/artifact_processing.py):     *)
(* acquisition, renewal, expiry, fenced publication, loss of leadership    *)
(* with revocation before cancellation, worker processes whose exit cannot *)
(* be confirmed, and process crashes that orphan workers.                  *)
(*                                                                         *)
(* The lease row is locked from require_fence() to the end of the          *)
(* transaction, so a worker's publication is three steps: BeginPublish     *)
(* (guard), ConfirmFence (the check that ends complete()) and              *)
(* CommitPublish.  Time passes between them, and every writer of the row   *)
(* waits for the lock.  The transactions of the supervisor itself do       *)
(* nothing between their fence check and their commit that another actor   *)
(* could see: they are atomic.                                             *)
(*                                                                         *)
(* lease_expires_at is kept as the time left by the database's clock:      *)
(* "expires_at > now" is left > 0, and a revoked row (1970) has left = 0.  *)
(***************************************************************************)
EXTENDS Integers

CONSTANTS Holders,       \* supervisor processes, one random holder_id each
          Workers,       \* slots for worker processes
          Nobody,        \* the random holder_id a revocation writes
          LeaseModes,    \* "single-process", "oceanbase" or both: see mode
          LeaseTicks,    \* lease_seconds
          MaxGeneration  \* bound: no acquisition past this generation

ASSUME HolderAssumption == Nobody \notin Holders
ASSUME ModeAssumption == LeaseModes \subseteq {"single-process", "oceanbase"}
ASSUME TicksAssumption == LeaseTicks \in Nat \ {0}
ASSUME GenerationAssumption == MaxGeneration \in Nat

VARIABLES
    mode,       \* the deployment's kind of lease; never changes
    lease,      \* the row: [holder, generation, left]; generation 0 is no row
    phase,      \* phase[h]: where process h stands in a term's life
    fence,      \* fence[h]: generation of _fence, also while it is revoked
    leaseLost,  \* leaseLost[h]: _lease_lost
    worker,     \* worker[w]: [step, holder, generation, unreaped]
    published   \* history: generation of the latest committed publication

vars == <<mode, lease, phase, fence, leaseLost, worker, published>>

NoExpiry == -1

Phases == {"standby", "leader", "revoking", "cancelling", "dead"}

\* A worker holds the row lock while it is "guarded" or "confirmed".
WorkerSteps == {"none", "running", "guarded", "confirmed"}

NoWorker == [step |-> "none", holder |-> Nobody, generation |-> 0,
             unreaped |-> FALSE]

Live(w) == worker[w].step # "none"

InTransaction(w) == worker[w].step \in {"guarded", "confirmed"}

\* Mutated form of RowUnlocked: the row is read without FOR UPDATE.
RowNeverLocked == TRUE

RowUnlocked == \A w \in Workers : ~ InTransaction(w)

Init ==
    /\ mode \in LeaseModes
    /\ lease = [holder |-> Nobody, generation |-> 0, left |-> 0]
    /\ phase = [h \in Holders |-> "standby"]
    /\ fence = [h \in Holders |-> 0]
    /\ leaseLost = [h \in Holders |-> FALSE]
    /\ worker = [w \in Workers |-> NoWorker]
    /\ published = 0

\* Mutated form of FenceHolds: any unexpired lease will do.
FenceIgnoresTerm(holder, generation) ==
    IF mode = "single-process" THEN lease.left = NoExpiry
                                    ELSE lease.left > 0

\* Mutated form of FenceHolds: expiry is left to the renewal task.
FenceIgnoresExpiry(holder, generation) ==
    lease.holder = holder /\ lease.generation = generation

\* require_fence(): the row still carries this holder and generation and has
\* not expired.
FenceHolds(holder, generation) ==
    /\ lease.holder = holder
    /\ lease.generation = generation
    /\ IF mode = "single-process" THEN lease.left = NoExpiry
                                       ELSE lease.left > 0

--------------------------------------------------------------------------------
(* Acquiring and keeping a term.                                           *)

\* Mutated form of NothingUnreaped: the new term does not wait.
ReapNotAwaited(h) == TRUE

\* _reap_unconfirmed_exits() left no handle of this process.
NothingUnreaped(h) ==
    \A w \in Workers : worker[w].holder = h => ~ worker[w].unreaped

\* Mutated form of NextGeneration: a takeover keeps the row's generation.
GenerationKept == IF lease.generation = 0 THEN 1 ELSE lease.generation

\* The generation of a new term.
NextGeneration == lease.generation + 1

\* _acquire() from a standby process: the row is rewritten and the process
\* holds the new fence.
BecomeLeader(h, left) ==
    /\ phase[h] = "standby"
    /\ NothingUnreaped(h)
    /\ RowUnlocked
    /\ lease.generation < MaxGeneration
    /\ lease' = [holder |-> h, generation |-> NextGeneration, left |-> left]
    /\ phase' = [phase EXCEPT ![h] = "leader"]
    /\ fence' = [fence EXCEPT ![h] = NextGeneration]
    /\ leaseLost' = [leaseLost EXCEPT ![h] = FALSE]
    /\ UNCHANGED <<mode, worker, published>>

\* start_single_process_term(): whatever the row says is superseded.
StartSingleProcessTerm(h) ==
    /\ mode = "single-process"
    /\ BecomeLeader(h, NoExpiry)

\* try_acquire(): only an absent row or an expired term is taken.
TryAcquire(h) ==
    /\ mode = "oceanbase"
    /\ lease.left = 0
    /\ BecomeLeader(h, LeaseTicks)

\* Mutated form of Renew: lease_seconds are added to the old expiry instead of
\* the database's present time.
RenewFromExpiry(h) ==
    /\ mode = "oceanbase"
    /\ phase[h] = "leader"
    /\ ~ leaseLost[h]
    /\ RowUnlocked
    /\ FenceHolds(h, fence[h])
    /\ lease' = [lease EXCEPT !.left = @ + LeaseTicks]
    /\ UNCHANGED <<mode, phase, fence, leaseLost, worker, published>>

\* renew() extends an unexpired lease without changing its generation.
Renew(h) ==
    /\ mode = "oceanbase"
    /\ phase[h] = "leader"
    /\ ~ leaseLost[h]
    /\ RowUnlocked
    /\ FenceHolds(h, fence[h])
    /\ lease' = [lease EXCEPT !.left = LeaseTicks]
    /\ UNCHANGED <<mode, phase, fence, leaseLost, worker, published>>

\* The renewal task fails, because the fence is gone or on a database error.
RenewFails(h) ==
    /\ mode = "oceanbase"
    /\ phase[h] = "leader"
    /\ ~ leaseLost[h]
    /\ leaseLost' = [leaseLost EXCEPT ![h] = TRUE]
    /\ UNCHANGED <<mode, lease, phase, fence, worker, published>>

\* The database's clock.
Tick ==
    /\ lease' = [lease EXCEPT !.left = IF @ > 0 THEN @ - 1 ELSE @]
    /\ UNCHANGED <<mode, phase, fence, leaseLost, worker, published>>

--------------------------------------------------------------------------------
(* Workers under a term.                                                   *)

\* _dispatch() launches a worker with the fence it has just validated.
Dispatch(h, w) ==
    /\ phase[h] = "leader"
    /\ ~ leaseLost[h]
    /\ worker[w].step = "none"
    /\ RowUnlocked
    /\ FenceHolds(h, fence[h])
    /\ worker' = [worker EXCEPT ![w] = [step |-> "running", holder |-> h,
                                        generation |-> fence[h],
                                        unreaped |-> FALSE]]
    /\ UNCHANGED <<mode, lease, phase, fence, leaseLost, published>>

\* guard() opens the publication transaction and locks the lease row.
BeginPublish(w) ==
    /\ worker[w].step = "running"
    /\ RowUnlocked
    /\ FenceHolds(worker[w].holder, worker[w].generation)
    /\ worker' = [worker EXCEPT ![w].step = "guarded"]
    /\ UNCHANGED <<mode, lease, phase, fence, leaseLost, published>>

\* complete() validates the fence once more, after the acknowledgement.
ConfirmFence(w) ==
    /\ worker[w].step = "guarded"
    /\ FenceHolds(worker[w].holder, worker[w].generation)
    /\ worker' = [worker EXCEPT ![w].step = "confirmed"]
    /\ UNCHANGED <<mode, lease, phase, fence, leaseLost, published>>

\* The lease ran out before the second check: the transaction is rolled back
\* and the worker reports LEADERSHIP_LOST.
RollBack(w) ==
    /\ worker[w].step = "guarded"
    /\ ~ FenceHolds(worker[w].holder, worker[w].generation)
    /\ worker' = [worker EXCEPT ![w].step = "running"]
    /\ UNCHANGED <<mode, lease, phase, fence, leaseLost, published>>

\* The commit itself checks nothing: the lease may have run out meanwhile.
CommitPublish(w) ==
    /\ worker[w].step = "confirmed"
    /\ published' = worker[w].generation
    /\ worker' = [worker EXCEPT ![w].step = "running"]
    /\ UNCHANGED <<mode, lease, phase, fence, leaseLost>>

\* A worker process ends by itself or dies; an open transaction is rolled
\* back and an unreaped handle can then be reaped.
WorkerExits(w) ==
    /\ Live(w)
    /\ worker' = [worker EXCEPT ![w] = NoWorker]
    /\ UNCHANGED <<mode, lease, phase, fence, leaseLost, published>>

--------------------------------------------------------------------------------
(* Losing a term.                                                          *)

\* _lose_leadership() begins: after a failed renewal, a lost fence, any error
\* of the control loop, or close().
LoseLeadership(h) ==
    /\ phase[h] = "leader"
    /\ phase' = [phase EXCEPT ![h] = "revoking"]
    /\ leaseLost' = [leaseLost EXCEPT ![h] = FALSE]
    /\ UNCHANGED <<mode, lease, fence, worker, published>>

\* The term is revoked before any worker is cancelled.  A fence that no
\* longer holds needs no revocation.
Revoke(h) ==
    /\ phase[h] = "revoking"
    /\ RowUnlocked
    /\ lease' = IF FenceHolds(h, fence[h])
                THEN [holder |-> Nobody, generation |-> fence[h] + 1, left |-> 0]
                ELSE lease
    /\ phase' = [phase EXCEPT ![h] = "cancelling"]
    /\ fence' = [fence EXCEPT ![h] = 0]
    /\ UNCHANGED <<mode, leaseLost, worker, published>>

\* The revoking transaction fails; it is logged and the term is not revoked.
RevokeFails(h) ==
    /\ phase[h] = "revoking"
    /\ phase' = [phase EXCEPT ![h] = "cancelling"]
    /\ fence' = [fence EXCEPT ![h] = 0]
    /\ UNCHANGED <<mode, lease, leaseLost, worker, published>>

\* Every worker of the process is cancelled.  Those in `stubborn` do not
\* confirm their exit within the shutdown timeout: their handles are kept,
\* and the processes may go on with what they were doing.
CancelWorkers(h, stubborn) ==
    /\ phase[h] = "cancelling"
    /\ \A w \in stubborn : Live(w) /\ worker[w].holder = h
    /\ phase' = [phase EXCEPT ![h] = "standby"]
    /\ worker' = [w \in Workers |->
                     IF worker[w].holder # h THEN worker[w]
                     ELSE IF w \notin stubborn THEN NoWorker
                     ELSE [worker[w] EXCEPT !.unreaped = TRUE]]
    /\ UNCHANGED <<mode, lease, fence, leaseLost, published>>

\* The process dies; its workers are orphaned and the lease stays as it is.
Crash(h) ==
    /\ phase[h] # "dead"
    /\ phase' = [phase EXCEPT ![h] = "dead"]
    /\ fence' = [fence EXCEPT ![h] = 0]
    /\ leaseLost' = [leaseLost EXCEPT ![h] = FALSE]
    /\ UNCHANGED <<mode, lease, worker, published>>

--------------------------------------------------------------------------------
Next ==
    \/ \E h \in Holders : StartSingleProcessTerm(h)
    \/ \E h \in Holders : TryAcquire(h)
    \/ \E h \in Holders : Renew(h)
    \/ \E h \in Holders : RenewFails(h)
    \/ Tick
    \/ \E h \in Holders, w \in Workers : Dispatch(h, w)
    \/ \E w \in Workers : BeginPublish(w)
    \/ \E w \in Workers : ConfirmFence(w)
    \/ \E w \in Workers : RollBack(w)
    \/ \E w \in Workers : CommitPublish(w)
    \/ \E w \in Workers : WorkerExits(w)
    \/ \E h \in Holders : LoseLeadership(h)
    \/ \E h \in Holders : Revoke(h)
    \/ \E h \in Holders : RevokeFails(h)
    \/ \E h \in Holders, stubborn \in SUBSET Workers : CancelWorkers(h, stubborn)
    \/ \E h \in Holders : Crash(h)

Spec == Init /\ [][Next]_vars

\* Database time passes, a standby process keeps polling the row, the renewal
\* task notices that its fence is gone, a process that lost its term finishes
\* losing it, and a transaction or a terminated worker process ends.
Fairness ==
    /\ WF_vars(Tick)
    /\ \A h \in Holders : /\ WF_vars(TryAcquire(h))
                          /\ WF_vars(StartSingleProcessTerm(h))
                          /\ WF_vars(/\ ~ FenceHolds(h, fence[h])
                                     /\ RenewFails(h))
                          /\ WF_vars(leaseLost[h] /\ LoseLeadership(h))
                          /\ WF_vars(Revoke(h))
                          /\ WF_vars(CancelWorkers(h, {}))
    /\ \A w \in Workers : /\ WF_vars(ConfirmFence(w))
                          /\ WF_vars(RollBack(w))
                          /\ WF_vars(CommitPublish(w))
                          /\ WF_vars(worker[w].unreaped /\ WorkerExits(w))

FairSpec == Spec /\ Fairness

--------------------------------------------------------------------------------
(* Properties.                                                             *)

\* Every variable has the shape of its row or attribute; a lease that expires
\* at all does so within lease_seconds, however often it was renewed.
TypeOK ==
    /\ mode \in LeaseModes
    /\ lease \in [holder : Holders \cup {Nobody}, generation : Nat,
                   left : (0..LeaseTicks) \cup {NoExpiry}]
    /\ phase \in [Holders -> Phases]
    /\ fence \in [Holders -> Nat]
    /\ leaseLost \in [Holders -> BOOLEAN]
    /\ worker \in [Workers -> [step : WorkerSteps,
                               holder : Holders \cup {Nobody},
                               generation : Nat, unreaped : BOOLEAN]]
    /\ published \in Nat

\* From its fence check to its commit a worker's transaction keeps its own
\* term in the row, even when the lease expires in between: no acquisition,
\* renewal or revocation slips in (load(for_update=True) in every writer of
\* the row).
TransactionPinsTerm ==
    \A w \in Workers :
        InTransaction(w) => /\ lease.holder = worker[w].holder
                            /\ lease.generation = worker[w].generation

\* A process that leads has no child of one of its own earlier terms left,
\* so it never runs two workers for one key: _acquire() waits for every
\* handle whose exit is unconfirmed.
NoChildOfEarlierTerm ==
    \A h \in Holders, w \in Workers :
        phase[h] = "leader" /\ Live(w) /\ worker[w].holder = h
            => worker[w].generation = fence[h]

\* No generation is ever held by two processes, counting the workers that
\* outlive a crash, a takeover or a revocation.
GenerationHasOneHolder ==
    /\ \A g, h \in Holders : fence[g] = fence[h] /\ fence[g] > 0 => g = h
    /\ \A w \in Workers, h \in Holders :
          Live(w) /\ worker[w].generation = fence[h] => worker[w].holder = h

Terms == INSTANCE FencedTerms WITH generation <- lease.generation

\* Generations grow by single steps and every committed publication carries
\* the newest one: an old-term worker never writes after its successor's
\* term began.
ImplementsFencedTerms == Terms!Spec

\* The lease of a process that died leaves its hands: its orphaned workers
\* cannot keep the row locked for ever, because an expired fence cannot be
\* locked again.  (A single-process lease never expires; the next process to
\* start supersedes it.)
DeadHolderReplaced ==
    \A h \in Holders :
        mode = "oceanbase" /\ phase[h] = "dead" /\ lease.holder = h
            ~> \/ lease.holder # h
               \/ \A g \in Holders : phase[g] = "dead"
               \/ lease.generation >= MaxGeneration
================================================================================
