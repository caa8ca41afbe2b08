---------------------------- MODULE DreamRunsProofs ----------------------------
(***************************************************************************)
(* Proofs about DreamRuns, for every set of runs, principals, fingerprints *)
(* references and workers, every budget, yield limit and bound.            *)
(***************************************************************************)
EXTENDS DreamRuns, ProcessingIntentsProofs, TLAPS

\* A worker that has claimed a run.
Active(w) ==
    worker[w].phase \in {"claimed", "preparing", "asked", "answered", "exceeded"}

\* A worker that has searched for earlier proposals and may still make its own.
Searching(w) == worker[w].phase \in {"preparing", "asked", "answered"}

\* A row that is not registered holds nothing.
AbsentRowEmpty == ~ Registered(intent) => intent = Absent

\* Assignments are of terms that have begun, and of requests that were
\* accepted; an active worker has a run, and an attempt the run has counted.
WorkersKnown ==
    \A w \in Workers :
        /\ worker[w].phase # "idle" => /\ worker[w].term <= term
                                       /\ worker[w].claimed <= intent.requested
        /\ worker[w].phase = "source" => worker[w].dirty <= intent.dirty
        /\ Active(w) => /\ worker[w].run \in Runs
                        /\ worker[w].generation > 0
                        /\ worker[w].generation <= run[worker[w].run].generation

\* The running term has one worker.
OneWorkerPerTerm ==
    \A v, w \in Workers :
        (/\ worker[v].phase # "idle" /\ worker[v].term = term
         /\ worker[w].phase # "idle" /\ worker[w].term = term) => v = w

\* An attempt number is one worker's.
AttemptsExclusive ==
    \A v, w \in Workers :
        (/\ Active(v) /\ Active(w)
         /\ worker[v].run = worker[w].run
         /\ worker[v].generation = worker[w].generation) => v = w

\* Every claim of an open run was counted as an attempt, only the last one of
\* an ended run may not be; usage stays within what was claimed and reported,
\* and only a run that succeeded within its budget has a Candidate.
RunsCounted ==
    \A r \in Runs :
        /\ Live(r) => run[r].generation = run[r].attempts
        /\ run[r].generation <= run[r].attempts + 1
        /\ run[r].attempts <= MaxCalls
        /\ run[r].used <= run[r].attempts + run[r].surplus
        /\ run[r].used <= MaxCalls + MaxSurplus
        /\ run[r].request <= intent.requested
        /\ run[r].candidate # "none" => /\ run[r].status = "succeeded"
                                        /\ run[r].generation > 0
                                        /\ run[r].used <= MaxCalls

\* An attempt that has not called the model yet has its call left, and one whose
\* answer broke no contract is within the budget.
CallsLeft ==
    \A w \in Workers :
        LET row == run[worker[w].run]
        IN  Owned(w) => /\ worker[w].phase \in {"claimed", "preparing"}
                              => row.used < row.attempts + row.surplus
                        /\ worker[w].phase \in {"asked", "answered"}
                              => row.used <= MaxCalls

\* Runs are served in the order in which they were accepted: a run behind an
\* open one has not been claimed.
ServedInOrder ==
    \A q, r \in Runs :
        Live(r) /\ run[r].request < run[q].request => run[q].generation = 0

\* A worker that looks after the sources leaves a request for open runs.
SourcesLeaveRequests ==
    \A w \in Workers :
        worker[w].phase = "source" /\ (\E r \in Runs : Live(r))
            => worker[w].claimed < intent.requested

\* What the search for an earlier proposal found stays true in its term.
SearchesHold ==
    \A w \in Workers :
        Searching(w) /\ worker[w].term = term
            => ~ Reusable(worker[w].run, worker[w].print, worker[w].evidence)

\* Clean sources are never passed over; a worker has claimed a run below the
\* limit, or when no source had been passed over.
BypassCounted ==
    /\ ~ Dirty(intent) => bypass = 0
    /\ bypass <= streak
    /\ \A w \in Workers :
          Active(w) /\ worker[w].term = term => streak < YieldAfter \/ bypass = 0

\* The inductive invariant.
DreamInv ==
    /\ TypeOK /\ AbsentRowEmpty
    /\ WorkersKnown /\ OneWorkerPerTerm
    /\ AttemptsExclusive /\ RunsCounted /\ CallsLeft
    /\ NoStrandedRun /\ SourcesLeaveRequests
    /\ ServedInOrder /\ NoRepeatedProposal /\ SearchesHold
    /\ BypassCounted

--------------------------------------------------------------------------------
(* The row and the acknowledgement.                                        *)

\* A guarded worker has a claim that is open, on a registered row.
LEMMA GuardFacts ==
    ASSUME TypeOK, AbsentRowEmpty, NEW w \in Workers, Guard(w)
    PROVE  /\ worker[w].term = term
           /\ worker[w].claimed \in Nat
           /\ intent.handled < worker[w].claimed
           /\ worker[w].claimed <= intent.requested
           /\ Registered(intent)
<1>1. worker[w] \in WorkerRows /\ intent \in IntentRows
    BY DEF TypeOK
<1>2. worker[w].claimed \in Nat
    BY <1>1 DEF WorkerRows
<1>3. intent.requested > 0
    BY <1>1, <1>2, RowFacts DEF Guard
<1> QED
    BY <1>2, <1>3 DEF Guard, AbsentRowEmpty, Absent

\* A source marks the row dirty and nothing else.
LEMMA AddSourceFacts ==
    ASSUME TypeOK, AbsentRowEmpty, AddSource
    PROVE  /\ intent' \in IntentRows /\ Registered(intent')
           /\ intent'.requested = intent.requested
           /\ intent'.handled = intent.handled
           /\ intent'.dirty = intent.dirty + 1
           /\ intent'.clean = intent.clean
<1>1. intent \in IntentRows /\ intent' = MarkDirty(intent, 0, 1)
    BY DEF TypeOK, AddSource
<1> QED
    BY <1>1, MarkDirtyFacts DEF AbsentRowEmpty

\* Keeping open runs runnable accepts a request above the worker's claim, and
\* changes nothing else.
LEMMA KeepFacts ==
    ASSUME TypeOK, AbsentRowEmpty, NEW w \in Workers, Guard(w), NEW left \in BOOLEAN
    PROVE  LET row == KeepRunnable(intent, w, left)
           IN  /\ row \in IntentRows
               /\ Registered(row)
               /\ row.dirty = intent.dirty /\ row.clean = intent.clean
               /\ row.handled = intent.handled
               /\ row.requested >= intent.requested
               /\ left => row.requested > worker[w].claimed
<1>1. intent \in IntentRows
    BY DEF TypeOK
<1> DEFINE more == AcceptRequest(intent, 0)
<1>2. /\ more \in IntentRows /\ Registered(more)
      /\ more.dirty = intent.dirty /\ more.clean = intent.clean
      /\ more.handled = intent.handled /\ more.requested = intent.requested + 1
    BY <1>1, AcceptRequestFacts DEF AbsentRowEmpty
<1> HIDE DEF more
<1>3. KeepRunnable(intent, w, left) =
          IF left /\ intent.requested = worker[w].claimed THEN more ELSE intent
    BY DEF KeepRunnable, more
<1> QED
    BY <1>1, <1>2, <1>3, GuardFacts, RowFacts

\* An open run after the step.
LiveNext(r) == run'[r].status \in {"queued", "running"}

\* _complete_invocation() acknowledges the claim, leaves the sources' progress
\* alone, and leaves a pending request if runs are open.
LEMMA CompleteFacts ==
    ASSUME TypeOK, AbsentRowEmpty, NEW w \in Workers, Guard(w), CompleteInvocation(w)
    PROVE  /\ intent' \in IntentRows
           /\ Registered(intent')
           /\ intent'.dirty = intent.dirty /\ intent'.clean = intent.clean
           /\ intent'.handled = worker[w].claimed
           /\ intent'.requested >= intent.requested
           /\ (\E r \in Runs : LiveNext(r)) => intent'.requested > worker[w].claimed
           /\ worker' = [worker EXCEPT ![w] = Idle]
           /\ streak' = NextStreak(streak)
           /\ bypass' = IF Dirty(intent) THEN bypass + 1 ELSE bypass
<1> DEFINE left == \E r \in Runs : run'[r].status \in {"queued", "running"}
           row == KeepRunnable(intent, w, left)
<1>1. /\ intent' = Acknowledge(row, worker[w].claimed, 0)
      /\ worker' = [worker EXCEPT ![w] = Idle]
      /\ streak' = NextStreak(streak)
      /\ bypass' = IF Dirty(intent) THEN bypass + 1 ELSE bypass
    BY DEF CompleteInvocation
<1>2. left \in BOOLEAN /\ (left <=> \E r \in Runs : LiveNext(r))
    BY DEF LiveNext
<1> HIDE DEF left
<1>3. /\ row \in IntentRows /\ Registered(row)
      /\ row.dirty = intent.dirty /\ row.clean = intent.clean
      /\ row.handled = intent.handled
      /\ row.requested >= intent.requested
      /\ left => row.requested > worker[w].claimed
    BY <1>2, KeepFacts
<1> HIDE DEF row
<1>4. /\ worker[w].claimed \in Nat /\ row.handled < worker[w].claimed
      /\ AcknowledgeAllowed(row, worker[w].claimed, 0)
    BY <1>3, GuardFacts, RowFacts DEF AcknowledgeAllowed, TypeOK
<1>5. /\ intent' \in IntentRows
      /\ intent'.seq = row.seq
      /\ intent'.dirty = row.dirty
      /\ intent'.clean = IF 0 > row.clean THEN 0 ELSE row.clean
      /\ intent'.requested = row.requested
      /\ intent'.handled = worker[w].claimed
    BY <1>1, <1>3, <1>4, AcknowledgeFacts
<1> QED
    BY <1>1, <1>2, <1>3, <1>5, RowFacts DEF Registered

\* The source pass acknowledges the claim, and the sources it saw at most.
LEMMA SourcePassFacts ==
    ASSUME TypeOK, AbsentRowEmpty, NEW w \in Workers, NEW b \in BOOLEAN,
           worker[w].dirty <= intent.dirty, SourcePass(w, b)
    PROVE  /\ intent' \in IntentRows
           /\ Registered(intent')
           /\ intent'.dirty = intent.dirty
           /\ intent'.handled = worker[w].claimed
           /\ intent'.requested = intent.requested
<1>1. Guard(w) /\ intent \in IntentRows /\ worker[w].dirty \in Nat
    BY DEF SourcePass, TypeOK, WorkerRows
<1> DEFINE to == IF b THEN 0 ELSE worker[w].dirty
<1>2. /\ intent' = Acknowledge(intent, worker[w].claimed, to)
      /\ to \in Nat /\ to <= intent.dirty
    BY <1>1, RowFacts DEF SourcePass
<1> HIDE DEF to
<1>3. /\ worker[w].claimed \in Nat /\ intent.handled < worker[w].claimed
      /\ AcknowledgeAllowed(intent, worker[w].claimed, to)
    BY <1>1, <1>2, GuardFacts DEF AcknowledgeAllowed
<1> QED
    BY <1>1, <1>2, <1>3, GuardFacts, AcknowledgeFacts DEF Registered

--------------------------------------------------------------------------------
(* Types.                                                                  *)

\* A row that one worker holds while the others keep theirs.
LEMMA IdleRow == Idle \in WorkerRows /\ NoRun \in RunRows
BY DEF Idle, WorkerRows, NoRun, RunRows

\* The types of single rows.
LEMMA RowTypes ==
    ASSUME TypeOK
    PROVE  /\ \A w \in Workers :
                 /\ worker[w] \in WorkerRows
                 /\ worker[w].term \in Nat /\ worker[w].claimed \in Nat
                 /\ worker[w].dirty \in Nat /\ worker[w].generation \in Nat
           /\ \A r \in Runs :
                 /\ run[r] \in RunRows
                 /\ run[r].request \in Nat /\ run[r].generation \in Nat
                 /\ run[r].attempts \in Nat /\ run[r].used \in Nat
                 /\ run[r].surplus \in Nat
           /\ intent \in IntentRows
           /\ intent.requested \in Nat /\ intent.handled \in Nat
           /\ intent.dirty \in Nat /\ intent.clean \in Nat
           /\ term \in Nat /\ streak \in Nat
BY RowFacts, DreamBounds DEF TypeOK, WorkerRows, RunRows

Base == TypeOK /\ AbsentRowEmpty /\ WorkersKnown

\* Nobody has asked, and nobody works.
LEMMA InitBase == Init => Base
BY AbsentFacts, IdleRow, DreamBounds
DEF Init, Base, TypeOK, AbsentRowEmpty, WorkersKnown, Active, Idle

\* The limits one by one.
LEMMA BoundsFacts ==
    /\ MaxCalls \in Nat /\ MaxCalls > 0
    /\ YieldAfter \in Nat /\ YieldAfter > 0
    /\ MaxTerm \in Nat /\ MaxTerm > 0
    /\ MaxSurplus \in Nat
BY DreamBounds

\* The streak is capped.
LEMMA StreakFacts ==
    ASSUME NEW n \in 0..YieldAfter
    PROVE  /\ NextStreak(n) \in 0..YieldAfter
           /\ n < YieldAfter => NextStreak(n) = n + 1
           /\ n = YieldAfter => NextStreak(n) = YieldAfter
BY BoundsFacts DEF NextStreak

\* No transaction writes a row of a wrong shape, forgets an accepted request
\* or takes back the number of an attempt.
LEMMA NextBase == Base /\ [Next]_vars => Base'
<1> SUFFICES ASSUME Base, [Next]_vars
             PROVE  Base'
    OBVIOUS
<1>t. TypeOK /\ AbsentRowEmpty /\ WorkersKnown
    BY DEF Base
<1> USE <1>t, RowTypes, IdleRow
<1> USE DEF Base, WorkersKnown, Active
<1>1. ASSUME NEW r \in Runs, NEW p \in Principals, Create(r, p) PROVE Base'
    <2>1. /\ intent' \in IntentRows /\ Registered(intent')
          /\ intent'.requested = intent.requested + 1
          /\ intent'.dirty = intent.dirty
        BY <1>1, AcceptRequestFacts DEF Create, AbsentRowEmpty
    <2>2. run' \in [Runs -> RunRows]
        BY <1>1, <2>1, RowFacts DEF Create, TypeOK, RunRows, NoRun
    <2>3. \A q \in Runs : run'[q].generation = run[q].generation
        BY <1>1 DEF Create, TypeOK, NoRun
    <2> QED
        BY <1>1, <2>1, <2>2, <2>3 DEF Create, TypeOK, AbsentRowEmpty
<1>2. CASE AddSource
    <2>1. /\ intent' \in IntentRows /\ Registered(intent')
          /\ intent'.requested = intent.requested
          /\ intent'.dirty = intent.dirty + 1
        BY <1>2, AddSourceFacts
    <2> QED
        BY <1>2, <2>1 DEF AddSource, TypeOK, AbsentRowEmpty
<1>3. CASE RequestSources
    <2>1. /\ intent' \in IntentRows /\ Registered(intent')
          /\ intent'.requested = intent.requested + 1
          /\ intent'.dirty = intent.dirty
        BY <1>3, AcceptRequestFacts DEF RequestSources, AbsentRowEmpty
    <2> QED
        BY <1>3, <2>1 DEF RequestSources, TypeOK, AbsentRowEmpty
<1>4. CASE EndTerm
    BY <1>4, DreamBounds DEF EndTerm, TypeOK, AbsentRowEmpty
<1>5. ASSUME NEW r \in Runs, NEW d \in {"approved", "rejected", "edited"},
             Review(r, d)
      PROVE  Base'
    <2>1. run' \in [Runs -> RunRows]
        BY <1>5 DEF Review, TypeOK, RunRows
    <2>2. \A q \in Runs : run'[q].generation = run[q].generation
        BY <1>5 DEF Review, TypeOK, RunRows
    <2> QED
        BY <1>5, <2>1, <2>2 DEF Review, TypeOK, AbsentRowEmpty
<1>6. ASSUME NEW w \in Workers, Dispatch(w) PROVE Base'
    <2>1. worker' \in [Workers -> WorkerRows]
        BY <1>6 DEF Dispatch, TypeOK, WorkerRows, Idle
    <2> QED
        BY <1>6, <2>1 DEF Dispatch, TypeOK, AbsentRowEmpty, Idle
<1>7. ASSUME NEW w \in Workers, PassToSources(w) PROVE Base'
    <2>1. worker' \in [Workers -> WorkerRows]
        <3> DEFINE row == [worker[w] EXCEPT !.phase = "source", !.dirty = intent.dirty]
        <3>1. worker' = [worker EXCEPT ![w] = row]
            BY <1>7 DEF PassToSources, TypeOK, WorkerRows
        <3>2. row \in WorkerRows
            BY DEF WorkerRows
        <3> HIDE DEF row
        <3> QED
            BY <3>1, <3>2 DEF TypeOK
    <2> QED
        BY <1>7, <2>1 DEF PassToSources, TypeOK, AbsentRowEmpty, WorkerRows
<1>8. ASSUME NEW w \in Workers, Yield(w) PROVE Base'
    <2>1. worker' \in [Workers -> WorkerRows]
        <3> DEFINE row == [worker[w] EXCEPT !.phase = "source", !.dirty = intent.dirty]
        <3>1. worker' = [worker EXCEPT ![w] = row]
            BY <1>8 DEF Yield, TypeOK, WorkerRows
        <3>2. row \in WorkerRows
            BY DEF WorkerRows
        <3> HIDE DEF row
        <3> QED
            BY <3>1, <3>2 DEF TypeOK
    <2>2. /\ intent' \in IntentRows /\ Registered(intent')
          /\ intent'.requested >= intent.requested
          /\ intent'.requested \in Nat
          /\ intent'.dirty = intent.dirty
        BY <1>8, KeepFacts, RowFacts DEF Yield
    <2> QED
        <3>1. TypeOK' /\ AbsentRowEmpty'
            BY <1>8, <2>1, <2>2 DEF Yield, TypeOK, AbsentRowEmpty
        <3>2. /\ worker' = [worker EXCEPT ![w].phase = "source", ![w].dirty = intent.dirty]
              /\ worker[w].phase = "assigned"
              /\ UNCHANGED <<term, run>>
            BY <1>8 DEF Yield
        <3> QED
            BY <2>2, <3>1, <3>2 DEF TypeOK, WorkerRows
<1>c. ASSUME NEW w \in Workers, Guard(w), CompleteInvocation(w),
             run' \in [Runs -> RunRows], UNCHANGED term,
             \A q \in Runs : run'[q].generation >= run[q].generation
      PROVE  Base'
    <2>1. /\ intent' \in IntentRows /\ Registered(intent')
          /\ intent'.requested >= intent.requested
          /\ intent'.requested \in Nat
          /\ intent'.dirty = intent.dirty
          /\ worker' = [worker EXCEPT ![w] = Idle]
          /\ streak' = NextStreak(streak)
          /\ bypass' \in Nat
        BY <1>c, CompleteFacts, RowFacts DEF TypeOK
    <2>2. worker' \in [Workers -> WorkerRows]
        BY <2>1 DEF TypeOK
    <2>3. streak' \in 0..YieldAfter
        BY <2>1, StreakFacts DEF TypeOK
    <2>4. \A q \in Runs : run'[q].generation \in Nat
        BY <1>c DEF RunRows
    <2>5. TypeOK' /\ AbsentRowEmpty'
        BY <1>c, <2>1, <2>2, <2>3 DEF TypeOK, AbsentRowEmpty
    <2> QED
        BY <1>c, <2>1, <2>2, <2>4, <2>5 DEF Idle
<1>9. ASSUME NEW w \in Workers, NEW late \in BOOLEAN, Claim(w, late) PROVE Base'
    <2>1. PICK r \in NextPending(worker[w].claimed) :
              IF late \/ Exhausted(r)
              THEN /\ run' = [run EXCEPT ![r].status = "failed",
                                         ![r].generation = @ + 1]
                   /\ CompleteInvocation(w)
              ELSE /\ run' = [run EXCEPT ![r].status = "running",
                                         ![r].generation = @ + 1,
                                         ![r].attempts = @ + 1]
                   /\ worker' = [worker EXCEPT ![w].phase = "claimed", ![w].run = r,
                                               ![w].generation = run'[r].generation]
                   /\ UNCHANGED <<intent, streak, bypass>>
        BY <1>9 DEF Claim
    <2>2. r \in Runs /\ Guard(w) /\ UNCHANGED term
        BY <1>9 DEF NextPending, Claim
    <2>3. CASE late \/ Exhausted(r)
        <3>1. run' \in [Runs -> RunRows]
            BY <2>1, <2>2, <2>3 DEF TypeOK, RunRows
        <3>2. \A q \in Runs : run'[q].generation >= run[q].generation
            BY <2>1, <2>2, <2>3 DEF TypeOK, RunRows
        <3> QED
            BY <1>c, <2>1, <2>2, <2>3, <3>1, <3>2
    <2>4. CASE ~ (late \/ Exhausted(r))
        <3>1. run' \in [Runs -> RunRows]
            BY <2>1, <2>2, <2>4 DEF TypeOK, RunRows
        <3>2. /\ run'[r].generation = run[r].generation + 1
              /\ \A q \in Runs : run'[q].generation >= run[q].generation
            BY <2>1, <2>2, <2>4 DEF TypeOK, RunRows
        <3>3. worker' \in [Workers -> WorkerRows]
            BY <2>1, <2>2, <2>4, <3>2 DEF TypeOK, WorkerRows
        <3>4. TypeOK' /\ AbsentRowEmpty'
            BY <2>1, <2>2, <2>4, <3>1, <3>3 DEF TypeOK, AbsentRowEmpty
        <3>5. \A q \in Runs : run'[q].generation \in Nat
            BY <3>1 DEF RunRows
        <3> QED
            BY <1>9, <2>1, <2>2, <2>4, <3>2, <3>4, <3>5 DEF Claim, TypeOK, WorkerRows
    <2> QED
        BY <2>3, <2>4
<1>10. ASSUME NEW w \in Workers, NEW f \in Prints, NEW e \in SUBSET References,
              Reuse(w, f, e)
       PROVE  Base'
    <2>1. worker[w].run \in Runs /\ Guard(w) /\ CompleteInvocation(w) /\ UNCHANGED term
        BY <1>10 DEF Reuse
    <2>2. run' \in [Runs -> RunRows]
        <3> DEFINE r == worker[w].run
                   row == [run[r] EXCEPT !.status = "succeeded", !.print = f,
                                         !.evidence = e]
        <3>1. run' = [run EXCEPT ![r] = row]
            BY <1>10, <2>1 DEF Reuse, TypeOK, RunRows
        <3>2. row \in RunRows
            BY <2>1 DEF RunRows
        <3> HIDE DEF row
        <3> QED
            BY <2>1, <3>1, <3>2 DEF TypeOK
    <2>3. \A q \in Runs : run'[q].generation >= run[q].generation
        BY <1>10, <2>1 DEF Reuse, TypeOK, RunRows
    <2> QED
        BY <1>c, <2>1, <2>2, <2>3
<1>11. ASSUME NEW w \in Workers, NEW f \in Prints, NEW e \in SUBSET References,
              NoReuse(w, f, e)
       PROVE  Base'
    <2>1. worker' \in [Workers -> WorkerRows]
        <3> DEFINE row == [worker[w] EXCEPT !.phase = "preparing", !.print = f,
                                            !.evidence = e]
        <3>1. worker' = [worker EXCEPT ![w] = row]
            BY <1>11 DEF NoReuse, TypeOK, WorkerRows
        <3>2. row \in WorkerRows
            BY DEF WorkerRows
        <3> HIDE DEF row
        <3> QED
            BY <3>1, <3>2 DEF TypeOK
    <2> QED
        BY <1>11, <2>1 DEF NoReuse, TypeOK, AbsentRowEmpty, WorkerRows
<1>12. ASSUME NEW w \in Workers, CallModel(w) PROVE Base'
    <2>1. worker[w].run \in Runs /\ worker[w] \in WorkerRows
        BY <1>12 DEF CallModel
    <2>2. run' \in [Runs -> RunRows]
        <3>1. /\ run' = [run EXCEPT ![worker[w].run].used = @ + 1,
                                    ![worker[w].run].print = worker[w].print,
                                    ![worker[w].run].evidence = worker[w].evidence]
              /\ worker[w].print \in Prints \cup {"none"}
              /\ worker[w].evidence \in SUBSET References
            BY <1>12, <2>1 DEF CallModel, WorkerRows
        <3> QED
            BY <2>1, <3>1 DEF TypeOK, RunRows
    <2>4. worker' \in [Workers -> WorkerRows]
        BY <1>12 DEF CallModel, TypeOK, WorkerRows
    <2>3. \A q \in Runs : run'[q].generation = run[q].generation
        BY <1>12, <2>1 DEF CallModel, TypeOK, RunRows
    <2> QED
        BY <1>12, <2>2, <2>3, <2>4 DEF CallModel, TypeOK, AbsentRowEmpty, WorkerRows
<1>u. ASSUME NEW w \in Workers, NEW n \in 0..MaxSurplus, RecordUsage(w, n) PROVE Base'
    <2>1. worker[w].run \in Runs /\ n \in Nat
        BY <1>u, BoundsFacts DEF RecordUsage
    <2>2. run' \in [Runs -> RunRows]
        <3>1. run' = [run EXCEPT ![worker[w].run].used = @ + n,
                                 ![worker[w].run].surplus = @ + n]
            BY <1>u DEF RecordUsage
        <3> QED
            BY <2>1, <3>1 DEF TypeOK, RunRows
    <2>4. worker' \in [Workers -> WorkerRows]
        BY <1>u DEF RecordUsage, TypeOK, WorkerRows
    <2>3. \A q \in Runs : run'[q].generation = run[q].generation
        BY <1>u, <2>1 DEF RecordUsage, TypeOK, RunRows
    <2> QED
        BY <1>u, <2>2, <2>3, <2>4 DEF RecordUsage, TypeOK, AbsentRowEmpty, WorkerRows
<1>13. ASSUME NEW w \in Workers, NEW c \in {"pending", "none"},
              NEW cites \in SUBSET References, Succeed(w, c, cites)
       PROVE  Base'
    <2>1. /\ worker[w].run \in Runs /\ Guard(w) /\ CompleteInvocation(w) /\ UNCHANGED term
          /\ worker[w].print \in Prints \cup {"none"}
          /\ worker[w].evidence \in SUBSET References
        BY <1>13 DEF Succeed, WorkerRows
    <2>2. run' \in [Runs -> RunRows]
        <3> DEFINE r == worker[w].run
                   row == [run[r] EXCEPT !.status = "succeeded", !.print = worker[w].print,
                                         !.evidence = worker[w].evidence,
                                         !.candidate = c, !.cites = cites]
        <3>1. run' = [run EXCEPT ![r] = row]
            BY <1>13, <2>1 DEF Succeed, TypeOK, RunRows
        <3>2. row \in RunRows
            BY <2>1 DEF RunRows
        <3> HIDE DEF row
        <3> QED
            BY <2>1, <3>1, <3>2 DEF TypeOK
    <2>3. \A q \in Runs : run'[q].generation >= run[q].generation
        BY <1>13, <2>1 DEF Succeed, TypeOK, RunRows
    <2> QED
        BY <1>c, <2>1, <2>2, <2>3
<1>14. ASSUME NEW w \in Workers, NEW again \in BOOLEAN, FailOrRetry(w, again)
       PROVE  Base'
    <2>1. worker[w].run \in Runs /\ Guard(w) /\ CompleteInvocation(w) /\ UNCHANGED term
        BY <1>14 DEF FailOrRetry
    <2>2. run' \in [Runs -> RunRows]
        <3> DEFINE r == worker[w].run
                   new == IF again /\ run[r].attempts < MaxCalls THEN "queued" ELSE "failed"
        <3>1. run' = [run EXCEPT ![r].status = new] /\ run \in [Runs -> RunRows]
            BY <1>14 DEF FailOrRetry, TypeOK
        <3>2. r \in Runs /\ new \in {"queued", "failed"}
            BY <2>1
        <3> HIDE DEF r, new
        <3> QED
            BY ONLY <3>1, <3>2 DEF RunRows
    <2>3. \A q \in Runs : run'[q].generation >= run[q].generation
        BY <1>14, <2>1 DEF FailOrRetry, TypeOK, RunRows
    <2> QED
        BY <1>c, <2>1, <2>2, <2>3
<1>15. ASSUME NEW w \in Workers, NEW b \in BOOLEAN, SourcePass(w, b) PROVE Base'
    <2>1. worker[w].dirty <= intent.dirty
        BY <1>15 DEF SourcePass
    <2>2. /\ intent' \in IntentRows /\ Registered(intent')
          /\ intent'.dirty = intent.dirty
          /\ intent'.requested = intent.requested
        BY <1>15, <2>1, SourcePassFacts
    <2>3. worker' \in [Workers -> WorkerRows] /\ streak' \in 0..YieldAfter
        BY <1>15, DreamBounds DEF SourcePass, TypeOK
    <2> QED
        BY <1>15, <2>2, <2>3 DEF SourcePass, TypeOK, AbsentRowEmpty, Idle
<1>16. ASSUME NEW w \in Workers, Refused(w) PROVE Base'
    BY <1>16 DEF Refused, TypeOK, AbsentRowEmpty, Idle
<1>17. ASSUME NEW w \in Workers, Crash(w) PROVE Base'
    BY <1>17 DEF Crash, TypeOK, AbsentRowEmpty, Idle
<1>18. CASE UNCHANGED vars
    BY <1>18 DEF vars, TypeOK, AbsentRowEmpty
<1> QED
    BY <1>1, <1>2, <1>3, <1>4, <1>5, <1>6, <1>7, <1>8, <1>9, <1>10, <1>11,
       <1>12, <1>u, <1>13, <1>14, <1>15, <1>16, <1>17, <1>18
    DEF Next, Propose, ProposeNothing

\* Every row keeps its shape: the budget of attempts, the capped streak and the
\* terms stay in their ranges.
THEOREM TypeCorrect == Spec => []TypeOK
<1>1. Base => TypeOK
    BY DEF Base
<1> QED
    BY InitBase, NextBase, <1>1, PTL DEF Spec

--------------------------------------------------------------------------------
(* Steps.  A transaction by which a worker concludes its attempt changes   *)
(* one run, acknowledges the claim and frees the worker's slot.            *)

Concluded(w, r, row) ==
    /\ Guard(w)
    /\ CompleteInvocation(w)
    /\ run' = [run EXCEPT ![r] = row]
    /\ UNCHANGED term

\* No open run was accepted before r.
Oldest(r) == Live(r) /\ \A q \in Runs : Live(q) => ~ (run[q].request < run[r].request)

\* claim() that counts an attempt.
Counted(w, r) ==
    /\ worker[w].phase = "assigned"
    /\ Guard(w)
    /\ ~ YieldToSources
    /\ ~ Exhausted(r)
    /\ Oldest(r)
    /\ run' = [run EXCEPT ![r] = [run[r] EXCEPT !.status = "running",
                                                !.generation = run[r].generation + 1,
                                                !.attempts = run[r].attempts + 1]]
    /\ worker' = [worker EXCEPT ![w] =
                     [worker[w] EXCEPT !.phase = "claimed", !.run = r,
                                       !.generation = run[r].generation + 1]]
    /\ UNCHANGED <<term, intent, streak, bypass>>

\* claim() that ends the run instead.
Spent(w, r) ==
    /\ worker[w].phase = "assigned"
    /\ ~ YieldToSources
    /\ Oldest(r)
    /\ Concluded(w, r, [run[r] EXCEPT !.status = "failed",
                                      !.generation = run[r].generation + 1])

\* The two outcomes of claim().
LEMMA ClaimKinds ==
    ASSUME Base, NEW w \in Workers, NEW late \in BOOLEAN, Claim(w, late)
    PROVE  \E r \in Runs : Counted(w, r) \/ Spent(w, r)
<1>1. PICK r \in NextPending(worker[w].claimed) :
          IF late \/ Exhausted(r)
          THEN /\ run' = [run EXCEPT ![r].status = "failed",
                                     ![r].generation = @ + 1]
               /\ CompleteInvocation(w)
          ELSE /\ run' = [run EXCEPT ![r].status = "running",
                                     ![r].generation = @ + 1,
                                     ![r].attempts = @ + 1]
               /\ worker' = [worker EXCEPT ![w].phase = "claimed", ![w].run = r,
                                           ![w].generation = run'[r].generation]
               /\ UNCHANGED <<intent, streak, bypass>>
    BY DEF Claim
<1>2. /\ r \in Runs /\ Oldest(r) /\ Guard(w) /\ UNCHANGED term
      /\ worker[w].phase = "assigned" /\ ~ YieldToSources
    <2>1. /\ r \in Runs /\ Live(r) /\ run[r].request <= worker[w].claimed
          /\ \A q \in Runs : Live(q) /\ run[q].request <= worker[w].claimed
                                => run[r].request <= run[q].request
        BY DEF NextPending
    <2>2. /\ worker[w].claimed \in Nat
          /\ \A q \in Runs : run[q].request \in Nat
        BY RowTypes DEF Base
    <2>3. Oldest(r)
        BY <2>1, <2>2 DEF Oldest
    <2> QED
        BY <2>1, <2>3 DEF Claim
<1>3. run \in [Runs -> RunRows] /\ worker \in [Workers -> WorkerRows]
    BY DEF Base, TypeOK
<1>4. CASE late \/ Exhausted(r)
    <2>1. run' = [run EXCEPT ![r] = [run[r] EXCEPT !.status = "failed",
                                          !.generation = run[r].generation + 1]]
        BY <1>1, <1>2, <1>3, <1>4 DEF RunRows
    <2>2. Spent(w, r)
        BY <1>1, <1>2, <1>4, <2>1 DEF Spent, Concluded
    <2> QED
        BY <1>2, <2>2
<1>5. CASE ~ (late \/ Exhausted(r))
    <2>1. run' = [run EXCEPT ![r] = [run[r] EXCEPT !.status = "running",
                                          !.generation = run[r].generation + 1,
                                          !.attempts = run[r].attempts + 1]]
        BY <1>1, <1>2, <1>3, <1>5 DEF RunRows
    <2>2. run'[r].generation = run[r].generation + 1
        BY <1>2, <1>3, <2>1 DEF RunRows
    <2>3. worker' = [worker EXCEPT ![w] =
                        [worker[w] EXCEPT !.phase = "claimed", !.run = r,
                                          !.generation = run[r].generation + 1]]
        BY <1>1, <1>3, <1>5, <2>2 DEF WorkerRows
    <2>4. Counted(w, r)
        BY <1>1, <1>2, <1>5, <2>1, <2>3 DEF Counted
    <2> QED
        BY <1>2, <2>4
<1> QED
    BY <1>4, <1>5

\* The row of a run that an attempt ends, or queues again.
Outcome(w, row) ==
    LET r == worker[w].run
    IN  /\ row \in RunRows
        /\ row.principal = run[r].principal /\ row.request = run[r].request
        /\ row.generation = run[r].generation /\ row.attempts = run[r].attempts
        /\ row.used = run[r].used /\ row.surplus = run[r].surplus
        /\ row.status \in {"queued", "succeeded", "failed"}

\* The row has a Candidate, which comes only from a commit that follows the
\* search, with the fingerprint and the evidence that were searched for.
Proposal(w, row) ==
    /\ worker[w].phase = "answered"
    /\ row.candidate = "pending" /\ row.status = "succeeded"
    /\ row.print = worker[w].print /\ row.evidence = worker[w].evidence

\* The transactions that conclude an attempt: its worker held the run's newest
\* attempt.
Finished(w) ==
    LET r == worker[w].run
    IN  /\ r \in Runs
        /\ Active(w) /\ Owned(w)
        /\ \E row \in RunRows :
              /\ Concluded(w, r, row)
              /\ Outcome(w, row)
              /\ row.candidate \in {run[r].candidate, "none"} \/ Proposal(w, row)

\* Reuse, commit and failure are such conclusions.
LEMMA FinishedKinds ==
    ASSUME Base, NEW w \in Workers,
           \/ \E f \in Prints, e \in SUBSET References : Reuse(w, f, e)
           \/ \E c \in {"pending", "none"}, cites \in SUBSET References :
                  Succeed(w, c, cites)
           \/ \E b \in BOOLEAN : FailOrRetry(w, b)
    PROVE  Finished(w)
<1> DEFINE r == worker[w].run
<1>1. Active(w) /\ Owned(w) /\ Guard(w) /\ CompleteInvocation(w) /\ UNCHANGED term
    BY DEF Reuse, Succeed, FailOrRetry, Active
<1>2. /\ r \in Runs /\ run \in [Runs -> RunRows] /\ run[r] \in RunRows
      /\ worker[w].print \in Prints \cup {"none"}
      /\ worker[w].evidence \in SUBSET References
    BY <1>1, RowTypes DEF Base, WorkersKnown, TypeOK, WorkerRows
<1>3. ASSUME NEW f \in Prints, NEW e \in SUBSET References, Reuse(w, f, e)
      PROVE  Finished(w)
    <2> DEFINE row == [run[r] EXCEPT !.status = "succeeded", !.print = f, !.evidence = e]
    <2>1. run' = [run EXCEPT ![r] = row]
        BY <1>2, <1>3 DEF Reuse, RunRows
    <2>2. row \in RunRows /\ Outcome(w, row) /\ row.candidate = run[r].candidate
        BY <1>2 DEF RunRows, Outcome
    <2> HIDE DEF row
    <2> QED
        BY <1>1, <1>2, <2>1, <2>2 DEF Finished, Concluded
<1>4. ASSUME NEW c \in {"pending", "none"}, NEW cites \in SUBSET References,
             Succeed(w, c, cites)
      PROVE  Finished(w)
    <2> DEFINE row == [run[r] EXCEPT !.status = "succeeded", !.print = worker[w].print,
                                     !.evidence = worker[w].evidence,
                                     !.candidate = c, !.cites = cites]
    <2>1. run' = [run EXCEPT ![r] = row]
        BY <1>2, <1>4 DEF Succeed, RunRows
    <2>2. /\ row \in RunRows /\ Outcome(w, row)
          /\ row.candidate = c /\ row.status = "succeeded"
          /\ row.print = worker[w].print /\ row.evidence = worker[w].evidence
        BY <1>2 DEF RunRows, Outcome
    <2>3. worker[w].phase = "answered"
        BY <1>4 DEF Succeed
    <2> HIDE DEF row
    <2>4. row.candidate = "none" \/ Proposal(w, row)
        BY <2>2, <2>3 DEF Proposal
    <2> QED
        BY <1>1, <1>2, <2>1, <2>2, <2>4 DEF Finished, Concluded
<1>5. ASSUME NEW b \in BOOLEAN, FailOrRetry(w, b) PROVE Finished(w)
    <2> DEFINE new == IF b /\ run[r].attempts < MaxCalls THEN "queued" ELSE "failed"
               row == [run[r] EXCEPT !.status = new]
    <2>0. new \in {"queued", "failed"}
        OBVIOUS
    <2>1. run' = [run EXCEPT ![r] = row]
        BY <1>2, <1>5 DEF FailOrRetry, RunRows
    <2> HIDE DEF new
    <2>2. row \in RunRows /\ Outcome(w, row) /\ row.candidate = run[r].candidate
        BY <1>2, <2>0 DEF RunRows, Outcome
    <2> HIDE DEF row
    <2> QED
        BY <1>1, <1>2, <2>1, <2>2 DEF Finished, Concluded
<1> QED
    BY <1>3, <1>4, <1>5

\* The search finds nothing, and the usage of an answer is recorded, for some
\* fingerprint and evidence, and some number of requests.
SearchFails(w) == \E f \in Prints, e \in SUBSET References : NoReuse(w, f, e)

UsageRecorded(w) == \E n \in 0..MaxSurplus : RecordUsage(w, n)

\* A transaction within an attempt: the worker keeps its assignment, and its run
\* everything but the usage and what the attempt is about.
Continued(w) ==
    LET r == worker[w].run
    IN  /\ r \in Runs /\ Active(w) /\ Owned(w)
        /\ UNCHANGED <<term, intent, streak, bypass>>
        /\ \A q \in Runs \ {r} : run'[q] = run[q]
        /\ run'[r].status = run[r].status /\ run'[r].principal = run[r].principal
        /\ run'[r].request = run[r].request /\ run'[r].generation = run[r].generation
        /\ run'[r].attempts = run[r].attempts /\ run'[r].candidate = run[r].candidate
        /\ \A v \in Workers \ {w} : worker'[v] = worker[v]
        /\ worker'[w].phase \in {"preparing", "asked", "answered", "exceeded"}
        /\ worker'[w].term = worker[w].term /\ worker'[w].run = r
        /\ worker'[w].generation = worker[w].generation

\* A search that fails is such a transaction.
LEMMA SearchFacts ==
    ASSUME Base, NEW w \in Workers, SearchFails(w)
    PROVE  Continued(w)
<1>1. PICK f \in Prints, e \in SUBSET References : NoReuse(w, f, e)
    BY DEF SearchFails
<1>2. run \in [Runs -> RunRows] /\ worker \in [Workers -> WorkerRows]
    BY DEF Base, TypeOK
<1>3. /\ Active(w) /\ Owned(w) /\ UNCHANGED <<term, intent, streak, run, bypass>>
      /\ worker' = [worker EXCEPT ![w].phase = "preparing", ![w].print = f,
                                  ![w].evidence = e]
    BY <1>1 DEF NoReuse, Active
<1>4. worker[w].run \in Runs
    BY <1>3 DEF Base, WorkersKnown
<1>5. /\ \A v \in Workers \ {w} : worker'[v] = worker[v]
      /\ worker'[w].phase = "preparing" /\ worker'[w].term = worker[w].term
      /\ worker'[w].run = worker[w].run
      /\ worker'[w].generation = worker[w].generation
    BY <1>2, <1>3 DEF WorkerRows
<1> QED
    BY <1>3, <1>4, <1>5 DEF Continued

\* So is a model call, which adds one to the usage.
LEMMA CallFacts ==
    ASSUME Base, NEW w \in Workers, CallModel(w)
    PROVE  LET r == worker[w].run
           IN  /\ Continued(w)
               /\ worker[w].phase = "preparing" /\ worker'[w].phase = "asked"
               /\ run[r].used < MaxCalls
               /\ run'[r].used = run[r].used + 1 /\ run'[r].surplus = run[r].surplus
               /\ worker'[w].print = worker[w].print
               /\ worker'[w].evidence = worker[w].evidence
<1> DEFINE r == worker[w].run
<1>1. run \in [Runs -> RunRows] /\ worker \in [Workers -> WorkerRows]
    BY DEF Base, TypeOK
<1>2. /\ Active(w) /\ Owned(w) /\ UNCHANGED <<term, intent, streak, bypass>>
      /\ worker[w].phase = "preparing" /\ run[r].used < MaxCalls
      /\ run' = [run EXCEPT ![r].used = @ + 1, ![r].print = worker[w].print,
                            ![r].evidence = worker[w].evidence]
      /\ worker' = [worker EXCEPT ![w].phase = "asked"]
    BY DEF CallModel, Active
<1>3. r \in Runs
    BY <1>2 DEF Base, WorkersKnown
<1>4. /\ \A q \in Runs \ {r} : run'[q] = run[q]
      /\ run'[r].status = run[r].status /\ run'[r].principal = run[r].principal
      /\ run'[r].request = run[r].request /\ run'[r].generation = run[r].generation
      /\ run'[r].attempts = run[r].attempts /\ run'[r].candidate = run[r].candidate
      /\ run'[r].used = run[r].used + 1 /\ run'[r].surplus = run[r].surplus
    BY <1>1, <1>2, <1>3 DEF RunRows
<1>5. /\ \A v \in Workers \ {w} : worker'[v] = worker[v]
      /\ worker'[w].phase = "asked" /\ worker'[w].term = worker[w].term
      /\ worker'[w].run = r /\ worker'[w].generation = worker[w].generation
      /\ worker'[w].print = worker[w].print
      /\ worker'[w].evidence = worker[w].evidence
    BY <1>1, <1>2 DEF WorkerRows
<1> HIDE DEF r
<1>6. Continued(w)
    BY <1>2, <1>3, <1>4, <1>5 DEF Continued, r
<1> QED
    BY <1>2, <1>4, <1>5, <1>6 DEF r

\* And so is the record of an answer's usage, which adds what was reported, and
\* lets the attempt go on only when that is nothing.
LEMMA UsageFacts ==
    ASSUME Base, NEW w \in Workers, UsageRecorded(w)
    PROVE  LET r == worker[w].run
           IN  /\ Continued(w)
               /\ worker[w].phase = "asked"
               /\ worker'[w].phase \in {"answered", "exceeded"}
               /\ worker'[w].print = worker[w].print
               /\ worker'[w].evidence = worker[w].evidence
               /\ \E n \in 0..MaxSurplus :
                     /\ run'[r].used = run[r].used + n
                     /\ run'[r].surplus = run[r].surplus + n
                     /\ worker'[w].phase = "answered" => n = 0
<1> DEFINE r == worker[w].run
<1>1. run \in [Runs -> RunRows] /\ worker \in [Workers -> WorkerRows]
    BY DEF Base, TypeOK
<1>2. PICK n \in 0..MaxSurplus : RecordUsage(w, n)
    BY DEF UsageRecorded
<1> DEFINE new == IF n > 0 THEN "exceeded" ELSE "answered"
<1>3. /\ Active(w) /\ Owned(w) /\ UNCHANGED <<term, intent, streak, bypass>>
      /\ worker[w].phase = "asked"
      /\ run' = [run EXCEPT ![r].used = @ + n, ![r].surplus = @ + n]
      /\ worker' = [worker EXCEPT ![w].phase = new]
    BY <1>2 DEF RecordUsage, Active
<1>4. new \in {"answered", "exceeded"} /\ (new = "answered" => n = 0)
    BY BoundsFacts
<1> HIDE DEF new
<1>5. r \in Runs
    BY <1>3 DEF Base, WorkersKnown
<1>6. /\ \A q \in Runs \ {r} : run'[q] = run[q]
      /\ run'[r].status = run[r].status /\ run'[r].principal = run[r].principal
      /\ run'[r].request = run[r].request /\ run'[r].generation = run[r].generation
      /\ run'[r].attempts = run[r].attempts /\ run'[r].candidate = run[r].candidate
      /\ run'[r].used = run[r].used + n /\ run'[r].surplus = run[r].surplus + n
    BY <1>1, <1>3, <1>5 DEF RunRows
<1>7. /\ \A v \in Workers \ {w} : worker'[v] = worker[v]
      /\ worker'[w].phase = new /\ worker'[w].term = worker[w].term
      /\ worker'[w].run = r /\ worker'[w].generation = worker[w].generation
      /\ worker'[w].print = worker[w].print
      /\ worker'[w].evidence = worker[w].evidence
    BY <1>1, <1>3 DEF WorkerRows
<1> HIDE DEF r
<1>8. Continued(w)
    BY <1>3, <1>4, <1>5, <1>6, <1>7 DEF Continued, r
<1> QED
    BY <1>3, <1>4, <1>6, <1>7, <1>8 DEF r

\* What a step of one worker can be.
WorkerStep(w) ==
    \/ Dispatch(w) \/ PassToSources(w) \/ Yield(w)
    \/ SearchFails(w) \/ CallModel(w) \/ UsageRecorded(w)
    \/ Finished(w)
    \/ \E r \in Runs : Counted(w, r) \/ Spent(w, r)
    \/ \E b \in BOOLEAN : SourcePass(w, b)
    \/ Refused(w) \/ Crash(w)

\* The steps, with the transactions that conclude an attempt taken together.
LEMMA StepKinds ==
    ASSUME Base, [Next]_vars
    PROVE  \/ \E r \in Runs, p \in Principals : Create(r, p)
           \/ AddSource \/ RequestSources \/ EndTerm
           \/ \E r \in Runs, d \in {"approved", "rejected", "edited"} : Review(r, d)
           \/ \E w \in Workers : WorkerStep(w)
           \/ UNCHANGED vars
<1>1. ASSUME NEW w \in Workers, NEW late \in BOOLEAN, Claim(w, late)
      PROVE  WorkerStep(w)
    BY <1>1, ClaimKinds DEF WorkerStep
<1>2. ASSUME NEW w \in Workers, NEW f \in Prints, NEW e \in SUBSET References,
             Reuse(w, f, e)
      PROVE  WorkerStep(w)
    BY <1>2, FinishedKinds DEF WorkerStep
<1>3. ASSUME NEW w \in Workers,
             (\E cites \in SUBSET References : Propose(w, cites)) \/ ProposeNothing(w)
      PROVE  WorkerStep(w)
    <2>1. \E c \in {"pending", "none"}, cites \in SUBSET References : Succeed(w, c, cites)
        BY <1>3 DEF Propose, ProposeNothing
    <2> QED
        BY <2>1, FinishedKinds DEF WorkerStep
<1>4. ASSUME NEW w \in Workers, NEW b \in BOOLEAN, FailOrRetry(w, b)
      PROVE  WorkerStep(w)
    BY <1>4, FinishedKinds DEF WorkerStep
<1>5. ASSUME NEW w \in Workers,
             \/ Dispatch(w) \/ PassToSources(w) \/ Yield(w) \/ SearchFails(w)
             \/ CallModel(w) \/ UsageRecorded(w)
             \/ (\E b \in BOOLEAN : SourcePass(w, b))
             \/ Refused(w) \/ Crash(w)
      PROVE  WorkerStep(w)
    BY <1>5 DEF WorkerStep
<1> QED
    BY <1>1, <1>2, <1>3, <1>4, <1>5 DEF Next, SearchFails, UsageRecorded

\* An acknowledgement that concludes an attempt.
LEMMA ConcludedFacts ==
    ASSUME Base, NEW w \in Workers, NEW r \in Runs, NEW row, Concluded(w, r, row)
    PROVE  /\ intent' \in IntentRows
           /\ intent'.dirty = intent.dirty /\ intent'.clean = intent.clean
           /\ intent'.handled = worker[w].claimed
           /\ intent'.requested \in Nat
           /\ intent'.requested >= intent.requested
           /\ (\E q \in Runs : LiveNext(q)) => intent'.requested > worker[w].claimed
           /\ worker' = [worker EXCEPT ![w] = Idle]
           /\ streak' = NextStreak(streak)
           /\ bypass' = IF Dirty(intent) THEN bypass + 1 ELSE bypass
           /\ worker[w].term = term
BY CompleteFacts, RowFacts, GuardFacts DEF Concluded, Base

\* Request generations only grow.
LEMMA RequestsGrow ==
    ASSUME Base, [Next]_vars
    PROVE  intent'.requested >= intent.requested /\ intent'.requested \in Nat
<1>b. Base' /\ intent \in IntentRows /\ intent' \in IntentRows /\ AbsentRowEmpty
    BY NextBase DEF Base, TypeOK
<1>n. intent.requested \in Nat /\ intent'.requested \in Nat
    BY <1>b, RowFacts
<1>1. ASSUME NEW r \in Runs, NEW p \in Principals, Create(r, p)
      PROVE  intent'.requested >= intent.requested
    BY <1>1, <1>b, <1>n, AcceptRequestFacts DEF Create, AbsentRowEmpty
<1>2. ASSUME AddSource PROVE intent'.requested >= intent.requested
    BY <1>2, <1>n, AddSourceFacts DEF Base
<1>3. ASSUME RequestSources PROVE intent'.requested >= intent.requested
    BY <1>3, <1>b, <1>n, AcceptRequestFacts DEF RequestSources, AbsentRowEmpty
<1>4. ASSUME NEW w \in Workers, Yield(w) PROVE intent'.requested >= intent.requested
    BY <1>4, <1>n, KeepFacts DEF Yield, Base
<1>5. ASSUME NEW w \in Workers, NEW r \in Runs, NEW row, Concluded(w, r, row)
      PROVE  intent'.requested >= intent.requested
    BY <1>5, ConcludedFacts
<1>6. ASSUME NEW w \in Workers, NEW b \in BOOLEAN, SourcePass(w, b)
      PROVE  intent'.requested >= intent.requested
    <2>1. worker[w].dirty <= intent.dirty /\ TypeOK
        BY <1>6 DEF SourcePass, Base, WorkersKnown
    <2> QED
        BY <1>6, <1>b, <1>n, <2>1, SourcePassFacts
<1>7. ASSUME UNCHANGED intent PROVE intent'.requested >= intent.requested
    BY <1>7, <1>n
<1>8. ASSUME NEW w \in Workers, WorkerStep(w)
      PROVE  intent'.requested >= intent.requested
    BY <1>4, <1>5, <1>6, <1>7, <1>8
    DEF WorkerStep, Dispatch, PassToSources, SearchFails, NoReuse, CallModel,
        UsageRecorded, RecordUsage, Finished, Counted, Spent, Refused, Crash
<1> QED
    BY <1>n, <1>1, <1>2, <1>3, <1>7, <1>8, StepKinds DEF EndTerm, Review, vars

--------------------------------------------------------------------------------
(* One worker per term, one worker per attempt, one call per attempt.      *)

\* Only a dispatch makes a slot busy, with the running term, and no slot
\* changes its term while it is busy.
LEMMA SlotSteps ==
    ASSUME Base, NEW w \in Workers, WorkerStep(w), ~ Dispatch(w)
    PROVE  /\ term' = term
           /\ \A v \in Workers \ {w} : worker'[v] = worker[v]
           /\ worker[w].phase # "idle"
           /\ worker'[w].phase # "idle" => worker'[w].term = worker[w].term
<1> USE DEF Base, TypeOK
<1>1. CASE PassToSources(w)
    BY <1>1 DEF PassToSources, WorkerRows
<1>2. CASE Yield(w)
    BY <1>2 DEF Yield, WorkerRows
<1>3. CASE SearchFails(w)
    BY <1>3 DEF SearchFails, NoReuse, WorkerRows
<1>4. CASE CallModel(w)
    BY <1>4 DEF CallModel, WorkerRows
<1>u. CASE UsageRecorded(w)
    BY <1>u DEF UsageRecorded, RecordUsage, WorkerRows
<1>c. ASSUME NEW r \in Runs, NEW row, Concluded(w, r, row)
      PROVE  /\ term' = term
             /\ worker' = [worker EXCEPT ![w] = Idle]
    BY <1>c, ConcludedFacts DEF Concluded
<1>5. CASE Finished(w)
    <2>1. worker' = [worker EXCEPT ![w] = Idle] /\ term' = term /\ Active(w)
        BY <1>5, <1>c DEF Finished
    <2> QED
        BY <2>1 DEF Active, Idle
<1>6. ASSUME NEW r \in Runs, Counted(w, r)
      PROVE  /\ term' = term
             /\ \A v \in Workers \ {w} : worker'[v] = worker[v]
             /\ worker[w].phase # "idle"
             /\ worker'[w].phase # "idle" => worker'[w].term = worker[w].term
    BY <1>6 DEF Counted, WorkerRows
<1>7. ASSUME NEW r \in Runs, Spent(w, r)
      PROVE  /\ term' = term
             /\ \A v \in Workers \ {w} : worker'[v] = worker[v]
             /\ worker[w].phase # "idle"
             /\ worker'[w].phase # "idle" => worker'[w].term = worker[w].term
    <2>1. /\ worker' = [worker EXCEPT ![w] = Idle] /\ term' = term
          /\ worker[w].phase = "assigned"
        BY <1>7, <1>c DEF Spent
    <2> QED
        BY <2>1 DEF Idle
<1>8. CASE (\E b \in BOOLEAN : SourcePass(w, b)) \/ Refused(w) \/ Crash(w)
    BY <1>8 DEF SourcePass, Refused, Crash, Idle
<1> QED
    BY <1>1, <1>2, <1>3, <1>4, <1>u, <1>5, <1>6, <1>7, <1>8 DEF WorkerStep

\* Dispatch waits until the term's worker has gone, and a new term finds only
\* workers of earlier ones.
LEMMA NextOneWorker ==
    ASSUME Base, OneWorkerPerTerm, [Next]_vars
    PROVE  OneWorkerPerTerm'
<1> USE DEF OneWorkerPerTerm
<1>1. ASSUME UNCHANGED <<term, worker>> PROVE OneWorkerPerTerm'
    BY <1>1
<1>2. CASE EndTerm
    BY <1>2, RowTypes DEF EndTerm, Base, WorkersKnown
<1>3. ASSUME NEW w \in Workers, Dispatch(w) PROVE OneWorkerPerTerm'
    BY <1>3 DEF Dispatch, Base, TypeOK, Idle
<1>4. ASSUME NEW w \in Workers, WorkerStep(w), ~ Dispatch(w) PROVE OneWorkerPerTerm'
    BY <1>4, SlotSteps
<1> QED
    BY <1>1, <1>2, <1>3, <1>4, StepKinds
    DEF Create, AddSource, RequestSources, Review, vars

\* A step that leaves the runs alone and gives no worker a run.
LEMMA AttemptsKept ==
    ASSUME Base, Base', AttemptsExclusive, RunsCounted, CallsLeft,
           intent'.requested >= intent.requested,
           run' = run,
           \A v \in Workers :
              Active(v)' => /\ Active(v)
                            /\ worker'[v].run = worker[v].run
                            /\ worker'[v].generation = worker[v].generation
                            /\ \/ worker'[v].phase = worker[v].phase
                               \/ {worker'[v].phase, worker[v].phase}
                                     \subseteq {"claimed", "preparing"}
    PROVE  AttemptsExclusive' /\ RunsCounted' /\ CallsLeft'
<1>1. AttemptsExclusive'
    BY DEF AttemptsExclusive
<1>2. RunsCounted'
    BY RowTypes, RowFacts DEF RunsCounted, Live, Base, TypeOK
<1>3. CallsLeft'
    BY DEF CallsLeft, Owned, Active
<1> QED
    BY <1>1, <1>2, <1>3

\* A step that ends or queues run r for worker w.
LEMMA AttemptsConcluded ==
    ASSUME Base, Base', AttemptsExclusive, RunsCounted, CallsLeft,
           NEW w \in Workers, NEW r \in Runs, NEW row \in RunRows,
           Concluded(w, r, row),
           row.request = run[r].request,
           row.attempts = run[r].attempts /\ row.used = run[r].used,
           row.surplus = run[r].surplus,
           row.generation <= row.attempts + 1,
           row.status = "queued" => row.generation = row.attempts,
           row.status # "running",
           row.candidate # "none" => /\ row.status = "succeeded"
                                     /\ row.generation > 0
                                     /\ row.used <= MaxCalls
    PROVE  AttemptsExclusive' /\ RunsCounted' /\ CallsLeft'
<1>1. /\ worker' = [worker EXCEPT ![w] = Idle]
      /\ run' = [run EXCEPT ![r] = row]
      /\ intent'.requested >= intent.requested /\ intent'.requested \in Nat
    BY ConcludedFacts DEF Concluded
<1>2. \A v \in Workers : Active(v)' => v # w /\ worker'[v] = worker[v]
    BY <1>1 DEF Active, Base, TypeOK, Idle
<1>3. AttemptsExclusive'
    BY <1>2 DEF AttemptsExclusive, Active
<1>4. \A q \in Runs : run'[q] = IF q = r THEN row ELSE run[q]
    BY <1>1 DEF Base, TypeOK
<1>5. RunsCounted'
    BY <1>1, <1>4, RowTypes DEF RunsCounted, Live, Base
<1>6. \A v \in Workers : Active(v)' => worker'[v].run \in Runs
    BY DEF Base, WorkersKnown
<1>7. CallsLeft'
    BY <1>2, <1>4, <1>6 DEF CallsLeft, Owned, Active
<1> QED
    BY <1>3, <1>5, <1>7

\* claim() numbers its attempt, the call is written under that number, and a
\* run that has ended or is queued has no attempt that could still call.
LEMMA NextAttempts ==
    ASSUME Base, AttemptsExclusive, RunsCounted, CallsLeft, [Next]_vars
    PROVE  AttemptsExclusive' /\ RunsCounted' /\ CallsLeft'
<1> DEFINE Goal == AttemptsExclusive' /\ RunsCounted' /\ CallsLeft'
<1>b. Base' /\ intent'.requested >= intent.requested /\ intent'.requested \in Nat
    BY NextBase, RequestsGrow
<1>t. TypeOK /\ TypeOK' /\ WorkersKnown /\ WorkersKnown'
    BY <1>b DEF Base
<1>0. ASSUME UNCHANGED <<run, worker>> PROVE Goal
    BY <1>0, <1>b, AttemptsKept DEF Active
<1>k. ASSUME NEW w \in Workers, NEW r \in Runs, worker[w].run = r, Owned(w), Active(w),
             \A q \in Runs \ {r} : run'[q] = run[q],
             run'[r].status = run[r].status, run'[r].generation = run[r].generation,
             run'[r].attempts = run[r].attempts,
             run'[r].used <= run'[r].attempts + run'[r].surplus,
             run'[r].used <= MaxCalls + MaxSurplus,
             run'[r].request = run[r].request, run'[r].candidate = run[r].candidate,
             \A v \in Workers \ {w} : worker'[v] = worker[v],
             worker'[w].phase \in {"asked", "answered", "exceeded"},
             worker'[w].phase \in {"asked", "answered"} => run'[r].used <= MaxCalls,
             worker'[w].run = r, worker'[w].generation = worker[w].generation
      PROVE  Goal
    <2>1. run[r].candidate = "none"
        BY <1>k DEF RunsCounted, Owned
    <2>2. RunsCounted'
        BY <1>b, <1>t, <1>k, <2>1, RowTypes DEF RunsCounted, Live
    <2>3. AttemptsExclusive'
        BY <1>k DEF AttemptsExclusive, Active
    <2>4. ASSUME NEW v \in Workers \ {w}, Owned(v)', Active(v)
          PROVE  worker[v].run \in Runs \ {r} /\ Owned(v)
        BY <1>t, <1>k, <2>4 DEF Owned, AttemptsExclusive, WorkersKnown
    <2>5. CallsLeft'
        BY <1>k, <2>4 DEF CallsLeft, Active
    <2> QED
        BY <2>2, <2>3, <2>5
<1>1. ASSUME NEW r \in Runs, NEW p \in Principals, Create(r, p) PROVE Goal
    <2>1. /\ worker' = worker /\ run[r] = NoRun
          /\ run' = [run EXCEPT ![r] = [NoRun EXCEPT !.status = "queued",
                                            !.principal = p,
                                            !.request = intent'.requested]]
        BY <1>1 DEF Create
    <2>2. /\ \A q \in Runs \ {r} : run'[q] = run[q]
          /\ run'[r].status = "queued" /\ run'[r].generation = 0
          /\ run'[r].attempts = 0 /\ run'[r].used = 0 /\ run'[r].surplus = 0
          /\ run'[r].request = intent'.requested /\ run'[r].candidate = "none"
        BY <2>1, <1>t DEF TypeOK, NoRun
    <2>3. RunsCounted'
        BY <1>b, <1>t, <2>2, RowTypes, BoundsFacts DEF RunsCounted, Live
    <2>4. CallsLeft'
        BY <1>t, <2>1, <2>2, RowTypes DEF CallsLeft, Owned, WorkersKnown, Active
    <2> QED
        BY <2>1, <2>3, <2>4 DEF AttemptsExclusive, Active
<1>2. ASSUME NEW r \in Runs, NEW d \in {"approved", "rejected", "edited"}, Review(r, d)
      PROVE  Goal
    <2>1. /\ worker' = worker /\ run[r].candidate = "pending"
          /\ run' = [run EXCEPT ![r].candidate = d]
        BY <1>2 DEF Review
    <2>2. /\ \A q \in Runs \ {r} : run'[q] = run[q]
          /\ run'[r].status = run[r].status /\ run'[r].generation = run[r].generation
          /\ run'[r].attempts = run[r].attempts /\ run'[r].used = run[r].used
          /\ run'[r].surplus = run[r].surplus
          /\ run'[r].request = run[r].request
        BY <2>1, <1>t DEF TypeOK, RunRows
    <2>3. RunsCounted'
        BY <1>b, <1>t, <2>1, <2>2, RowTypes DEF RunsCounted, Live
    <2>4. CallsLeft'
        BY <1>t, <2>1, <2>2 DEF CallsLeft, Owned, WorkersKnown, Active
    <2> QED
        BY <2>1, <2>3, <2>4 DEF AttemptsExclusive, Active
<1>3. ASSUME NEW w \in Workers,
             \/ Dispatch(w) \/ PassToSources(w) \/ Yield(w) \/ SearchFails(w)
             \/ (\E b \in BOOLEAN : SourcePass(w, b)) \/ Refused(w) \/ Crash(w)
      PROVE  Goal
    <2>1. run' = run
        BY <1>3
        DEF Dispatch, PassToSources, Yield, SearchFails, NoReuse, SourcePass, Refused,
            Crash
    <2>2. \A v \in Workers :
              Active(v)' => /\ Active(v)
                            /\ worker'[v].run = worker[v].run
                            /\ worker'[v].generation = worker[v].generation
                            /\ \/ worker'[v].phase = worker[v].phase
                               \/ {worker'[v].phase, worker[v].phase}
                                     \subseteq {"claimed", "preparing"}
        <3>1. \A v \in Workers \ {w} : worker'[v] = worker[v]
            BY <1>3, <1>t
            DEF Dispatch, PassToSources, Yield, SearchFails, NoReuse, SourcePass, Refused,
                Crash, TypeOK
        <3>2. CASE SearchFails(w)
            BY <3>1, <3>2, <1>t DEF SearchFails, NoReuse, Active, TypeOK, WorkerRows
        <3>3. ASSUME \/ Dispatch(w) \/ PassToSources(w) \/ Yield(w)
                     \/ (\E b \in BOOLEAN : SourcePass(w, b)) \/ Refused(w) \/ Crash(w)
              PROVE  worker'[w].phase \in {"idle", "assigned", "source"}
            <4>1. CASE Dispatch(w)
                BY <4>1, <1>t DEF Dispatch, TypeOK, Idle
            <4>2. CASE PassToSources(w)
                BY <4>2, <1>t DEF PassToSources, TypeOK, WorkerRows
            <4>3. CASE Yield(w)
                BY <4>3, <1>t DEF Yield, TypeOK, WorkerRows
            <4>4. CASE (\E b \in BOOLEAN : SourcePass(w, b)) \/ Refused(w) \/ Crash(w)
                BY <4>4, <1>t DEF SourcePass, Refused, Crash, TypeOK, Idle
            <4> QED
                BY <3>3, <4>1, <4>2, <4>3, <4>4
        <3> QED
            BY <1>3, <3>1, <3>2, <3>3 DEF Active
    <2> QED
        BY <1>b, <2>1, <2>2, AttemptsKept
<1>4. ASSUME NEW w \in Workers, CallModel(w) PROVE Goal
    <2> DEFINE r == worker[w].run
    <2>1. /\ Continued(w) /\ worker[w].phase = "preparing" /\ worker'[w].phase = "asked"
          /\ run[r].used < MaxCalls
          /\ run'[r].used = run[r].used + 1 /\ run'[r].surplus = run[r].surplus
        BY <1>4, CallFacts
    <2>2. r \in Runs /\ Owned(w) /\ run'[r].attempts = run[r].attempts
        BY <2>1 DEF Continued
    <2>3. run[r].used < run[r].attempts + run[r].surplus
        BY <2>1, <2>2 DEF CallsLeft
    <2>4. /\ run'[r].used <= run'[r].attempts + run'[r].surplus
          /\ run'[r].used <= MaxCalls + MaxSurplus
          /\ run'[r].used <= MaxCalls
        BY <1>t, <2>1, <2>2, <2>3, RowTypes, BoundsFacts
    <2> QED
        BY <1>k, <2>1, <2>4 DEF Continued
<1>u. ASSUME NEW w \in Workers, UsageRecorded(w) PROVE Goal
    <2> DEFINE r == worker[w].run
    <2>1. /\ Continued(w) /\ worker[w].phase = "asked"
          /\ worker'[w].phase \in {"answered", "exceeded"}
        BY <1>u, UsageFacts
    <2>2. PICK n \in 0..MaxSurplus : /\ run'[r].used = run[r].used + n
                                     /\ run'[r].surplus = run[r].surplus + n
                                     /\ worker'[w].phase = "answered" => n = 0
        BY <1>u, UsageFacts
    <2>3. r \in Runs /\ Owned(w) /\ run'[r].attempts = run[r].attempts
        BY <2>1 DEF Continued
    <2>4. /\ run[r].used <= MaxCalls
          /\ run[r].used <= run[r].attempts + run[r].surplus
        BY <2>1, <2>3 DEF CallsLeft, RunsCounted
    <2>5. /\ run[r].used \in Nat /\ run[r].attempts \in Nat /\ run[r].surplus \in Nat
          /\ MaxCalls \in Nat /\ MaxSurplus \in Nat
        BY <1>t, <2>3, RowTypes, BoundsFacts
    <2>6. /\ run'[r].used <= run'[r].attempts + run'[r].surplus
          /\ run'[r].used <= MaxCalls + MaxSurplus
          /\ n = 0 => run'[r].used <= MaxCalls
        BY <2>2, <2>3, <2>4, <2>5
    <2>7. worker'[w].phase \in {"asked", "answered"} => run'[r].used <= MaxCalls
        BY <2>1, <2>2, <2>6
    <2> QED
        BY <1>k, <2>1, <2>6, <2>7 DEF Continued
<1>5. ASSUME NEW w \in Workers, Finished(w) PROVE Goal
    <2> DEFINE r == worker[w].run
    <2>1. PICK row \in RunRows :
              /\ Concluded(w, r, row)
              /\ Outcome(w, row)
              /\ row.candidate \in {run[r].candidate, "none"} \/ Proposal(w, row)
        BY <1>5 DEF Finished
    <2>2. /\ r \in Runs /\ run[r].status = "running" /\ Owned(w)
          /\ run[r].generation > 0
        BY <1>5, <1>t DEF Finished, Owned, WorkersKnown
    <2>3. /\ run[r].candidate = "none"
          /\ run[r].generation = run[r].attempts /\ run[r].attempts \in Nat
        BY <2>2, <1>t, RowTypes DEF RunsCounted, Live
    <2>4. row.candidate # "none" => /\ row.status = "succeeded"
                                    /\ row.generation > 0
                                    /\ row.used <= MaxCalls
        BY <2>1, <2>2, <2>3 DEF Proposal, CallsLeft, Outcome
    <2> QED
        BY <1>b, <2>1, <2>2, <2>3, <2>4, AttemptsConcluded DEF Outcome
<1>6. ASSUME NEW w \in Workers, NEW r \in Runs, Spent(w, r) PROVE Goal
    <2> DEFINE row == [run[r] EXCEPT !.status = "failed",
                                     !.generation = run[r].generation + 1]
    <2>1. Concluded(w, r, row) /\ Live(r)
        BY <1>6 DEF Spent, Oldest
    <2>2. /\ row \in RunRows /\ row.request = run[r].request
          /\ row.attempts = run[r].attempts /\ row.used = run[r].used
          /\ row.surplus = run[r].surplus
          /\ row.generation = run[r].generation + 1 /\ row.status = "failed"
          /\ row.candidate = run[r].candidate
        <3>1. run[r] \in RunRows
            BY <1>t DEF TypeOK
        <3>2. row = run'[r]
            BY <2>1, <1>t DEF Concluded, TypeOK
        <3>3. row \in RunRows
            BY <3>2, <1>t DEF TypeOK
        <3>4. /\ row.request = run[r].request
              /\ row.attempts = run[r].attempts /\ row.used = run[r].used
          /\ row.surplus = run[r].surplus
              /\ row.generation = run[r].generation + 1 /\ row.status = "failed"
              /\ row.candidate = run[r].candidate
            BY <3>1 DEF RunRows
        <3> QED
            BY <3>3, <3>4
    <2>3. /\ run[r].candidate = "none"
          /\ run[r].generation = run[r].attempts /\ run[r].attempts \in Nat
        BY <2>1, <1>t, RowTypes DEF RunsCounted, Live
    <2> HIDE DEF row
    <2> QED
        BY <1>b, <2>1, <2>2, <2>3, AttemptsConcluded
<1>7. ASSUME NEW w \in Workers, NEW r \in Runs, Counted(w, r) PROVE Goal
    <2>1. /\ ~ Exhausted(r) /\ Live(r)
          /\ run' = [run EXCEPT ![r] =
                        [run[r] EXCEPT !.status = "running",
                                       !.generation = run[r].generation + 1,
                                       !.attempts = run[r].attempts + 1]]
          /\ worker' = [worker EXCEPT ![w] =
                        [worker[w] EXCEPT !.phase = "claimed", !.run = r,
                                          !.generation = run[r].generation + 1]]
        BY <1>7 DEF Counted, Oldest
    <2>2. /\ \A q \in Runs \ {r} : run'[q] = run[q]
          /\ run'[r].status = "running" /\ run'[r].generation = run[r].generation + 1
          /\ run'[r].attempts = run[r].attempts + 1 /\ run'[r].used = run[r].used
          /\ run'[r].surplus = run[r].surplus
          /\ run'[r].request = run[r].request /\ run'[r].candidate = run[r].candidate
        BY <2>1, <1>t DEF TypeOK, RunRows
    <2>3. /\ \A v \in Workers \ {w} : worker'[v] = worker[v]
          /\ worker'[w].phase = "claimed" /\ worker'[w].run = r
          /\ worker'[w].generation = run[r].generation + 1
        BY <2>1, <1>t DEF TypeOK, WorkerRows
    <2>4. RunsCounted'
        BY <1>b, <1>t, <2>1, <2>2, RowTypes, BoundsFacts
        DEF RunsCounted, Live, Exhausted
    <2>5. AttemptsExclusive'
        BY <1>t, <2>3, RowTypes DEF AttemptsExclusive, Active, WorkersKnown
    <2>6. run[r].used <= run[r].attempts + run[r].surplus
        BY DEF RunsCounted
    <2>7. ASSUME NEW v \in Workers, Owned(v)', Active(v)'
          PROVE  \/ /\ v = w
                    /\ run'[r].used < run'[r].attempts + run'[r].surplus
                 \/ /\ v # w /\ Owned(v) /\ worker[v].run \in Runs \ {r}
        <3>1. CASE v = w
            BY <1>t, <2>2, <2>3, <2>6, <3>1, RowTypes
        <3>2. CASE v # w /\ worker[v].run = r
            BY <1>t, <2>2, <2>3, <2>7, <3>2, RowTypes DEF Owned, WorkersKnown, Active
        <3>3. CASE v # w /\ worker[v].run # r
            BY <1>t, <2>2, <2>3, <2>7, <3>3 DEF Owned, WorkersKnown, Active
        <3> QED
            BY <3>1, <3>2, <3>3
    <2>8. CallsLeft'
        BY <2>2, <2>3, <2>7 DEF CallsLeft, Active
    <2> QED
        BY <2>4, <2>5, <2>8
<1>8. ASSUME NEW w \in Workers, WorkerStep(w) PROVE Goal
    BY <1>3, <1>4, <1>u, <1>5, <1>6, <1>7, <1>8 DEF WorkerStep
<1> QED
    BY <1>0, <1>1, <1>2, <1>8, StepKinds
    DEF AddSource, RequestSources, EndTerm, vars

--------------------------------------------------------------------------------
(* No run is stranded.                                                     *)

\* next_pending() finds nothing only if every open run was accepted after the
\* claim.
LEMMA NoneUpToClaim ==
    ASSUME TypeOK, NEW n \in Nat, NextPending(n) = {}
    PROVE  \A r \in Runs : Live(r) => run[r].request > n
<1> SUFFICES ASSUME NEW x \in Runs, Live(x), ~ (run[x].request > n)
             PROVE  FALSE
    OBVIOUS
<1> DEFINE open == {r \in Runs : Live(r) /\ run[r].request <= n}
           Requests == {run[r].request : r \in open}
<1>1. \A r \in Runs : run[r].request \in Nat
    BY RowTypes
<1>2. x \in open
    BY <1>1
<1>3. Requests \subseteq Nat /\ Requests # {}
    BY <1>1, <1>2
<1>4. PICK m \in Requests : \A k \in Requests : m <= k
    <2> HIDE DEF Requests
    <2> QED
        BY <1>3, LeastNumber
<1>5. PICK r \in open : m = run[r].request
    BY <1>4
<1>6. \A q \in open : run[r].request <= run[q].request
    BY <1>4, <1>5
<1> QED
    BY <1>5, <1>6 DEF NextPending

\* A step that opens no run, acknowledges nothing and sends no worker to the
\* sources.
LEMMA StrandedKept ==
    ASSUME Base, Base', NoStrandedRun, SourcesLeaveRequests,
           intent'.requested >= intent.requested,
           intent'.handled = intent.handled,
           \A r \in Runs : Live(r)' => Live(r),
           \A v \in Workers : worker'[v].phase = "source" => worker'[v] = worker[v]
    PROVE  NoStrandedRun' /\ SourcesLeaveRequests'
<1>1. NoStrandedRun'
    BY RowTypes, RowFacts DEF NoStrandedRun, Pending, Base, TypeOK
<1>2. /\ intent.requested \in Nat /\ intent'.requested \in Nat
      /\ \A v \in Workers : worker[v].claimed \in Nat
    BY RowTypes, RowFacts DEF Base, TypeOK
<1>3. SourcesLeaveRequests'
    BY <1>2 DEF SourcesLeaveRequests
<1> QED
    BY <1>1, <1>3

\* A step that concludes an attempt.
LEMMA StrandedConcluded ==
    ASSUME Base, Base', NoStrandedRun, SourcesLeaveRequests,
           NEW w \in Workers, NEW r \in Runs, NEW row \in RunRows,
           Concluded(w, r, row), Live(r)
    PROVE  NoStrandedRun' /\ SourcesLeaveRequests'
<1>1. /\ worker' = [worker EXCEPT ![w] = Idle]
      /\ run' = [run EXCEPT ![r] = row]
      /\ intent'.handled = worker[w].claimed
      /\ intent'.requested >= intent.requested /\ intent'.requested \in Nat
      /\ (\E q \in Runs : LiveNext(q)) => intent'.requested > worker[w].claimed
    BY ConcludedFacts DEF Concluded
<1>2. NoStrandedRun'
    BY <1>1 DEF NoStrandedRun, Pending, Live, LiveNext
<1>3. \A v \in Workers : worker'[v].phase = "source" => worker'[v] = worker[v]
    BY <1>1 DEF Base, TypeOK, Idle
<1>4. /\ intent.requested \in Nat
      /\ \A v \in Workers : worker[v].claimed \in Nat
    BY RowTypes DEF Base
<1>5. SourcesLeaveRequests'
    BY <1>1, <1>3, <1>4 DEF SourcesLeaveRequests
<1> QED
    BY <1>2, <1>5

\* create() accepts a request with the run; an acknowledgement for one run, and
\* a worker that goes on to the sources, leave one for the others.
LEMMA NextStranded ==
    ASSUME Base, RunsCounted, NoStrandedRun, SourcesLeaveRequests, [Next]_vars
    PROVE  NoStrandedRun' /\ SourcesLeaveRequests'
<1> DEFINE Goal == NoStrandedRun' /\ SourcesLeaveRequests'
<1>b. Base' /\ intent'.requested >= intent.requested /\ intent'.requested \in Nat
    BY NextBase, RequestsGrow
<1>t. TypeOK /\ TypeOK' /\ WorkersKnown /\ AbsentRowEmpty
    BY <1>b DEF Base
<1>n. /\ intent.requested \in Nat /\ intent.handled \in Nat
      /\ intent.handled <= intent.requested
      /\ \A v \in Workers : worker[v].claimed \in Nat
    BY <1>t, RowTypes, RowFacts
<1>0. ASSUME UNCHANGED <<run, worker, intent>> PROVE Goal
    BY <1>0, <1>b, StrandedKept DEF Live
<1>1. ASSUME NEW r \in Runs, NEW p \in Principals, Create(r, p) PROVE Goal
    <2>1. /\ intent'.requested = intent.requested + 1
          /\ intent'.handled = intent.handled
          /\ worker' = worker
        BY <1>1, <1>t, AcceptRequestFacts DEF Create, AbsentRowEmpty, TypeOK
    <2>2. NoStrandedRun'
        BY <2>1, <1>n DEF NoStrandedRun, Pending
    <2>3. SourcesLeaveRequests'
        BY <2>1, <1>n, <1>t DEF SourcesLeaveRequests, WorkersKnown
    <2> QED
        BY <2>2, <2>3
<1>2. CASE AddSource
    BY <1>2, <1>b, <1>t, AddSourceFacts, StrandedKept DEF AddSource, Live
<1>3. CASE RequestSources
    <2>1. intent'.handled = intent.handled /\ UNCHANGED <<run, worker>>
        BY <1>3, <1>t, AcceptRequestFacts DEF RequestSources, AbsentRowEmpty, TypeOK
    <2> QED
        BY <2>1, <1>b, StrandedKept DEF Live
<1>4. ASSUME NEW r \in Runs, NEW d \in {"approved", "rejected", "edited"}, Review(r, d)
      PROVE  Goal
    <2>1. \A q \in Runs : run'[q].status = run[q].status
        BY <1>4, <1>t DEF Review, TypeOK, RunRows
    <2> QED
        BY <1>4, <2>1, <1>b, StrandedKept DEF Review, Live
<1>5. ASSUME NEW w \in Workers, Dispatch(w) PROVE Goal
    <2>1. /\ UNCHANGED <<run, intent>>
          /\ \A v \in Workers : worker'[v].phase = "source" => worker'[v] = worker[v]
        BY <1>5, <1>t DEF Dispatch, TypeOK, Idle
    <2> QED
        BY <2>1, <1>b, StrandedKept DEF Live
<1>6. ASSUME NEW w \in Workers, PassToSources(w) PROVE Goal
    <2>1. /\ UNCHANGED <<run, intent>>
          /\ \A v \in Workers \ {w} : worker'[v] = worker[v]
          /\ worker'[w].claimed = worker[w].claimed
          /\ NextPending(worker[w].claimed) = {}
        BY <1>6, <1>t DEF PassToSources, TypeOK, WorkerRows
    <2>2. \A r \in Runs : Live(r) => run[r].request > worker[w].claimed
        BY <2>1, <1>t, <1>n, NoneUpToClaim
    <2>3. (\E r \in Runs : Live(r)) => worker[w].claimed < intent.requested
        BY <2>2, <1>t, <1>n, RowTypes DEF RunsCounted
    <2>4. NoStrandedRun'
        BY <2>1 DEF NoStrandedRun, Live
    <2>5. SourcesLeaveRequests'
        BY <2>1, <2>3 DEF SourcesLeaveRequests, Live
    <2> QED
        BY <2>4, <2>5
<1>7. ASSUME NEW w \in Workers, Yield(w) PROVE Goal
    <2>1. /\ UNCHANGED run
          /\ \A v \in Workers \ {w} : worker'[v] = worker[v]
          /\ worker'[w].claimed = worker[w].claimed
        BY <1>7, <1>t DEF Yield, TypeOK, WorkerRows
    <2>2. /\ intent'.handled = intent.handled
          /\ intent'.requested > worker[w].claimed
        BY <1>7, <1>t, KeepFacts DEF Yield
    <2>3. NoStrandedRun'
        BY <2>1, <2>2, <1>b, <1>n DEF NoStrandedRun, Live, Pending
    <2>4. SourcesLeaveRequests'
        BY <2>1, <2>2, <1>b, <1>n DEF SourcesLeaveRequests, Live
    <2> QED
        BY <2>3, <2>4
<1>8. ASSUME NEW w \in Workers, SearchFails(w) \/ CallModel(w) \/ UsageRecorded(w)
      PROVE  Goal
    <2>1. Continued(w)
        BY <1>8, SearchFacts, CallFacts, UsageFacts
    <2>2. /\ UNCHANGED intent
          /\ \A r \in Runs : run'[r].status = run[r].status
          /\ \A v \in Workers : worker'[v].phase = "source" => worker'[v] = worker[v]
        BY <2>1 DEF Continued
    <2> QED
        BY <2>2, <1>b, StrandedKept DEF Live
<1>9. ASSUME NEW w \in Workers, Finished(w) PROVE Goal
    BY <1>9, <1>b, StrandedConcluded DEF Finished, Owned, Live
<1>10. ASSUME NEW w \in Workers, NEW r \in Runs, Spent(w, r) PROVE Goal
    <2> DEFINE row == [run[r] EXCEPT !.status = "failed",
                                     !.generation = run[r].generation + 1]
    <2>1. Concluded(w, r, row) /\ Live(r)
        BY <1>10 DEF Spent, Oldest
    <2>2. row = run'[r]
        BY <2>1, <1>t DEF Concluded, TypeOK
    <2>3. row \in RunRows
        BY <2>2, <1>t DEF TypeOK
    <2> HIDE DEF row
    <2> QED
        BY <2>1, <2>3, <1>b, StrandedConcluded
<1>11. ASSUME NEW w \in Workers, NEW r \in Runs, Counted(w, r) PROVE Goal
    <2>1. UNCHANGED intent /\ Live(r)
        BY <1>11 DEF Counted, Oldest
    <2>2. \A q \in Runs \ {r} : run'[q] = run[q]
        BY <1>11, <1>t DEF Counted, TypeOK
    <2>3. \A v \in Workers : worker'[v].phase = "source" => worker'[v] = worker[v]
        BY <1>11, <1>t DEF Counted, TypeOK, WorkerRows
    <2>4. \A q \in Runs : Live(q)' => Live(q)
        BY <2>1, <2>2 DEF Live
    <2> QED
        BY <2>1, <2>3, <2>4, <1>b, StrandedKept
<1>12. ASSUME NEW w \in Workers, NEW b \in BOOLEAN, SourcePass(w, b) PROVE Goal
    <2>1. /\ worker[w].dirty <= intent.dirty /\ worker[w].phase = "source"
          /\ UNCHANGED run
        BY <1>12, <1>t DEF SourcePass, WorkersKnown
    <2>2. /\ intent'.handled = worker[w].claimed
          /\ intent'.requested = intent.requested
        BY <1>12, <2>1, <1>t, SourcePassFacts
    <2>3. NoStrandedRun'
        BY <2>1, <2>2, <1>n DEF NoStrandedRun, SourcesLeaveRequests, Live, Pending
    <2>4. \A v \in Workers : worker'[v].phase = "source" => worker'[v] = worker[v]
        BY <1>12, <1>t DEF SourcePass, TypeOK, Idle
    <2>5. SourcesLeaveRequests'
        BY <2>1, <2>2, <2>4 DEF SourcesLeaveRequests, Live
    <2> QED
        BY <2>3, <2>5
<1>13. ASSUME NEW w \in Workers, Refused(w) \/ Crash(w) PROVE Goal
    <2>1. /\ UNCHANGED <<run, intent>>
          /\ \A v \in Workers : worker'[v].phase = "source" => worker'[v] = worker[v]
        BY <1>13, <1>t DEF Refused, Crash, TypeOK, Idle
    <2> QED
        BY <2>1, <1>b, StrandedKept DEF Live
<1>14. ASSUME NEW w \in Workers, WorkerStep(w) PROVE Goal
    BY <1>5, <1>6, <1>7, <1>8, <1>9, <1>10, <1>11, <1>12, <1>13, <1>14
    DEF WorkerStep
<1> QED
    BY <1>0, <1>1, <1>2, <1>3, <1>4, <1>14, StepKinds DEF EndTerm, vars

--------------------------------------------------------------------------------
(* Runs are served in order, and no proposal is repeated.                  *)

\* A step that opens no run and leaves requests and attempts alone.
LEMMA OrderKept ==
    ASSUME ServedInOrder,
           \A r \in Runs : /\ Live(r)' => Live(r)
                           /\ run'[r].request = run[r].request
                           /\ run'[r].generation = run[r].generation
    PROVE  ServedInOrder'
BY DEF ServedInOrder

\* A step that claims run r, the oldest open one.
LEMMA OrderClaimed ==
    ASSUME ServedInOrder, NEW r \in Runs, Oldest(r),
           \A q \in Runs \ {r} : run'[q] = run[q],
           run'[r].request = run[r].request
    PROVE  ServedInOrder'
<1> SUFFICES ASSUME NEW x \in Runs, NEW y \in Runs,
                    Live(x)', run'[x].request < run'[y].request
             PROVE  run'[y].generation = 0
    BY DEF ServedInOrder
<1>1. Live(x) /\ run[x].request < run[y].request
    BY DEF Oldest, Live
<1>2. y # r
    BY <1>1 DEF Oldest
<1> QED
    BY <1>1, <1>2 DEF ServedInOrder

\* create() gives a run the newest request, claim() takes the oldest open run,
\* and no other step numbers an attempt.
LEMMA NextOrder ==
    ASSUME Base, RunsCounted, ServedInOrder, [Next]_vars
    PROVE  ServedInOrder'
<1>b. Base'
    BY NextBase
<1>t. TypeOK /\ TypeOK' /\ WorkersKnown /\ AbsentRowEmpty
    BY <1>b DEF Base
<1>0. ASSUME UNCHANGED run PROVE ServedInOrder'
    BY <1>0, OrderKept DEF Live
<1>1. ASSUME NEW r \in Runs, NEW p \in Principals, Create(r, p) PROVE ServedInOrder'
    <2>1. /\ intent'.requested = intent.requested + 1
          /\ run'[r].request = intent'.requested /\ run'[r].generation = 0
          /\ \A q \in Runs \ {r} : run'[q] = run[q]
        <3>1. intent'.requested = intent.requested + 1
            BY <1>1, <1>t, AcceptRequestFacts DEF Create, AbsentRowEmpty, TypeOK
        <3> QED
            BY <1>1, <1>t, <3>1 DEF Create, TypeOK, NoRun
    <2>2. \A q \in Runs : /\ run[q].request \in Nat /\ intent.requested \in Nat
                          /\ run[q].request <= intent.requested
        BY <1>t, RowTypes DEF RunsCounted
    <2>3. \A q \in Runs \ {r} : ~ (run'[r].request < run'[q].request)
        BY <2>1, <2>2
    <2> SUFFICES ASSUME NEW x \in Runs, NEW y \in Runs,
                        Live(x)', run'[x].request < run'[y].request
                 PROVE  run'[y].generation = 0
        BY DEF ServedInOrder
    <2>4. x # r \/ y = r
        BY <2>3
    <2> QED
        BY <2>1, <2>4 DEF ServedInOrder, Live
<1>2. ASSUME NEW r \in Runs, NEW d \in {"approved", "rejected", "edited"}, Review(r, d)
      PROVE  ServedInOrder'
    <2>1. \A q \in Runs : /\ run'[q].status = run[q].status
                          /\ run'[q].request = run[q].request
                          /\ run'[q].generation = run[q].generation
        BY <1>2, <1>t DEF Review, TypeOK, RunRows
    <2> QED
        BY <2>1, OrderKept DEF Live
<1>3. ASSUME NEW w \in Workers, CallModel(w) \/ UsageRecorded(w) PROVE ServedInOrder'
    <2>1. \A q \in Runs : /\ run'[q].status = run[q].status
                          /\ run'[q].request = run[q].request
                          /\ run'[q].generation = run[q].generation
        BY <1>3, CallFacts, UsageFacts DEF Continued
    <2> QED
        BY <2>1, OrderKept DEF Live
<1>4. ASSUME NEW w \in Workers, Finished(w) PROVE ServedInOrder'
    <2> DEFINE r == worker[w].run
    <2>1. PICK row \in RunRows : Concluded(w, r, row) /\ Outcome(w, row)
        BY <1>4 DEF Finished
    <2>2. /\ r \in Runs /\ Live(r)
          /\ row.request = run[r].request /\ row.generation = run[r].generation
        BY <1>4, <2>1 DEF Finished, Owned, Live, Outcome
    <2>3. \A q \in Runs : run'[q] = IF q = r THEN row ELSE run[q]
        BY <2>1, <2>2, <1>t DEF Concluded, TypeOK
    <2> QED
        BY <2>2, <2>3, OrderKept DEF Live
<1>5. ASSUME NEW w \in Workers, NEW r \in Runs, Counted(w, r) \/ Spent(w, r)
      PROVE  ServedInOrder'
    <2>1. Oldest(r)
        BY <1>5 DEF Counted, Spent
    <2>2. /\ \A q \in Runs \ {r} : run'[q] = run[q]
          /\ run'[r].request = run[r].request
        <3>1. run[r] \in RunRows /\ run \in [Runs -> RunRows]
            BY <1>t DEF TypeOK
        <3>2. CASE Counted(w, r)
            BY <3>1, <3>2 DEF Counted, RunRows
        <3>3. CASE Spent(w, r)
            BY <3>1, <3>3 DEF Spent, Concluded, RunRows
        <3> QED
            BY <1>5, <3>2, <3>3
    <2> QED
        BY <2>1, <2>2, OrderClaimed
<1>6. ASSUME NEW w \in Workers, WorkerStep(w) PROVE ServedInOrder'
    BY <1>0, <1>3, <1>4, <1>5, <1>6
    DEF WorkerStep, Dispatch, PassToSources, Yield, SearchFails, NoReuse, SourcePass,
        Refused, Crash
<1> QED
    BY <1>0, <1>1, <1>2, <1>6, StepKinds
    DEF AddSource, RequestSources, EndTerm, vars

\* A step that makes no proposal stand and starts no search's wait.
LEMMA ProposalsKept ==
    ASSUME NoRepeatedProposal, SearchesHold,
           \A r \in Runs :
              Stands(r)' =>
                  /\ Stands(r)
                  /\ run'[r].request = run[r].request
                  /\ run'[r].principal = run[r].principal
                  /\ run'[r].print = run[r].print
                  /\ run'[r].evidence = run[r].evidence
                  /\ run'[r].cites = run[r].cites
                  /\ run'[r].status = "succeeded" => run[r].status = "succeeded",
           \A v \in Workers :
              Searching(v)' /\ worker'[v].term = term'
              => /\ Searching(v) /\ worker[v].term = term
                 /\ worker'[v].run = worker[v].run
                 /\ worker'[v].print = worker[v].print
                 /\ worker'[v].evidence = worker[v].evidence
                 /\ worker'[v].run \in Runs
                 /\ run'[worker[v].run].principal = run[worker[v].run].principal
    PROVE  NoRepeatedProposal' /\ SearchesHold'
<1>1. NoRepeatedProposal'
    BY DEF NoRepeatedProposal
<1>2. ASSUME NEW v \in Workers, Searching(v)', worker'[v].term = term',
             NEW q \in Runs \ {worker'[v].run},
             run'[q].status = "succeeded",
             run'[q].principal = run'[worker'[v].run].principal,
             run'[q].print = worker'[v].print,
             Stands(q)', run'[q].cites \subseteq worker'[v].evidence
      PROVE  FALSE
    <2>1. ~ Reusable(worker[v].run, worker[v].print, worker[v].evidence)
        BY <1>2 DEF SearchesHold
    <2>2. /\ q \in Runs \ {worker[v].run} /\ run[q].status = "succeeded"
          /\ run[q].principal = run[worker[v].run].principal
          /\ run[q].print = worker[v].print
          /\ Stands(q) /\ run[q].cites \subseteq worker[v].evidence
        BY <1>2
    <2> QED
        BY <2>1, <2>2 DEF Reusable, MatchingProposals, MatchesEvidence, Stands
<1>3. SearchesHold'
    BY <1>2 DEF SearchesHold, Reusable, MatchingProposals, MatchesEvidence, Stands
<1> QED
    BY <1>1, <1>3

\* A step that concludes the attempt of worker w on run r: the term has no other
\* worker, a Candidate is new only if the worker's search found none, and no
\* later run has one.
LEMMA ProposalsConcluded ==
    ASSUME Base, Base', OneWorkerPerTerm, RunsCounted, ServedInOrder,
           NoRepeatedProposal, SearchesHold,
           NEW w \in Workers, NEW r \in Runs, NEW row \in RunRows,
           Concluded(w, r, row), worker[w].phase # "idle", Live(r),
           row.request = run[r].request, row.principal = run[r].principal,
           row.candidate = "none" \/ (worker[w].run = r /\ Proposal(w, row))
    PROVE  NoRepeatedProposal' /\ SearchesHold'
<1>1. /\ worker' = [worker EXCEPT ![w] = Idle]
      /\ run' = [run EXCEPT ![r] = row]
      /\ term' = term /\ worker[w].term = term
    BY ConcludedFacts DEF Concluded
<1>2. \A v \in Workers : worker'[v].phase # "idle" => worker'[v].term # term'
    <2>1. \A v \in Workers : v # w => worker'[v] = worker[v]
        BY <1>1 DEF Base, TypeOK
    <2>2. worker'[w].phase = "idle"
        BY <1>1 DEF Base, TypeOK, Idle
    <2> QED
        BY <1>1, <2>1, <2>2 DEF OneWorkerPerTerm
<1>3. SearchesHold'
    BY <1>2 DEF SearchesHold, Searching
<1>4. \A q \in Runs : run'[q] = IF q = r THEN row ELSE run[q]
    BY <1>1 DEF Base, TypeOK
<1>5. CASE row.candidate = "none"
    BY <1>3, <1>4, <1>5 DEF NoRepeatedProposal, Stands
<1>6. CASE worker[w].run = r /\ Proposal(w, row)
    <2>1. /\ ~ Reusable(r, worker[w].print, worker[w].evidence)
          /\ row.print = worker[w].print /\ row.evidence = worker[w].evidence
        BY <1>1, <1>6 DEF SearchesHold, Searching, Proposal
    <2>2. \A q \in Runs \ {r} :
              Stands(q) /\ run[q].principal = row.principal /\ run[q].print = row.print
              => ~ (run[q].cites \subseteq row.evidence)
        BY <2>1 DEF Reusable, MatchingProposals, MatchesEvidence, Stands, RunsCounted
    <2>3. \A q \in Runs : Stands(q) => ~ (run[r].request < run[q].request)
        <3>1. \A q \in Runs : Stands(q) => run[q].generation > 0
            BY DEF RunsCounted, Stands
        <3>2. \A q \in Runs : run[r].request < run[q].request => run[q].generation = 0
            BY DEF ServedInOrder
        <3>3. ~ (0 > 0)
            OBVIOUS
        <3> QED
            BY <3>1, <3>2, <3>3
    <2> SUFFICES ASSUME NEW x \in Runs, NEW y \in Runs, Stands(x)', Stands(y)',
                        run'[x].request < run'[y].request,
                        run'[x].principal = run'[y].principal,
                        run'[x].print = run'[y].print,
                        run'[x].cites \subseteq run'[y].evidence
                 PROVE  FALSE
        BY <1>3 DEF NoRepeatedProposal
    <2>4. CASE x # r /\ y # r
        BY <1>4, <2>4 DEF NoRepeatedProposal, Stands
    <2>5. CASE x # r /\ y = r
        BY <1>4, <2>2, <2>5 DEF Stands
    <2>6. CASE x = r /\ y # r
        BY <1>4, <2>3, <2>6 DEF Stands
    <2>7. CASE x = r /\ y = r
        <3>1. run'[r].request \in Nat
            BY RowTypes, <1>4 DEF Base
        <3> QED
            BY <2>7, <3>1
    <2> QED
        BY <2>4, <2>5, <2>6, <2>7
<1> QED
    BY <1>3, <1>5, <1>6

\* Between the search and the commit nobody else of the term can propose, a new
\* term fences the worker that searched, and a reviewer's decision makes no
\* proposal stand that did not.
LEMMA NextProposals ==
    ASSUME Base, OneWorkerPerTerm, RunsCounted, ServedInOrder,
           NoRepeatedProposal, SearchesHold, [Next]_vars
    PROVE  NoRepeatedProposal' /\ SearchesHold'
<1> DEFINE Goal == NoRepeatedProposal' /\ SearchesHold'
<1>b. Base'
    BY NextBase
<1>t. TypeOK /\ TypeOK' /\ WorkersKnown
    BY <1>b DEF Base
<1>n. \A v \in Workers : worker[v].term \in Nat /\ worker[v].generation \in Nat
    BY <1>t, RowTypes
<1>k. \A v \in Workers : Searching(v) =>
                              /\ worker[v].run \in Runs
                              /\ worker[v].generation > 0
                              /\ worker[v].generation <= run[worker[v].run].generation
    BY <1>t DEF WorkersKnown, Active, Searching
<1>0. ASSUME UNCHANGED <<run, worker, term>> PROVE Goal
    BY <1>0, <1>k, ProposalsKept DEF Searching, Stands
<1>1. ASSUME NEW r \in Runs, NEW p \in Principals, Create(r, p) PROVE Goal
    <2>1. /\ run[r].generation = 0 /\ UNCHANGED <<worker, term>>
          /\ \A q \in Runs \ {r} : run'[q] = run[q]
          /\ run'[r].candidate = "none"
        BY <1>1, <1>t DEF Create, TypeOK, NoRun
    <2>2. \A v \in Workers : Searching(v) => worker[v].run \in Runs \ {r}
        BY <2>1, <1>k, <1>n
    <2> QED
        BY <2>1, <2>2, ProposalsKept DEF Searching, Stands
<1>2. CASE EndTerm
    <2>1. /\ UNCHANGED <<run, worker>> /\ term' = term + 1 /\ term \in Nat
          /\ \A v \in Workers : worker[v].phase # "idle" => worker[v].term <= term
        BY <1>2, <1>t, RowTypes DEF EndTerm, WorkersKnown
    <2>2. \A v \in Workers : worker[v].phase # "idle" => worker[v].term # term'
        BY <2>1, <1>n
    <2> QED
        BY <2>1, <2>2, ProposalsKept DEF Searching, Stands
<1>3. ASSUME NEW r \in Runs, NEW d \in {"approved", "rejected", "edited"}, Review(r, d)
      PROVE  Goal
    <2>1. /\ UNCHANGED <<worker, term>> /\ run[r].candidate = "pending"
          /\ \A q \in Runs \ {r} : run'[q] = run[q]
        BY <1>3, <1>t DEF Review, TypeOK, RunRows
    <2>2. /\ run'[r].print = run[r].print /\ run'[r].status = run[r].status
          /\ run'[r].request = run[r].request /\ run'[r].principal = run[r].principal
          /\ run'[r].evidence = run[r].evidence /\ run'[r].cites = run[r].cites
        BY <1>3, <1>t DEF Review, TypeOK, RunRows
    <2> QED
        BY <2>1, <2>2, <1>k, ProposalsKept DEF Searching, Stands
<1>4. ASSUME NEW w \in Workers,
             \/ Dispatch(w) \/ PassToSources(w) \/ Yield(w)
             \/ (\E b \in BOOLEAN : SourcePass(w, b)) \/ Refused(w) \/ Crash(w)
      PROVE  Goal
    <2>1. UNCHANGED <<run, term>>
        BY <1>4 DEF Dispatch, PassToSources, Yield, SourcePass, Refused, Crash
    <2>2. \A v \in Workers \ {w} : worker'[v] = worker[v]
        BY <1>4, <1>t
        DEF Dispatch, PassToSources, Yield, SourcePass, Refused, Crash, TypeOK
    <2>3. worker'[w].phase \in {"idle", "assigned", "source"}
        <3>1. CASE Dispatch(w)
            BY <3>1, <1>t DEF Dispatch, TypeOK, Idle
        <3>2. CASE PassToSources(w)
            BY <3>2, <1>t DEF PassToSources, TypeOK, WorkerRows
        <3>3. CASE Yield(w)
            BY <3>3, <1>t DEF Yield, TypeOK, WorkerRows
        <3>4. CASE (\E b \in BOOLEAN : SourcePass(w, b)) \/ Refused(w) \/ Crash(w)
            BY <3>4, <1>t DEF SourcePass, Refused, Crash, TypeOK, Idle
        <3> QED
            BY <1>4, <3>1, <3>2, <3>3, <3>4
    <2> QED
        BY <2>1, <2>2, <2>3, <1>k, ProposalsKept DEF Searching, Stands
<1>5. ASSUME NEW w \in Workers, SearchFails(w) PROVE Goal
    <2>0. PICK f \in Prints, e \in SUBSET References : NoReuse(w, f, e)
        BY <1>5 DEF SearchFails
    <2>1. /\ UNCHANGED <<run, term>>
          /\ ~ Reusable(worker[w].run, f, e)
          /\ \A v \in Workers \ {w} : worker'[v] = worker[v]
          /\ worker'[w].run = worker[w].run
          /\ worker'[w].print = f /\ worker'[w].evidence = e
        BY <2>0, <1>t DEF NoReuse, TypeOK, WorkerRows
    <2>2. NoRepeatedProposal'
        BY <2>1 DEF NoRepeatedProposal, Stands
    <2>3. SearchesHold'
        BY <2>1
        DEF SearchesHold, Searching, Reusable, MatchingProposals, MatchesEvidence
    <2> QED
        BY <2>2, <2>3
<1>6. ASSUME NEW w \in Workers, CallModel(w) \/ UsageRecorded(w) PROVE Goal
    <2>0. /\ Continued(w) /\ worker[w].phase \in {"preparing", "asked"}
          /\ worker'[w].print = worker[w].print
          /\ worker'[w].evidence = worker[w].evidence
        BY <1>6, CallFacts, UsageFacts
    <2>1. /\ UNCHANGED term /\ Searching(w) /\ Owned(w)
          /\ \A v \in Workers \ {w} : worker'[v] = worker[v]
          /\ worker'[w].run = worker[w].run /\ worker'[w].term = worker[w].term
        BY <2>0 DEF Continued, Searching
    <2>2. /\ \A q \in Runs : /\ run'[q].candidate = run[q].candidate
                             /\ run'[q].principal = run[q].principal
          /\ \A q \in Runs \ {worker[w].run} : run'[q] = run[q]
        BY <2>0 DEF Continued
    <2>3. ~ Stands(worker[w].run)
        BY <1>k, <2>1 DEF Owned, RunsCounted, Stands
    <2> QED
        BY <2>0, <2>1, <2>2, <2>3, <1>k, ProposalsKept DEF Searching, Stands
<1>7. ASSUME NEW w \in Workers, Finished(w) PROVE Goal
    <2> DEFINE r == worker[w].run
    <2>1. PICK row \in RunRows :
              /\ Concluded(w, r, row)
              /\ Outcome(w, row)
              /\ row.candidate \in {run[r].candidate, "none"} \/ Proposal(w, row)
        BY <1>7 DEF Finished
    <2>2. r \in Runs /\ run[r].status = "running" /\ worker[w].phase # "idle"
        BY <1>7 DEF Finished, Owned, Active
    <2>3. run[r].candidate = "none" /\ Live(r)
        BY <2>2 DEF RunsCounted, Live
    <2>4. row.request = run[r].request /\ row.principal = run[r].principal
        BY <2>1 DEF Outcome
    <2> QED
        BY <1>b, <2>1, <2>2, <2>3, <2>4, ProposalsConcluded
<1>8. ASSUME NEW w \in Workers, NEW r \in Runs, Spent(w, r) PROVE Goal
    <2> DEFINE row == [run[r] EXCEPT !.status = "failed",
                                     !.generation = run[r].generation + 1]
    <2>1. Concluded(w, r, row) /\ Live(r) /\ worker[w].phase # "idle"
        BY <1>8 DEF Spent, Oldest
    <2>2. row = run'[r]
        BY <2>1, <1>t DEF Concluded, TypeOK
    <2>3. row \in RunRows
        BY <2>2, <1>t DEF TypeOK
    <2>4. /\ row.request = run[r].request /\ row.principal = run[r].principal
          /\ row.candidate = run[r].candidate
        BY <1>t DEF TypeOK, RunRows
    <2>5. run[r].candidate = "none"
        BY <2>1 DEF RunsCounted, Live
    <2> HIDE DEF row
    <2> QED
        BY <2>1, <2>3, <2>4, <2>5, <1>b, ProposalsConcluded
<1>9. ASSUME NEW w \in Workers, NEW r \in Runs, Counted(w, r) PROVE Goal
    <2>1. /\ UNCHANGED term /\ Live(r)
          /\ \A v \in Workers \ {w} : worker'[v] = worker[v]
          /\ worker'[w].phase = "claimed"
        BY <1>9, <1>t DEF Counted, Oldest, TypeOK, WorkerRows
    <2>2. /\ \A q \in Runs \ {r} : run'[q] = run[q]
          /\ run'[r].candidate = run[r].candidate
          /\ run'[r].principal = run[r].principal
        BY <1>9, <1>t DEF Counted, TypeOK, RunRows
    <2>3. ~ Stands(r)
        BY <2>1 DEF RunsCounted, Live, Stands
    <2> QED
        BY <2>1, <2>2, <2>3, <1>k, ProposalsKept DEF Searching, Stands
<1>10. ASSUME NEW w \in Workers, WorkerStep(w) PROVE Goal
    BY <1>4, <1>5, <1>6, <1>7, <1>8, <1>9, <1>10 DEF WorkerStep
<1> QED
    BY <1>0, <1>1, <1>2, <1>3, <1>10, StepKinds DEF AddSource, RequestSources, vars

--------------------------------------------------------------------------------
(* Sources are passed over a bounded number of times.                      *)

\* A step that leaves the counters and the sources' generations alone.
LEMMA BypassKept ==
    ASSUME BypassCounted,
           UNCHANGED <<streak, bypass>>,
           Dirty(intent) => Dirty(intent)',
           \A v \in Workers :
              Active(v)' /\ worker'[v].term = term' => Active(v) /\ worker[v].term = term
    PROVE  BypassCounted'
BY DEF BypassCounted

\* A step that concludes an attempt counts it, and frees the term's worker.
LEMMA BypassConcluded ==
    ASSUME Base, Base', OneWorkerPerTerm, BypassCounted,
           NEW w \in Workers, NEW r \in Runs, NEW row,
           Concluded(w, r, row), worker[w].phase # "idle",
           Dirty(intent) => streak < YieldAfter \/ bypass = 0
    PROVE  BypassCounted'
<1>1. /\ intent'.dirty = intent.dirty /\ intent'.clean = intent.clean
      /\ worker' = [worker EXCEPT ![w] = Idle]
      /\ streak' = NextStreak(streak)
      /\ bypass' = IF Dirty(intent) THEN bypass + 1 ELSE bypass
      /\ term' = term /\ worker[w].term = term
    BY ConcludedFacts DEF Concluded
<1>2. \A v \in Workers : ~ (Active(v)' /\ worker'[v].term = term')
    <2>1. \A v \in Workers : v # w => worker'[v] = worker[v]
        BY <1>1 DEF Base, TypeOK
    <2>2. worker'[w].phase = "idle"
        BY <1>1 DEF Base, TypeOK, Idle
    <2> QED
        BY <1>1, <2>1, <2>2 DEF OneWorkerPerTerm, Active
<1>3. /\ streak \in 0..YieldAfter /\ bypass \in Nat /\ YieldAfter \in Nat
      /\ YieldAfter > 0 /\ bypass <= streak
    BY BoundsFacts DEF Base, TypeOK, BypassCounted
<1>4. /\ streak < YieldAfter => streak' = streak + 1
      /\ streak = YieldAfter => streak' = YieldAfter
    BY <1>1, <1>3, StreakFacts
<1>5. bypass' <= streak'
    BY <1>1, <1>3, <1>4 DEF BypassCounted
<1>6. ~ Dirty(intent)' => bypass' = 0
    BY <1>1 DEF Dirty, BypassCounted
<1> QED
    BY <1>2, <1>5, <1>6 DEF BypassCounted

\* execute() claims for Dream only below the limit or when no source waits, the
\* term has one worker, and only a source pass starts the count again.
LEMMA NextBypass ==
    ASSUME Base, OneWorkerPerTerm, BypassCounted, [Next]_vars
    PROVE  BypassCounted'
<1>b. Base'
    BY NextBase
<1>t. TypeOK /\ TypeOK' /\ WorkersKnown /\ AbsentRowEmpty /\ intent \in IntentRows
    BY <1>b DEF Base, TypeOK
<1>n. /\ intent.dirty \in Nat /\ intent.clean \in Nat
      /\ streak \in 0..YieldAfter /\ YieldAfter \in Nat
    BY <1>t, RowFacts, BoundsFacts DEF TypeOK
<1>0. ASSUME UNCHANGED <<worker, term, streak, bypass>>,
             intent'.dirty >= intent.dirty, intent'.clean = intent.clean,
             intent'.dirty \in Nat
      PROVE  BypassCounted'
    BY <1>0, <1>n, BypassKept DEF Dirty, Active
<1>1. ASSUME NEW r \in Runs, NEW p \in Principals, Create(r, p) PROVE BypassCounted'
    <2>1. intent'.dirty = intent.dirty /\ intent'.clean = intent.clean
        BY <1>1, <1>t, AcceptRequestFacts DEF Create, AbsentRowEmpty
    <2> QED
        BY <1>0, <1>1, <1>n, <2>1 DEF Create
<1>2. CASE AddSource
    BY <1>0, <1>2, <1>t, <1>n, AddSourceFacts DEF AddSource
<1>3. CASE RequestSources
    <2>1. intent'.dirty = intent.dirty /\ intent'.clean = intent.clean
        BY <1>3, <1>t, AcceptRequestFacts DEF RequestSources, AbsentRowEmpty
    <2> QED
        BY <1>0, <1>3, <1>n, <2>1 DEF RequestSources
<1>4. CASE EndTerm
    <2>1. /\ UNCHANGED <<intent, worker, streak, bypass>>
          /\ term' = term + 1 /\ term \in Nat
          /\ \A v \in Workers : worker[v].phase # "idle" => worker[v].term <= term
        BY <1>4, <1>t, RowTypes DEF EndTerm, WorkersKnown
    <2>2. \A v \in Workers : worker[v].phase # "idle" => worker[v].term # term'
        BY <2>1, <1>t, RowTypes
    <2> QED
        BY <2>1, <2>2, BypassKept DEF Active
<1>5. ASSUME UNCHANGED <<intent, worker, term, streak, bypass>> PROVE BypassCounted'
    BY <1>0, <1>5, <1>n
<1>6. ASSUME NEW w \in Workers, Dispatch(w) PROVE BypassCounted'
    <2>1. /\ UNCHANGED <<intent, term, streak, bypass>>
          /\ \A v \in Workers \ {w} : worker'[v] = worker[v]
          /\ worker'[w].phase = "assigned"
        BY <1>6, <1>t DEF Dispatch, TypeOK, Idle
    <2> QED
        BY <2>1, BypassKept DEF Active
<1>7. ASSUME NEW w \in Workers, PassToSources(w) PROVE BypassCounted'
    <2>1. /\ UNCHANGED <<intent, term, streak, bypass>>
          /\ \A v \in Workers \ {w} : worker'[v] = worker[v]
          /\ worker'[w].phase = "source"
        BY <1>7, <1>t DEF PassToSources, TypeOK, WorkerRows
    <2> QED
        BY <2>1, BypassKept DEF Active
<1>8. ASSUME NEW w \in Workers, Yield(w) PROVE BypassCounted'
    <2>1. /\ UNCHANGED <<term, streak, bypass>>
          /\ \A v \in Workers \ {w} : worker'[v] = worker[v]
          /\ worker'[w].phase = "source"
        BY <1>8, <1>t DEF Yield, TypeOK, WorkerRows
    <2>2. intent'.dirty = intent.dirty /\ intent'.clean = intent.clean
        BY <1>8, <1>t, KeepFacts DEF Yield
    <2> QED
        BY <2>1, <2>2, BypassKept DEF Active, Dirty
<1>9. ASSUME NEW w \in Workers, SearchFails(w) \/ CallModel(w) \/ UsageRecorded(w)
      PROVE  BypassCounted'
    <2>1. Continued(w)
        BY <1>9, SearchFacts, CallFacts, UsageFacts
    <2> QED
        BY <2>1, BypassKept DEF Continued, Active
<1>10. ASSUME NEW w \in Workers, Finished(w) PROVE BypassCounted'
    <2>1. PICK row \in RunRows : Concluded(w, worker[w].run, row)
        BY <1>10 DEF Finished
    <2>2. worker[w].run \in Runs /\ Active(w) /\ worker[w].term = term
        BY <1>10, <2>1, ConcludedFacts DEF Finished
    <2>3. worker[w].phase # "idle"
        BY <2>2 DEF Active
    <2>4. streak < YieldAfter \/ bypass = 0
        BY <2>2 DEF BypassCounted
    <2> QED
        BY <1>b, <2>1, <2>2, <2>3, <2>4, BypassConcluded
<1>11. ASSUME NEW w \in Workers, NEW r \in Runs, Spent(w, r) PROVE BypassCounted'
    <2> DEFINE row == [run[r] EXCEPT !.status = "failed",
                                     !.generation = run[r].generation + 1]
    <2>1. /\ Concluded(w, r, row) /\ worker[w].phase # "idle"
          /\ Dirty(intent) => streak < YieldAfter
        BY <1>11, <1>n DEF Spent, YieldToSources
    <2> HIDE DEF row
    <2> QED
        BY <2>1, <1>b, BypassConcluded
<1>12. ASSUME NEW w \in Workers, NEW r \in Runs, Counted(w, r) PROVE BypassCounted'
    <2>1. /\ UNCHANGED <<intent, term, streak, bypass>>
          /\ Dirty(intent) => streak < YieldAfter
        BY <1>12, <1>n DEF Counted, YieldToSources
    <2> QED
        BY <2>1 DEF BypassCounted
<1>13. ASSUME NEW w \in Workers, NEW b \in BOOLEAN, SourcePass(w, b)
       PROVE  BypassCounted'
    BY <1>13 DEF SourcePass, BypassCounted
<1>14. ASSUME NEW w \in Workers, Refused(w) \/ Crash(w) PROVE BypassCounted'
    <2>1. /\ UNCHANGED <<intent, term, streak, bypass>>
          /\ \A v \in Workers \ {w} : worker'[v] = worker[v]
          /\ worker'[w].phase = "idle"
        BY <1>14, <1>t DEF Refused, Crash, TypeOK, Idle
    <2> QED
        BY <2>1, BypassKept DEF Active
<1>15. ASSUME NEW w \in Workers, WorkerStep(w) PROVE BypassCounted'
    BY <1>6, <1>7, <1>8, <1>9, <1>10, <1>11, <1>12, <1>13, <1>14, <1>15
    DEF WorkerStep
<1> QED
    BY <1>1, <1>2, <1>3, <1>4, <1>5, <1>15, StepKinds DEF Review, vars

--------------------------------------------------------------------------------
(* The theorems.                                                           *)

\* No run, no worker, nothing passed over.
LEMMA InitDream == Init => DreamInv
<1> SUFFICES ASSUME Init PROVE DreamInv
    OBVIOUS
<1>1. TypeOK /\ AbsentRowEmpty /\ WorkersKnown
    BY InitBase DEF Base
<1>2. /\ \A w \in Workers : worker[w].phase = "idle"
      /\ \A r \in Runs : run[r] = NoRun
      /\ intent = Absent /\ streak = 0 /\ bypass = 0
    BY DEF Init, Idle
<1>3. OneWorkerPerTerm /\ AttemptsExclusive /\ CallsLeft
    BY <1>2 DEF OneWorkerPerTerm, AttemptsExclusive, CallsLeft, Active
<1>4. RunsCounted /\ NoStrandedRun
    BY <1>2, BoundsFacts DEF RunsCounted, NoStrandedRun, Live, NoRun, Absent
<1>5. SourcesLeaveRequests /\ SearchesHold
    BY <1>2 DEF SourcesLeaveRequests, SearchesHold, Searching
<1>6. ServedInOrder /\ NoRepeatedProposal
    BY <1>2 DEF ServedInOrder, Live, NoRepeatedProposal, Stands, NoRun
<1>7. BypassCounted
    BY <1>2 DEF BypassCounted, Active
<1> QED
    BY <1>1, <1>3, <1>4, <1>5, <1>6, <1>7 DEF DreamInv

\* Every transaction preserves the inductive invariant.
LEMMA NextDream == DreamInv /\ [Next]_vars => DreamInv'
<1> SUFFICES ASSUME DreamInv, [Next]_vars PROVE DreamInv'
    OBVIOUS
<1>1. Base
    BY DEF DreamInv, Base
<1>2. TypeOK' /\ AbsentRowEmpty' /\ WorkersKnown'
    BY <1>1, NextBase DEF Base
<1>3. OneWorkerPerTerm'
    BY <1>1, NextOneWorker DEF DreamInv
<1>4. AttemptsExclusive' /\ RunsCounted' /\ CallsLeft'
    BY <1>1, NextAttempts DEF DreamInv
<1>5. NoStrandedRun' /\ SourcesLeaveRequests'
    BY <1>1, NextStranded DEF DreamInv
<1>6. ServedInOrder' /\ NoRepeatedProposal' /\ SearchesHold'
    BY <1>1, NextOrder, NextProposals DEF DreamInv
<1>7. BypassCounted'
    BY <1>1, NextBypass DEF DreamInv
<1> QED
    BY <1>2, <1>3, <1>4, <1>5, <1>6, <1>7 DEF DreamInv

\* The inductive invariant holds in every reachable state.
THEOREM DreamInvariant == Spec => []DreamInv
BY InitDream, NextDream, PTL DEF Spec

\* An accepted run that has not ended has a pending invocation, for every number
\* of runs and workers and whatever crashes, retries or yields: the Supervisor
\* can always reach it.
THEOREM RunsAreReachable == Spec => []NoStrandedRun
<1>1. DreamInv => NoStrandedRun
    BY DEF DreamInv
<1> QED
    BY <1>1, DreamInvariant, PTL

\* claim() is reached at most once more often than the budget allows, the model is
\* asked no more often than attempts were counted, and answers that took more
\* than one request overdraw the budget once at most and make no Candidate.
THEOREM BudgetHolds == Spec => []AttemptsBounded
<1>1. DreamInv => AttemptsBounded
    <2> SUFFICES ASSUME DreamInv, NEW r \in Runs PROVE WithinBudget(r)
        BY DEF AttemptsBounded
    <2>1. /\ run[r].generation \in Nat /\ run[r].attempts \in Nat /\ MaxCalls \in Nat
          /\ run[r].generation <= run[r].attempts + 1 /\ run[r].attempts <= MaxCalls
        BY RowTypes, BoundsFacts DEF DreamInv, RunsCounted
    <2>2. run[r].generation <= MaxCalls + 1
        BY <2>1
    <2> QED
        BY <2>2 DEF DreamInv, RunsCounted, WithinBudget
<1> QED
    BY <1>1, DreamInvariant, PTL

\* A proposal that stands is never repeated for its principal: one with the same
\* fingerprint is made beside it only from evidence that does not cover it.
THEOREM ProposalsAreNotRepeated == Spec => []NoRepeatedProposal
<1>1. DreamInv => NoRepeatedProposal
    BY DEF DreamInv
<1> QED
    BY <1>1, DreamInvariant, PTL

\* Waiting sources are passed over by at most YieldAfter Dream attempts.
THEOREM SourcesGetTheirTurn == Spec => []BoundedBypass
<1>1. DreamInv => BoundedBypass
    <2>1. ASSUME DreamInv
          PROVE  /\ bypass <= streak /\ streak \in 0..YieldAfter /\ bypass \in Nat
                 /\ YieldAfter \in Nat
        BY <2>1, BoundsFacts DEF DreamInv, TypeOK, BypassCounted
    <2> QED
        BY <2>1 DEF BoundedBypass
<1> QED
    BY <1>1, DreamInvariant, PTL
================================================================================
