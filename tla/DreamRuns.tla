------------------------------- MODULE DreamRuns -------------------------------
(***************************************************************************)
(* Dream runs of one scope and binding (dream/service.py, persistence/     *)
(* dream.py): accepted requests that share the scope worker with the       *)
(* binding's ordinary source work (runtime/family_processing.py).  A run   *)
(* takes at most MaxCalls attempts, ends in a reviewable Candidate or in a *)
(* failure, and yields to waiting sources after YieldAfter attempts in a   *)
(* row.                                                                    *)
(*                                                                         *)
(* Every action is one transaction; each locks the intent row first.       *)
(*                                                                         *)
(* An attempt resolves its request to a fingerprint (operation, target,    *)
(* policy and the root sources of the evidence, but not the principal, see *)
(* dream/provenance.py) and to the references in the evidence manifest:    *)
(* requests with different evidence may have one fingerprint.  The first   *)
(* model call pins both.  Evidence, authorization and target checks that   *)
(* fail are failures of the attempt.                                       *)
(*                                                                         *)
(* Source work is reduced to the pair dirty/clean of the intent            *)
(* (SourceIncubation has the rest).                                        *)
(***************************************************************************)
EXTENDS ProcessingIntents

CONSTANTS Runs,        \* run ids
          Principals,  \* callers
          Prints,      \* proposal fingerprints
          References,  \* sources and artifacts a manifest may hold
          Workers,     \* slots for worker processes, of whatever term
          MaxCalls,    \* budget.max_model_calls
          YieldAfter,  \* 4: consecutive Dream attempts before a yield
          MaxPending,  \* max_pending_per_scope
          MaxSurplus,  \* bound: provider requests beyond the one of an
                       \* attempt that its answer reports
          MaxDirty,    \* bound: sources appended
          MaxRequested,\* bound: request generation up to which sources are
                       \* requested and their passes fail
          MaxTerm      \* bound: supervisor generations

ASSUME DreamBounds ==
    /\ {MaxCalls, YieldAfter, MaxPending, MaxTerm} \subseteq Nat \ {0}
    /\ {MaxDirty, MaxRequested, MaxSurplus} \subseteq Nat

VARIABLES
    term,    \* supervisor_generation of the lease
    intent,  \* intent row of the binding
    streak,  \* its consecutive_dream_attempts
    run,     \* run[r]: the Dream record
    worker,  \* worker[w]: assignment and local variables
    bypass   \* history: Dream acknowledgements while sources waited

vars == <<term, intent, streak, run, worker, bypass>>

\* candidate is the state of the Candidate that the run itself proposed, and
\* cites what it refers to; print and evidence are recorded by the first call;
\* used is usage.model_calls, and surplus (history) the part of it that answers
\* reported on top of the calls.
NoRun == [status |-> "none", principal |-> "none", print |-> "none",
          evidence |-> {}, cites |-> {}, request |-> 0, generation |-> 0,
          attempts |-> 0, used |-> 0, surplus |-> 0, candidate |-> "none"]

\* print and evidence are what the worker's attempt has resolved.
Idle == [phase |-> "idle", term |-> 0, claimed |-> 0, dirty |-> 0,
         run |-> "none", generation |-> 0, print |-> "none", evidence |-> {}]

Init ==
    /\ term = 1
    /\ intent = Absent
    /\ streak = 0
    /\ run = [r \in Runs |-> NoRun]
    /\ worker = [w \in Workers |-> Idle]
    /\ bypass = 0

Live(r) == run[r].status \in {"queued", "running"}

Terminal(r) == run[r].status \in {"succeeded", "failed"}

--------------------------------------------------------------------------------
(* Callers and reviewers.                                                  *)

\* create(): under the intent and scope locks, one run and its request.
Create(r, p) ==
    /\ run[r] = NoRun
    /\ Cardinality({q \in Runs : Live(q)}) < MaxPending
    /\ intent' = AcceptRequest(intent, 0)
    /\ run' = [run EXCEPT ![r] = [NoRun EXCEPT !.status = "queued", !.principal = p,
                                               !.request = intent'.requested]]
    /\ UNCHANGED <<term, streak, worker, bypass>>

\* A source is appended; nothing but its mark concerns Dream.
AddSource ==
    /\ intent.dirty < MaxDirty
    /\ intent' = MarkDirty(intent, 0, 1)
    /\ UNCHANGED <<term, streak, run, worker, bypass>>

\* An automatic scan or an explicit flush accepts a source invocation.
RequestSources ==
    /\ Dirty(intent) /\ ~ Pending(intent)
    /\ intent.requested < MaxRequested
    /\ intent' = AcceptRequest(intent, 0)
    /\ UNCHANGED <<term, streak, run, worker, bypass>>

\* A reviewer decides on a Candidate, or edits it, which clears the fingerprint
\* that Dream recorded in its audit: it matches no proposal ever after.
Review(r, decision) ==
    /\ run[r].candidate = "pending"
    /\ run' = [run EXCEPT ![r].candidate = decision]
    /\ UNCHANGED <<term, intent, streak, worker, bypass>>

EndTerm ==
    /\ term < MaxTerm
    /\ term' = term + 1
    /\ UNCHANGED <<intent, streak, run, worker, bypass>>

--------------------------------------------------------------------------------
(* The worker of an invocation.                                            *)

Dispatch(w) ==
    /\ worker[w].phase = "idle"
    /\ Pending(intent)
    /\ \A v \in Workers : worker[v].phase = "idle" \/ worker[v].term # term
    /\ worker' = [worker EXCEPT ![w] =
                     [Idle EXCEPT !.phase = "assigned", !.term = term,
                                  !.claimed = intent.requested]]
    /\ UNCHANGED <<term, intent, streak, run, bypass>>

\* ScopeInvocation.guard().
Guard(w) ==
    /\ worker[w].term = term
    /\ worker[w].claimed <= intent.requested
    /\ intent.handled < worker[w].claimed

\* lock_owned(): the attempt is the run's newest and the run is open.
Owned(w) ==
    /\ run[worker[w].run].status = "running"
    /\ run[worker[w].run].generation = worker[w].generation

\* next_pending(): the oldest open run of those accepted up to `through`.
NextPending(through) ==
    LET open == {r \in Runs : Live(r) /\ run[r].request <= through}
    IN  {r \in open : \A q \in open : run[r].request <= run[q].request}

\* Mutated form of YieldToSources: the cap of the counter is never passed.
YieldAboveCap == streak > YieldAfter /\ Dirty(intent)

\* The streak is long enough and sources wait.
YieldToSources == streak >= YieldAfter /\ Dirty(intent)

\* Mutated form of KeepRunnable: whoever is left has a request of its own.
KeepAsIs(row, w, left) == row

\* The invocation that is about to be acknowledged is the newest request, and
\* runs are left: accept another one for them.
KeepRunnable(row, w, left) ==
    IF left /\ row.requested = worker[w].claimed
    THEN AcceptRequest(row, 0) ELSE row

\* consecutive_dream_attempts after acknowledge(dream=True).
NextStreak(n) == IF n < YieldAfter THEN n + 1 ELSE YieldAfter

\* _complete_invocation() in a state where run' is decided: acknowledge as
\* Dream work, which never clears source progress.
CompleteInvocation(w) ==
    LET left == \E r \in Runs : run'[r].status \in {"queued", "running"}
    IN  /\ intent' = Acknowledge(KeepRunnable(intent, w, left), worker[w].claimed, 0)
        /\ streak' = NextStreak(streak)
        /\ bypass' = IF Dirty(intent) THEN bypass + 1 ELSE bypass
        /\ worker' = [worker EXCEPT ![w] = Idle]

\* execute(), no run to serve: leave the invocation to the family processor.
PassToSources(w) ==
    /\ worker[w].phase = "assigned"
    /\ Guard(w)
    /\ NextPending(worker[w].claimed) = {}
    /\ worker' = [worker EXCEPT ![w].phase = "source", ![w].dirty = intent.dirty]
    /\ UNCHANGED <<term, intent, streak, run, bypass>>

\* execute(), fairness: leave it to the sources, and keep the run runnable.
Yield(w) ==
    /\ worker[w].phase = "assigned"
    /\ Guard(w)
    /\ NextPending(worker[w].claimed) # {}
    /\ YieldToSources
    /\ intent' = KeepRunnable(intent, w, TRUE)
    /\ worker' = [worker EXCEPT ![w].phase = "source", ![w].dirty = intent.dirty]
    /\ UNCHANGED <<term, streak, run, bypass>>

\* Mutated form of Exhausted: an attempt that crashed was not one.
ExhaustedCalls(r) == run[r].used >= MaxCalls

\* claim(): all attempts of the run are spent.
Exhausted(r) == run[r].attempts >= MaxCalls

\* execute(): claim the oldest run.  A spent budget, or a deadline that has
\* passed since the first claim, ends it in the same transaction.
Claim(w, late) ==
    /\ worker[w].phase = "assigned"
    /\ Guard(w)
    /\ ~ YieldToSources
    /\ \E r \in NextPending(worker[w].claimed) :
          /\ late => run[r].generation > 0
          /\ IF late \/ Exhausted(r)
             THEN /\ run' = [run EXCEPT ![r].status = "failed",
                                        ![r].generation = @ + 1]
                  /\ CompleteInvocation(w)
             ELSE /\ run' = [run EXCEPT ![r].status = "running",
                                        ![r].generation = @ + 1,
                                        ![r].attempts = @ + 1]
                  /\ worker' = [worker EXCEPT ![w].phase = "claimed", ![w].run = r,
                                              ![w].generation = run'[r].generation]
                  /\ UNCHANGED <<intent, streak, bypass>>
    /\ UNCHANGED term

\* _resolve(): a manifest holds at least what the request selected.  Once it was
\* checkpointed it is pinned and any change fails the attempt; until then every
\* attempt resolves anew.
Resolves(r, f, evidence) ==
    /\ evidence # {}
    /\ run[r].print # "none" => f = run[r].print /\ evidence = run[r].evidence

\* matching_proposals(): other results of this principal with this fingerprint.
MatchingProposals(r, f) ==
    {q \in Runs \ {r} : /\ run[q].status = "succeeded"
                        /\ run[q].principal = run[r].principal
                        /\ run[q].print = f}

\* _candidate_matches_evidence(): the target is part of the fingerprint, and
\* all that the Candidate cites is in the attempt's own manifest.
MatchesEvidence(q, evidence) == run[q].cites \subseteq evidence

\* Mutated form of Reusable: a rejected proposal may be made again.
ReusablePending(r, f, evidence) ==
    \E q \in MatchingProposals(r, f) :
        run[q].candidate = "pending" /\ MatchesEvidence(q, evidence)

\* An earlier result led to a Candidate that is unedited, not approved and
\* supported by the evidence at hand.  (A result that itself reused a Candidate
\* leads to one that its proposer's result leads to.)
Reusable(r, f, evidence) ==
    \E q \in MatchingProposals(r, f) :
        run[q].candidate \in {"pending", "rejected"} /\ MatchesEvidence(q, evidence)

\* _reuse_before_generation(): finish with the Candidate that is there.
Reuse(w, f, evidence) ==
    LET r == worker[w].run
    IN  /\ worker[w].phase = "claimed"
        /\ Guard(w) /\ Owned(w)
        /\ Resolves(r, f, evidence)
        /\ Reusable(r, f, evidence)
        /\ run' = [run EXCEPT ![r].status = "succeeded", ![r].print = f,
                              ![r].evidence = evidence]
        /\ CompleteInvocation(w)
        /\ UNCHANGED term

\* _reuse_before_generation() finds nothing.
NoReuse(w, f, evidence) ==
    /\ worker[w].phase = "claimed"
    /\ Guard(w) /\ Owned(w)
    /\ Resolves(worker[w].run, f, evidence)
    /\ ~ Reusable(worker[w].run, f, evidence)
    /\ worker' = [worker EXCEPT ![w].phase = "preparing", ![w].print = f,
                                ![w].evidence = evidence]
    /\ UNCHANGED <<term, intent, streak, run, bypass>>

\* The call, and what it is about, is written to the run before the model is
\* asked.
CallModel(w) ==
    LET r == worker[w].run
    IN  /\ worker[w].phase = "preparing"
        /\ Guard(w) /\ Owned(w)
        /\ run[r].used < MaxCalls
        /\ run' = [run EXCEPT ![r].used = @ + 1, ![r].print = worker[w].print,
                              ![r].evidence = worker[w].evidence]
        /\ worker' = [worker EXCEPT ![w].phase = "asked"]
        /\ UNCHANGED <<term, intent, streak, bypass>>

\* Mutated form of RecordUsage: an answer that took several requests is used.
RecordAndGoOn(w, extra) ==
    LET r == worker[w].run
    IN  /\ worker[w].phase = "asked"
        /\ Guard(w) /\ Owned(w)
        /\ run' = [run EXCEPT ![r].used = @ + extra, ![r].surplus = @ + extra]
        /\ worker' = [worker EXCEPT ![w].phase = "answered"]
        /\ UNCHANGED <<term, intent, streak, bypass>>

\* The answer's usage is written: max(0, requests - 1) = extra more calls.  More
\* than one request exceeds the budget of an attempt, which can then only fail.
RecordUsage(w, extra) ==
    LET r == worker[w].run
    IN  /\ worker[w].phase = "asked"
        /\ Guard(w) /\ Owned(w)
        /\ run' = [run EXCEPT ![r].used = @ + extra, ![r].surplus = @ + extra]
        /\ worker' = [worker EXCEPT ![w].phase = IF extra > 0 THEN "exceeded"
                                                             ELSE "answered"]
        /\ UNCHANGED <<term, intent, streak, bypass>>

\* The run's result: a Candidate that cites some of the evidence, or none.
Succeed(w, candidate, cites) ==
    LET r == worker[w].run
    IN  /\ worker[w].phase = "answered"
        /\ Guard(w) /\ Owned(w)
        /\ run' = [run EXCEPT ![r].status = "succeeded", ![r].print = worker[w].print,
                              ![r].evidence = worker[w].evidence,
                              ![r].candidate = candidate, ![r].cites = cites]
        /\ CompleteInvocation(w)
        /\ UNCHANGED term

\* _commit() of a plan that proposes: the Candidate, the end of the run and the
\* acknowledgement are one transaction.
Propose(w, cites) ==
    /\ cites \subseteq worker[w].evidence
    /\ Succeed(w, "pending", cites)

\* _commit() of a plan that proposes nothing.
ProposeNothing(w) == Succeed(w, "none", {})

\* _fail_or_retry(): an unavailable model queues the run again while attempts
\* and time are left; everything else ends it.
FailOrRetry(w, retry) ==
    LET r == worker[w].run
        again == retry /\ run[r].attempts < MaxCalls
    IN  /\ worker[w].phase \in {"claimed", "preparing", "asked", "answered", "exceeded"}
        /\ retry => worker[w].phase = "asked"
        /\ Guard(w) /\ Owned(w)
        /\ run' = [run EXCEPT ![r].status = IF again THEN "queued" ELSE "failed"]
        /\ CompleteInvocation(w)
        /\ UNCHANGED term

\* The family's source pass: it acknowledges with the dirty snapshot, or with
\* none when it left rows unread.
SourcePass(w, remaining) ==
    /\ worker[w].phase = "source"
    /\ Guard(w)
    /\ remaining => Dirty(intent)
    /\ intent' = Acknowledge(intent, worker[w].claimed,
                             IF remaining THEN 0 ELSE worker[w].dirty)
    /\ streak' = 0
    /\ bypass' = 0
    /\ worker' = [worker EXCEPT ![w] = Idle]
    /\ UNCHANGED <<term, run>>

\* LEADERSHIP_LOST, an invocation that is already handled, or an attempt that
\* was superseded.
Refused(w) ==
    /\ worker[w].phase # "idle"
    /\ ~ Guard(w) \/ (worker[w].phase \notin {"assigned", "source"} /\ ~ Owned(w))
    /\ worker' = [worker EXCEPT ![w] = Idle]
    /\ UNCHANGED <<term, intent, streak, run, bypass>>

\* Crash, termination or a failed source pass: nothing is acknowledged.
Crash(w) ==
    /\ worker[w].phase # "idle"
    /\ worker[w].phase = "source" => intent.requested < MaxRequested
    /\ worker' = [worker EXCEPT ![w] = Idle]
    /\ UNCHANGED <<term, intent, streak, run, bypass>>

--------------------------------------------------------------------------------
Next ==
    \/ \E r \in Runs, p \in Principals : Create(r, p)
    \/ AddSource \/ RequestSources \/ EndTerm
    \/ \E r \in Runs, d \in {"approved", "rejected", "edited"} : Review(r, d)
    \/ \E w \in Workers :
          \/ Dispatch(w) \/ PassToSources(w) \/ Yield(w)
          \/ \E late \in BOOLEAN : Claim(w, late)
          \/ \E f \in Prints, e \in SUBSET References : Reuse(w, f, e) \/ NoReuse(w, f, e)
          \/ CallModel(w)
          \/ \E extra \in 0..MaxSurplus : RecordUsage(w, extra)
          \/ \E cites \in SUBSET References : Propose(w, cites)
          \/ ProposeNothing(w)
          \/ \E retry \in BOOLEAN : FailOrRetry(w, retry)
          \/ \E remaining \in BOOLEAN : SourcePass(w, remaining)
          \/ Refused(w) \/ Crash(w)

Spec == Init /\ [][Next]_vars

\* What a worker that is not killed does next.
Serve(w) == PassToSources(w) \/ Yield(w) \/ \E late \in BOOLEAN : Claim(w, late)

Attempt(w) ==
    \/ \E f \in Prints, e \in SUBSET References : Reuse(w, f, e) \/ NoReuse(w, f, e)
    \/ CallModel(w) \/ \E extra \in 0..MaxSurplus : RecordUsage(w, extra)
    \/ \E cites \in SUBSET References : Propose(w, cites)
    \/ ProposeNothing(w) \/ \E retry \in BOOLEAN : FailOrRetry(w, retry)
    \/ Refused(w)

\* The Supervisor dispatches, and a worker or its timeout ends every attempt.
\* Workers are not killed forever before their first transaction, and source
\* passes do not fail forever: Dream waits for one when it yields.
Fairness ==
    /\ WF_vars(\E w \in Workers : Dispatch(w))
    /\ \A w \in Workers :
          /\ WF_vars(Attempt(w)) /\ SF_vars(Serve(w))
          /\ SF_vars(\E remaining \in BOOLEAN : SourcePass(w, remaining))

FairSpec == Spec /\ Fairness

--------------------------------------------------------------------------------
RunRows ==
    [status : {"none", "queued", "running", "succeeded", "failed"},
     principal : Principals \cup {"none"}, print : Prints \cup {"none"},
     evidence : SUBSET References, cites : SUBSET References,
     request : Nat, generation : Nat, attempts : Nat, used : Nat, surplus : Nat,
     candidate : {"none", "pending", "approved", "rejected", "edited"}]

WorkerRows ==
    [phase : {"idle", "assigned", "source", "claimed", "preparing", "asked",
              "answered", "exceeded"},
     term : Nat, claimed : Nat, dirty : Nat, run : Runs \cup {"none"},
     generation : Nat, print : Prints \cup {"none"}, evidence : SUBSET References]

\* Types of the variables.
TypeOK ==
    /\ term \in 1..MaxTerm
    /\ intent \in IntentRows
    /\ streak \in 0..YieldAfter
    /\ run \in [Runs -> RunRows]
    /\ worker \in [Workers -> WorkerRows]
    /\ bypass \in Nat

\* An accepted run that has not ended is always reachable for the Supervisor:
\* an invocation of its binding is pending, whatever crashed, was retried,
\* yielded or was acknowledged on behalf of another run (_complete_invocation).
NoStrandedRun == \A r \in Runs : Live(r) => Pending(intent)

\* The limits of one run: claim() is reached at most once more than the budget
\* allows; the model is asked no more often than attempts were claimed; answers
\* that break the contract of one request per attempt (dream/generation.py:15)
\* overdraw the budget once at most, and make no Candidate beyond it.
WithinBudget(r) ==
    /\ run[r].generation <= MaxCalls + 1
    /\ run[r].used <= run[r].attempts + run[r].surplus
    /\ run[r].used <= MaxCalls + MaxSurplus
    /\ run[r].candidate # "none" => run[r].used <= MaxCalls

\* Every attempt is paid for before it does anything, so workers that crash or
\* are fenced at any point, before or after the usage of an answer is recorded,
\* cannot make a run go on or hide what it spent.
AttemptsBounded == \A r \in Runs : WithinBudget(r)

\* The run's Candidate awaits a reviewer, or was rejected as it was proposed.
Stands(r) == run[r].candidate \in {"pending", "rejected"}

\* Dream does not repeat itself: a proposal that stands beside an earlier one of
\* the same principal and fingerprint was made from evidence that did not cover
\* the earlier one, although the search for an earlier proposal and the new one
\* are transactions on either side of a model call.  (Other principals, and
\* other selections over the same roots, do get their own proposals:
\* tests/e2e/test_dream_deduplication.py.)
NoRepeatedProposal ==
    \A q, r \in Runs :
        (/\ Stands(q) /\ Stands(r)
         /\ run[q].request < run[r].request
         /\ run[q].principal = run[r].principal
         /\ run[q].print = run[r].print) => ~ (run[q].cites \subseteq run[r].evidence)

\* Sources that wait are passed over by at most YieldAfter Dream attempts
\* before a source pass completes.
BoundedBypass == bypass <= YieldAfter

\* Every accepted run ends, in a result or in a failure.
RunsEnd == \A r \in Runs : Live(r) ~> Terminal(r)
================================================================================
