# PowerContext artifact processing in TLA+

PowerContext records *sources* (what agents saw and did) and turns them into *artifacts*
(memories, experiences, profiles, skills). Recording is a short transaction; turning sources
into artifacts takes minutes of model calls and is done in worker processes, controlled by one
leading supervisor per deployment. What can go wrong lies between the two: a window of sources
processed twice, not at all, or by a supervisor that has been replaced; a request acknowledged
by somebody who never saw it; a queue that forgets a scope.

This directory models that part: the durable intents, the source-window protocol, the
supervisor lease, the scheduled scan, the supervisor's control loop, the work budget of Topic
Memory, the Dream runs, and the Atomic Memories with their merges, windows and reviews. TLC
checks small instances; TLAPS proves the safety properties of the source protocol, the lease,
the scans, the loop, Topic Memory work, Dream and the Memories for every number of scopes, workers,
processes, runs and artifacts.

Paths below are relative to `src/src/powercontext/builtin/` unless they say otherwise.

## 1. Inventory

| component | state | operations | hard because | correct when | here |
|---|---|---|---|---|---|
| processing intents (`persistence/processing_intents.py`) | one row per (scope, binding): dirty/clean, requested/handled generations, last scan, pending sequence | ensure, mark dirty, request, admit, acknowledge, scan | written by callers, scans and workers of several terms | handled and clean never run ahead of what was really done | `ProcessingIntents` |
| source journal (`persistence/sources.py`) | head position per scope, journal rows | add sources: allocate positions, mark every binding dirty | appends race with workers | rows and their dirty marks commit together | `SourceIncubation` |
| source-window protocol (`runtime/relational.py`, `runtime/processing_execution.py`, `persistence/cursors.py`, `triggers/source_window.py`) | cursor per (scope, binding) | read a window, call the model, publish + move cursor + acknowledge | state read before a long await, used after it | each row in exactly one window, in order, eventually | `SourceIncubation`, `JournalConsumer` |
| reconciliation (`runtime/processing_discovery.py`) | page position | mark scopes dirty that have rows past the cursor | one-time pass at the start of a term | rows older than the binding are found | `SourceIncubation` |
| supervisor lease (`persistence/supervision.py`, `_acquire`, `_renew`, `_lose_leadership`) | lease row; fence, status and unreaped handles per process | start/acquire/renew/revoke a term, fence a transaction | expiry, crash, orphaned workers, failed revocation | one holder per generation, no publication of an old term | `SupervisionLease`, `FencedTerms` |
| scheduled scans (`_discover_automatic`) | binding state row; page position in memory | start, read a page, admit, finish | pages limited by free capacity, commit answers lost, restarts | nobody skipped, nobody admitted twice, the scan ends | `AutomaticScan` |
| supervisor loop (`runtime/artifact_processing.py`) | ready queue, retry table, running tasks, timers per family | reap, discover, activate retries, dispatch, defer | requests and wake-ups between any two awaits; three bounded tables | bounded memory, one execution per key, backoff kept, nothing forgotten | `SupervisorLoop` |
| worker processes (`_SpawnedWorkerHandle`, `_run_spawned_worker`, `runtime/family_processing.py`) | pipe, exit code | run, report, be terminated | die after the commit and before the report; refuse to exit | outcome classification | steps of the three modules |
| Topic Memory processing (`runtime/topic_memory_scope.py`, `topic_memory_processing.py`, `persistence/topic_memory_budget.py`, `topic_memory_recovery.py`, the pending row of `persistence/processing.py`) | frozen target, pending row, allowance per cursor position, block rows | freeze, select, begin, reserve, fail, publish, finish; observe a block, retry it | attempts of several terms share one allowance; a status reader and an operator act on rows a worker uses | requests covered, nothing unread forgotten, blocks stay true, charges bounded, no silent retry loop | `TopicMemoryWork` |
| Dream (`dream/service.py`, `persistence/dream.py`, `runtime/dream_processing.py`) | run rows, consecutive attempts on the intent | create, claim, reuse, call, commit, retry, yield | shares invocations with source work; search and proposal on either side of a model call | no stranded run, bounded attempts and usage, no proposal repeated, bounded bypass of sources | `DreamRuns` |
| artifact merge service and store (`artifacts/merge*.py`, `persistence/artifacts.py`, `artifact_governance.py`) | heads, revisions, lifecycle, merge relations | create, change, forget, merge, restore, undo | inspect, prepare without a lock, commit; relations over several artifacts | groups stay restorable, previews bind | `MemoryMerges` |
| Atomic Memory windows (`runtime/atomic_memory_processing.py`, `persistence/memory_windows.py`) | cursor, reduction hint | read, decide, reduce, publish | minutes between reading and publishing; overlapping flushes | each source applied once | `MemoryMerges` |
| review and candidates (`review/service.py`, `persistence/candidates.py`) | candidate head | propose, revise, reject, approve | approval in two transactions | what was reviewed is what is published | `MemoryMerges` (and as `Review` in `DreamRuns`) |
| Profile processor | profile head | flush | same invocation protocol | - | not modelled |
| skill publication, handoff, catalog | targets, receipts, feed | publish, withdraw | stale heads | - | not modelled |
| source management (`../source_management/`) | checkpoints of source deployments | deploy, resume | crash between effect and checkpoint | - | not modelled |
| scope registry, server and authorization, service controller | rows, policies, OS services | CRUD, checks, start/stop | little protocol of their own | - | not modelled |
| retrieval, inference, code index, portability, CLI, gateway, desktop, integrations, evaluation | data, formats, UI | - | no protocol state | - | not modelled |

How they interact. A caller appends sources; the same transaction raises `dirty_generation` of
every binding of the scope. A request (explicit flush) or an admission (scheduled scan) raises
`requested_generation`. `wake()` tells the supervisor's loop, which reads open requests in
pages, queues their scopes, and dispatches: in a transaction fenced by the lease it claims the
current `requested_generation` and starts a worker process. The worker's first transaction
checks fence and claim and remembers `dirty_generation` and the cursor; its last one publishes
the window, moves the cursor by compare-and-set, writes handled := claim and, if nothing
remains, clean := the remembered dirty generation, and checks the fence again. Failures go to the retry table.
A supervisor that loses its lease revokes its term, cancels its workers and waits for those
whose exit is not confirmed.

The hazards this creates are listed, each at its line, in `PROJECT.json` ("hazards") with the
properties that would catch them.

## 2. Modules

`ProcessingIntents` has no variables: the row operations of the intent repository as operators
on a record, shared by the modules below. `pending_sequence` comes from a global counter row.
`consecutive_dream_attempts` is the variable `streak` of `DreamRuns` (only Dream reads it).

`SourceIncubation`: scopes of one binding, worker slots of whatever term, and slots for direct
flush calls (`processing=None`: the server's flush route calls the incubator without an
invocation). One action is one transaction: `AddSources`, `RequestFlush`, `AutoAdmit`,
`Reconcile`, `Dispatch`, `Start`/`StartDirect` (the reads before the model call), `Commit`
(publication, cursor, acknowledgement), `Refused` (any conflict or fence error), `Fail`
(anything else, crash included) and `ChangeTerm` (a new supervisor generation with its
reconcile pass). Workers of an old term stay where they are and may run on.

`JournalConsumer` is its abstract specification: a journal that grows and is consumed in
windows, in order, once, and never short of the head for ever. `ImplementsConsumer` is the
refinement (`consumed` is the cursor).

`SupervisionLease`: supervisor processes, the lease row, and worker slots with the steps of a
publishing transaction (fence check, second fence check, commit) taken apart, because the row
lock between them is what is at stake. Both lease modes (variable `mode`, chosen initially): the expiring one for
OceanBase, and the non-expiring single-process one, where a new process supersedes the row.
Losing a term has the code's three parts (forget the fence; revoke; cancel the workers), so a crash or a
takeover can fall between them. `FencedTerms` is its abstract specification.

`AutomaticScan`: `_discover_automatic` over the binding-state row, the intents and the
family's scan memory. Page limit (free capacity), scope filter and a lost commit answer are
inputs. The arithmetic of intervals and cron is `ScheduleFires`.

`SupervisorLoop`: the control loop of one family. `pc` says at which await the loop is;
requests, `wake()`, worker exits, lifted blocks, time and lost terms happen between any two
steps. Deadlines are kept as time left. The dict order of the retry table and the deque order
of the queue are kept, because eviction and rotation depend on them. Bounds of the code
(`_DISCOVERY_PAGE_SIZE`, `_CHANNEL_QUEUE_LIMIT`, `_RETRY_STATE_LIMIT`) are constants.

`TopicMemoryWork`: the work of one scope. A worker claims a request, freezes a *target* (`Target`:
the journal head, the flush and the dirty generation of that moment), and works through it window
by window: `ProcessTarget` reads the cursor, `Select` chooses a window, `Begin` charges an
attempt to the allowance row of the cursor position, `Reserve` charges provider calls before they
are made, `Publish` deletes the allowance, moves the cursor and finishes the target with its last
window. `Reject`, `RecordFailure`, `GenerationFailure`, `Refused`, `HeadConflict` and `Crash` are
the ways out; `Reap` is the supervisor's recording of a failure. A spent allowance is turned into
a block row by whoever sees it first: the failed worker, the dispatcher's probe (`ProbeBlocks`),
or the status reader, whose unlocked first read and locked second one are two actions
(`ReadStatus`, `FinishStatus`). `Retry` is the operator's. Workers of an old term go on until
the fence stops them.

`DreamRuns`: the Dream runs of one scope and binding and the invocations they share with source
work. `Create` accepts a run with a request; the worker of an invocation serves the oldest run
(`Claim`), yields (`Yield`) or leaves the invocation to the sources (`PassToSources`). An attempt
resolves its request to a fingerprint and a manifest of evidence (`Resolves`), searches for an
earlier proposal (`Reuse`, `NoReuse`), writes its call and what it is about before the model is
asked (`CallModel`), writes the usage that the answer reports (`RecordUsage`) and ends in
`Propose`, `ProposeNothing` or `FailOrRetry`; each transaction that ends it also acknowledges the
invocation (`CompleteInvocation`), after accepting another request when runs are left and the
claim was the newest (`KeepRunnable`).

`MemoryMerges`: the Atomic Memories of one scope. A head has a revision, a state version, a
lifecycle state, the result it was merged into, and, for a result, its marked inputs. Every
operation is an inspection and a commit with anything in between: clients create, change, forget,
merge, restore and undo; reviewers propose, revise, reject and approve; window flushes read,
plan, reduce and publish. `Path`, `Undone`, `Released`, `Group` and `Restorable` are
`calculate_restoration` and `_expand_undo` without their loops: the path is the least set closed under
`merged_into_id`. `born` and `applied` are history.

`MC*` modules instantiate these for TLC and add symmetry sets and views; `*Proofs` hold the theorems.

### Modelling decisions

* *Atomic transactions.* Each transaction locks the row it decides on before it reads it
  (`for_update=True`; SQLite takes its write lock at once). In particular the lock `start()`
  holds on the intent row keeps a concurrent append from committing its dirty mark between the
  dirty snapshot and the read of the journal. `Reconcile` handles one key per step although
  the code handles a page per transaction: its unlocked reads of head and cursor can only
  cause a superfluous dirty mark, never a missing one.
* *Orphans.* Worker processes are not daemons, so they survive a crash of the supervisor.
* *Model calls* are the gap between two actions of a worker; they end in `Commit`, `Refused` or `Fail`.
* *The loop's sleep.* `BeginCycle` is always enabled, because the sleep is bounded by
  `next_pending_observation_at`. Waking up is therefore never the problem; what a cycle then
  looks at is: in single-process mode `_discover_requested` returns at once unless
  `discovery_pending` is set.
* *Admission probe.* `work_block` is configured for Topic Memory only; `CanBlock` is the set of
  scopes it can reject, and empty for the other families.
* *Allowance.* The request and the token ceiling of Topic Memory behave alike; one counter
  stands for both. Of the recoverable rejections, the recorded ones and the others, one code each is kept.
* *Lease in `TopicMemoryWork` and `DreamRuns`.* It is reduced to its generation: `SupervisionLease`
  shows that a transaction commits under the newest one or not at all (`ImplementsFencedTerms`).
* *Dream* families without source work (skill, handoff, prompt) never yield; the model is of a
  binding with sources. Topic Memory does not yield to a blocked window; that exemption is left
  out, and the fairness below states what its absence needs.
* *Dream proposals.* `proposal_fingerprint` (`dream/provenance.py`) covers operation, target, policy
  and root sources, not the principal and not the selection. `Reusable` therefore has both of the
  code's further filters: `MatchingProposals` asks for the same principal, and `MatchesEvidence` for
  a Candidate all of whose references are in the attempt's own manifest. Two principals, or two
  selections over one root, do get two proposals with one fingerprint, as
  `tests/e2e/test_dream_deduplication.py:105` and `:134` assert; `NoRepeatedProposal` is what is left: the
  later of two such proposals of one principal that stand was made from evidence that did not cover the
  earlier. Until a call has been checkpointed each attempt resolves anew; from then on fingerprint
  and manifest are pinned, and a change fails the attempt.
* *Dream usage.* `dream/generation.py:15` promises one provider request per attempt. The model does not rely
  on it: `RecordUsage` adds up to `MaxSurplus` reported requests, as `_usage` does, and an attempt
  with any can only fail, be fenced or crash; after a crash the run is open with an overdrawn budget. The
  history field `surplus` separates those requests from the calls, so that `AttemptsBounded` says both
  what holds of the calls and by how much an answer can overdraw the budget. Too many output
  tokens fail an attempt like any other error and are not counted.
* *Merges.* A plan's writes are a function of its request and its reads, so `Outcome` computes them
  at the commit, where the reads are known to be current. Of a window's decisions one is kept:
  `_require_window` makes sure that they write different artifacts. Artifacts that were recalled
  and not changed are omitted from a window's reads, which only allows more commits than the code.
  An operation that writes nothing (forgetting what is forgotten, restoring what is active) is left
  out; restoring an older revision of an active artifact is a change. Failed authorization or
  evidence checks and expired tokens are `Abandon`. A preview has the same reads as the
  restoration, so `InspectRestore` is both.
* *Hot binding replacement.* A plugin's transition queues a removal and, after it has validated the
  plugin, a registration; the loop applies them between cycles, so `RemoveBinding` and
  `RegisterBinding` are two actions with `pc = "removed"` between them. The successor serves the
  same family; a registration that is refused leaves the family without a loop, and then nothing
  is promised for its requests.
* Not in `SupervisorLoop`: rotation over several families, `invocation_scope_filter` at dispatch,
  and the periodic polling of OceanBase mode.

## 3. Runs

| run | instance | shows |
|---|---|---|
| `source` | 1 scope, 2 workers, 1 direct caller, windows of 1 over 2 rows, 2 requests, 2 terms | `ExactlyOnce`, `NoLostInput`, `NoSwallowedRequest`, `ImplementsConsumer` with its liveness, `RequestsAnswered` |
| `lease` | both lease modes, 2 processes, 2 workers, lease of 2 ticks, 4 generations | `TransactionPinsTerm`, `NoChildOfEarlierTerm`, `GenerationHasOneHolder`, `ImplementsFencedTerms`, `DeadHolderReplaced` |
| `scan` | 2 scopes, pages of 1 or 2, 2 scans, 1 restart, 1 request | `FinishedScanOwesNothing`, `AdmittedOncePerScan`, `ScanEnds` |
| `loop_requests` | 2 scopes, 1 worker slot, 1 retry slot, queue of 2, no probe, 1 lost term or replaced binding | `NoForgottenRequest`, `RequestsHandled` |
| `loop_bounds` | the same with a probe for one scope and backoffs of up to 2 ticks | `BoundedMemory`, `OneInvocationPerKey`, `BackoffHolds` |
| `topic_safety` | 2 workers, 2 terms, 2 rows in windows of 1, 2 attempts, 1 charge per allowance, 2 requests | `RequestsCovered`, `UnreadIsRemembered`, `BlocksStayRetryable`, `ChargesBounded` |
| `topic_live` | 1 worker, 2 terms, 1 row | `RequestsSettle` |
| `dream_safety` | 3 runs (2 open at a time) of 2 principals with one fingerprint over 2 references, 2 workers, 2 terms, 2 attempts each, 1 surplus request, yield after 2, 2 sources | `NoStrandedRun`, `AttemptsBounded`, `NoRepeatedProposal`, `BoundedBypass` |
| `dream_live` | 2 runs, 1 worker, 2 terms, yield after 1, no surplus request | `RunsEnd` |
| `merges` | 3 Memories and 2 ids for results, 2 callers, 2 candidates, 2 sources; 4 commits of clients, 2 otherwise | `AlwaysRestorable`, `EndpointBinds`, `ReviewedIsPublished`, `RowsOnce` |
| `loop_forgotten` | 2 scopes, probe for one | *violation*: finding 1 |
| `loop_channel` | 2 scopes, probe for both | *violation*: finding 2 |

Why the bounds are enough. Two rows in windows of one give a second window after the first, an
append during processing, and a last window that covers the head or does not. Two terms let a worker of
the first publish beside its successor.
Scopes share only the pending sequence and the worker slots, so one scope shows the protocol;
the theorems cover any number. Four generations are two takeovers and two revocations. One
retry slot for two scopes makes the table overflow and evict; a queue of two with a fresh half
of one is smaller than the backlog plus retries. One charge per allowance makes every ceiling reachable;
two attempts make the attempt ceiling and the recoverable rejection differ. Two requests let a
frozen target be older than the claim that finishes it. Three runs of which two may be open give
a queue, a reuse and a refusal; two references give evidence that covers an earlier proposal, evidence
that does not, and both in turn. One surplus request already overdraws a budget of two; it ends an
attempt like any failure, which `dream_live` has without it. Three Memories and two results give a merge of a merge, and four
commits undo it or edit it in between. Where callers have different roles two commits and two candidates are
enough for every race of two operations; `role` is fixed initially so that the mixed and the
deep cases are explored with their own bound, and the theorems do without both. Requests, restarts,
scans, commits and journal rows are bounded in the guards by the constants named `Max...`.

Two runs use a `VIEW`. It drops only what no later step and no property reads: the local variables
of a worker that has lost its fence, retried blocks behind the cursor, and of a Dream run that has
ended all but a proposal that stands (and whether its budget was kept). That of `dream_safety` also
identifies states that differ in names only: runs are known by their place in the queue, principals by
the runs they have, request generations by their distance from the handled one.

`CHECK_DEADLOCK FALSE` stands where bounded input really ends (`SourceIncubation` and
`AutomaticScan` quiesce once nothing is left to append or scan, the Topic Memory, Dream and merge models once
their bounded requests, runs and commits are used up); the lease and the loop never stop.

### Fairness

* `SourceIncubation`: scans and dispatch go on (the loop is a task that is always rescheduled);
  a refused worker reports; strong fairness of `Start` and `Commit` says an invocation that is
  retried for ever does not fail for ever. Without it no retry loop terminates. Nothing is assumed of direct
  calls or of the order of terms.
* `SupervisionLease`: time passes, standbys poll, the renewal task notices a lost fence,
  transactions end, and a process told to exit dies (the terminate/kill sequence).
* `AutomaticScan`: the leader keeps running discovery cycles and not every commit loses its answer.
* `SupervisorLoop`: the loop's task is scheduled, time passes, a committed request's `wake()`
  is called (a process that dies instead loses its term, which sets `discovery_pending`),
  workers end (`worker_timeout_seconds`), the plugin transition that removed the binding
  registers its successor, discovery and processing do not fail for ever.
* `TopicMemoryWork`: the loop admits, probes, dispatches and reaps; a worker that is started for
  ever gets as far as its first charge at some time; an attempt ends (worker timeout), in whatever
  way. Nothing is assumed of what attempts achieve: the ceiling has to end them.
* `DreamRuns`: the supervisor dispatches, an attempt that has begun ends, workers are not killed for ever
  before their first transaction, and source passes do not fail for ever. The last is needed
  because Dream yields to sources: in the code only Topic Memory's blocked windows are exempt.

## 4. Proofs

`ProcessingIntentsProofs` holds the lemmas that every module with intent rows needs: what each
row operation (`MarkDirty`, `AcceptRequest`, `Acknowledge`, `Admit`) does to which field, and what
a page of `ScanPage` contains (it is closed downwards among the rows found, and a page that is not
full contains them all).

`SourceIncubationProofs` proves of `Spec`, for all values of the constants that satisfy their
assumptions (`SetsAssumption`, `BoundsAssumption`), in four layers, each resting on the one before:

1. `RowInv`: the type invariant with the intent table's CHECK constraints
   (`handled <= requested`, `clean <= dirty`) and that unregistered rows are empty.
   `TypeCorrect`.
2. `JournalInv`: the cursor is behind the head; a working flush whose cursor generation is
   still current computed its window from the current cursor (`WindowsFresh`). That link is
   what makes the compare-and-set sufficient. `WindowsAreExact` proves `ExactlyOnce`.
3. `DirtInv`: a worker's dirty snapshot is honest (`SnapshotsHonest`): if the intent's dirty
   generation is still the one it saw, the head is still the one it saw. Together with the
   window's end this is why writing clean := snapshot is right. `NothingIsLost` proves `NoLostInput`.
4. `RequestInv`: every accepted generation has its recorded head and a claim was accepted
   before the worker read the journal (`RequestsRecorded`). `RequestsAreNotSwallowed` proves
   `NoSwallowedRequest`.

`ConsumesInOrder` derives from 1 and 2 that every step is a step of `JournalConsumer` or
leaves its variables alone: the safety half of the refinement.

`SupervisionLeaseProofs` proves of `Spec`, in both modes, the invariant `LeaseInv`: types;
`TransactionPinsTerm`; every generation in use is at most the row's (`Bounded`);
`GenerationHasOneHolder`; a standby's own children are all recorded as unreaped
(`StandbyWaits`), which is what `_acquire` waits for; `NoChildOfEarlierTerm`. Theorems
`TypeCorrect`, `TransactionsPinTheirTerm`, `GenerationsAreExclusive`, `EarlierChildrenAreGone`,
and `LeaseImplementsTerms`: the lease implements `FencedTerms`, with `TransactionPinsTerm` as
the reason that a commit carries the newest generation.

`MemoryMergesProofs` proves of `Spec`, for any sets of artifacts, candidates and callers:

1. `Reviews`. Its part `Relations` is about the heads alone: an artifact is frozen into a result
   exactly if it is one of the result's marked inputs, at the marked revision
   (`FrozenIsMarked`, `MarkedIsFrozen`); results are younger than their inputs
   (`ResultsYounger`, over the history `born`), which makes `merged_into_id` acyclic and the path
   to the endpoint finite; a result has two inputs (`InputsPlural`). From it `AlwaysRestorable`
   follows (`RestorableAlways`): the endpoint exists because a set of results that is closed
   under `merged_into_id` has a youngest one. The other parts say that the plans and
   approvals under way still mean what they meant when inspected, as long as their reads are
   current; `ReviewedPublished` follows.
2. `Windows`: a flush whose cursor generation is current read its window from the current cursor.
   `SourcesOnce` proves `RowsOnce`.
3. `Operations` keeps, for every restoration under way, that an unchanged endpoint means
   unchanged reads. It holds because an artifact below the endpoint is frozen, and a frozen one
   changes only in a restoration that rewrites the endpoint as well. `EndpointAlwaysBinds`.
4. `TypeCorrect` puts the parts together.

`AutomaticScanProofs` proves of `Spec`, for any set of scopes and any page limits, the invariant
`ScanInv`: registered scopes have numbers of their own (`RowsNumbered`); marks are of scans that
have started (`MarksKnown`); what the current scan admitted, it marked (`AdmissionsMarked`); a
member the scan still owes is dirty, in range, unmarked, and *behind the page position the memory
has* (`OwedAhead`), which is the clause that survives page limits, lost answers and terms.
`ScansSkipNobody` and `ScansAdmitOnce` follow. That a page is finite is not assumed of the scopes
but derived from their distinct numbers.

`TopicMemoryWorkProofs` proves of `Spec`, for any finite pool of worker slots (`TopicBounds`: the
supervisor's worker limit is a number) and any limits, the invariant `TopicInv` in three parts:

1. `BaseInv`: types; each request is logged with its head (`RequestsAsked`); a frozen target
   reaches every request up to its own and not past the head (`TargetCovers`), which is why
   acknowledging the target's request is right (`RequestsAreCovered`); a worker's window lies inside
   its target (`WorkersPlaced`), so the cursor only moves forward and not past the head;
   `UnreadStaysKnown`.
2. `FrontierInv`: the running term has one worker for the scope (`OneWorkerPerTerm`); only the
   cursor's position has an allowance (`BudgetAtCursor`); a block is the only one of its attempt
   (`BlocksKeyed`); a worker that is at an attempt under the current fence and cursor holds the
   frontier's own attempt, open and of this term, *and no block stands* (`AttemptHeld`); a status
   reader that saw an attempt open has inspected its lease (`ReaderInspected`). The last two
   need each other: the reader is the one observer that runs beside a worker. `BlocksCanBeRetried`.
   The steps are sorted by what they do to the frontier (`FrontierKinds`: leave it alone, observe a
   block, retry, start an attempt, write to its row, publish), so that each clause has six cases.
3. `ChargesCounted`: what was spent at the position is at most the allowance in use and one full
   allowance per retried block. `ProviderChargesBounded`.

`DreamRunsProofs` proves of `Spec`, for any sets of runs, principals, fingerprints, references and workers, the invariant `DreamInv`:
types; one worker per term; no two workers are at the same attempt of a run
(`AttemptsExclusive`, because `claim()` raises the generation); attempts are counted before they
are used (`RunsCounted`, `CallsLeft`); an invocation left to the sources has a newer request behind
it while runs are live (`SourcesLeaveRequests`); a run behind an open one has not been claimed
(`ServedInOrder`); a search for a reusable proposal stays true until the attempt that made it
ends, as long as its term runs (`SearchesHold`); the bypass of waiting sources is at most the streak
(`BypassCounted`). `ServedInOrder` makes the order of requests the order of proposals: when an
attempt commits, whatever stands was requested before it, and its search has compared itself with
that. The steps within an attempt share one frame (`Continued`), those that end it another
(`Concluded`). `RunsAreReachable`, `BudgetHolds`, `ProposalsAreNotRepeated`, `SourcesGetTheirTurn`.

`SupervisorLoopProofs` proves of `Spec`, for any number of scopes and any sizes of pool, page,
channels and retry table (`LoopAssumption`), in three layers:

1. `LoopInv`: types; `BoundedMemory`; the deque and the table repeat nothing, and queue, probe and
   slots are apart (`PlacesOnce`); while a probe is awaited a slot stays free for it
   (`ProbeHasSlot`); a page that was read before an await still fits when it is applied, because only
   the loop fills the queue (`PageFits`); claims are of accepted requests (`ClaimsRequested`).
   `TypeCorrect`, `MemoryStaysBounded`, `OneInvocation`. Underneath are lemmas about sequences
   without repetition (`KeptFacts`, `ConcatFacts`, `TailFacts`, `FrontFacts`, `RangeSize`), about the
   first rows of a page (`FirstFacts`) and about `_defer()` (`DeferredFacts`). The filter `Kept`
   is defined by counting, since nothing can be proved of the recursive `SelectSeq`; the module
   `MCSupervisorLoop` has TLC compare the two.
2. `CoolingHeld`: a scope whose backoff has not passed is held by its own entry, or is outside queue
   and table while the overflow gate lasts at least as long. `BackoffKept` proves the action
   property `BackoffHolds`.
3. `WalkReachesOpen`: every open request is remembered, announced by a `wake()` to come, or ahead
   in the walk: behind the page position, in the page being applied, behind a full page, or left
   to the next walk because something was noticed during this one. `NothingForgotten` proves
   `NoForgottenRequest` under `RoomyTable` (no `work_block` probe, or a table with room for every
   scope). The condition is not a convenience: the step that needs it is `_defer()` in the admission
   probe, which finding 1 is about.

Each of these invariants was checked with TLC on the run's instance before it was proved.

Only model-checked: everything about fairness (`RequestsAnswered`, the liveness half of
`ImplementsConsumer`, `DeadHolderReplaced`, `ScanEnds`, `RequestsHandled`, `RequestsSettle`,
`RunsEnd`), which is out of the prover's reach. Every invariant and every safety action property
of the passing runs is proved.

## 5. Findings

1. *A due retry is evicted without a notification* (`loop_forgotten`). When the retry table is
   full, `_defer` drops the first expired entry. A dropped *block* schedules a rescan and an
   entry that does not fit wakes the loop, but a dropped ordinary failure whose delay has passed
   does neither. From `_reap` that is harmless, since a `wake()` follows. From the admission
   probe in `_dispatch` nothing follows: the evicted scope has an open request and no place in
   memory until an unrelated `wake()` or a new term. The processing RFC
   (`src/docs/en/rfcs/1515_artifact_processing_supervisor.md:437`) says a failure "retains retry
   responsibility for that Scope". It needs a family with a probe (Topic Memory); without one
   nothing is forgotten (`loop_requests`, and the theorem `NothingForgotten` for any sizes). The table holds many scopes in
   production, so the case is rare.
2. *The retry channel can exceed its half of the queue* (`loop_channel`). The comment above
   `_activate_retries` says "Each channel reserves half the bounded queue", but blocked scopes
   with a newer request are queued with `retry=True` by discovery, limited by the *fresh*
   capacity only. The whole queue stays bounded (`BoundedMemory`), the reservation does not hold.

## 6. Not modelled

The repository has some 300,000 lines. Most of them hold no protocol: the generated HTTP client
and schema, the server's request mapping, the desktop application, integrations, the evaluation
harnesses, parsing and indexing of code, ranking and prompt assembly, import and export formats.
What is modelled is the part in which several actors write the same durable rows; it is small,
and the share of all lines that the models stand for is small with it. Left out of it:

* payloads, prompts, ranking and formats; the pipe between supervisor and worker; telemetry;
* the rotation over several families and OceanBase polling in the loop;
* the wave tables of `persistence/processing.py` (kept for migration);
* the Profile processor (the invocation protocol of `SourceIncubation` with a head in place of the cursor);
* candidates, revisions and merges of the other families: Experience uses the same merge service,
  Skills have their own transitions and publications;
* source management checkpoints, catalog feed, handoffs, server ownership, service controller.

`PROJECT.json` ("components") gives the reason for each.

## 7. Plan

Done: intents, source windows, lease, scans, loop, Topic Memory work, Dream runs, Atomic Memory merges with
windows and reviews; proofs of source windows, lease, scans, loop, Topic Memory work, Dream and merges.

1. Skill publication receipts and source management checkpoints: effects outside the database
   that are recorded after they happen.
2. Composition of scan, loop and lease, with several families and OceanBase polling; the
   block of `TopicMemoryWork` in place of the set `blocked` of `SupervisorLoop`.
3. Profile heads as a second instance of the source-window protocol.
4. Proofs: the modules of 1 to 3 as they come.

To repeat the checks: `tlc -config X.cfg M` for each run in `PROJECT.json`, `tlapm M.tla` for
the proof modules.
