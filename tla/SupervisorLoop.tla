---------------------------- MODULE SupervisorLoop -----------------------------
(***************************************************************************)
(* The control loop of ArtifactProcessingSupervisor for one family, in     *)
(* single-process mode and without a schedule: _cycle() reaps finished     *)
(* workers, discovers open requests in bounded pages, queues due retries   *)
(* and dispatches, while requests, wake() calls, worker exits and time go  *)
(* on around it.  Every await of the loop is a boundary between actions.   *)
(*                                                                         *)
(* Scopes are numbered by their pending_sequence.  Deadlines are kept as   *)
(* the time left until them, so "deadline <= now" is left = 0.  The        *)
(* notification counter is kept as the one thing it is compared for:       *)
(* whether wake() was called since the discovery in progress began.        *)
(***************************************************************************)
EXTENDS Integers, FiniteSets, Sequences, Functions

CONSTANTS N,            \* number of registered scopes
          CanBlock,     \* scopes whose domain can reject work durably
          MaxWorkers,   \* max_workers of the binding
          PageSize,     \* _DISCOVERY_PAGE_SIZE
          ChannelLimit, \* _CHANNEL_QUEUE_LIMIT
          RetryLimit,   \* _RETRY_STATE_LIMIT
          Backoff,      \* longest retry delay, in ticks
          BlockCheck,   \* blocked_check_seconds, in ticks
          MaxRequests,  \* bound: explicit requests per scope
          MaxRestarts   \* bound: lost terms and removals of the binding

Scopes == 1..N

ASSUME LoopAssumption ==
    /\ N \in Nat /\ CanBlock \subseteq Scopes
    /\ {MaxWorkers, PageSize, ChannelLimit, RetryLimit, Backoff, BlockCheck}
           \subseteq Nat \ {0}
    /\ MaxRequests \in Nat /\ MaxRestarts \in Nat

VARIABLES
    requested, handled,  \* the intent rows' request generations
    blocked,       \* scopes the domain's work_block probe rejects
    wakeOwed,      \* a request is committed and wake() not called yet
    pc,            \* the await the loop is at
    ready,         \* state.ready; state.queued is its range
    retryQueued,   \* state.retry_queued
    running,       \* running[s]: worker task, or its outcome once done
    claimed,       \* claimed[s]: claimed_request_generation of that worker
    retries,       \* keys of state.retries, in dict order
    retry,         \* retry[s]: its _RetryState while s is a key
    requestedAfter,\* state.requested_after
    page,          \* rows a discovery transaction has just read
    noticed,       \* notification_at_start # _notifications
    pending,       \* state.discovery_pending
    overflow,      \* time left until overflow_not_before
    rescan,        \* time left until blocked_rescan_at, or Never
    discoveryDelay,\* time left until next_discovery_at
    probe,         \* the assignment whose work_block probe is awaited
    restarts,      \* terms lost and bindings removed so far
    cooling        \* history: backoff time left since a scope's last failure

durable == <<requested, handled, blocked>>
queue == <<ready, retryQueued>>
workers == <<running, claimed>>
backoff == <<retries, retry, overflow, rescan>>
discovery == <<requestedAfter, page, discoveryDelay>>
wakeup == <<noticed, pending>>

vars == <<durable, wakeOwed, pc, queue, workers, backoff, discovery, wakeup,
          probe, restarts, cooling>>

Never == -1

Least(a, b) == IF a < b THEN a ELSE b

Greatest(a, b) == IF a < b THEN b ELSE a

Open(s) == requested[s] > handled[s]

Outcomes == {"ok", "failed", "conflict", "blocked"}

NoRetry == [left |-> 0, block |-> FALSE, generation |-> 0]

NoPage == [rows |-> <<>>, limit |-> 0, generation |-> [s \in Scopes |-> 0]]

NoProbe == [scope |-> 0, generation |-> 0]

Init ==
    /\ requested = [s \in Scopes |-> 0]
    /\ handled = [s \in Scopes |-> 0]
    /\ blocked \in SUBSET CanBlock
    /\ wakeOwed = FALSE
    /\ pc = "idle"
    /\ ready = <<>> /\ retryQueued = {}
    /\ running = [s \in Scopes |-> "none"]
    /\ claimed = [s \in Scopes |-> 0]
    /\ retries = <<>> /\ retry = [s \in Scopes |-> NoRetry]
    /\ overflow = 0 /\ rescan = Never
    /\ requestedAfter = 0 /\ page = NoPage /\ discoveryDelay = 0
    /\ noticed = FALSE /\ pending = TRUE
    /\ probe = NoProbe
    /\ restarts = 0
    /\ cooling = [s \in Scopes |-> 0]

\* The members of q that are in S, in their order: what a comprehension over a
\* deque, a dict or a page of rows leaves.  It is SelectSeq, defined without
\* recursion so that it can be reasoned about.
Kept(q, S) ==
    LET places == {i \in DOMAIN q : q[i] \in S}
        place(n) == CHOOSE i \in places : Cardinality({j \in places : j <= i}) = n
    IN  [n \in 1..Cardinality(places) |-> q[place(n)]]

Running == {s \in Scopes : running[s] # "none"}

Queued == Range(ready)

\* Mutated form of FreshCapacity: the fresh channel has no share of its own.
FreshCapacityUnshared == PageSize - Len(ready)

\* _fresh_capacity()
FreshCapacity ==
    Least(PageSize - Len(ready),
          ChannelLimit - (Len(ready) - Cardinality(retryQueued)))

--------------------------------------------------------------------------------
(* The world around the loop.                                              *)

\* An API accepts a request; its wake() call follows the commit.
RequestScope(s) ==
    /\ requested[s] < MaxRequests
    /\ requested' = [requested EXCEPT ![s] = @ + 1]
    /\ wakeOwed' = TRUE
    /\ UNCHANGED <<handled, blocked, pc, queue, workers, backoff, discovery,
                   wakeup, probe, restarts, cooling>>

\* wake()
Wake ==
    /\ wakeOwed
    /\ wakeOwed' = FALSE
    /\ noticed' = TRUE
    /\ pending' = TRUE
    /\ UNCHANGED <<durable, pc, queue, workers, backoff, discovery, probe,
                   restarts, cooling>>

\* The domain's durable rejection is lifted.
Unblock(s) ==
    /\ s \in blocked
    /\ blocked' = blocked \ {s}
    /\ UNCHANGED <<requested, handled, wakeOwed, pc, queue, workers, backoff,
                   discovery, wakeup, probe, restarts, cooling>>

\* A worker's task is done.  Success has acknowledged the claim; a failure
\* may strike after the acknowledgement (a crash before the report).
WorkerEnds(s, outcome, acknowledged) ==
    /\ running[s] = "active"
    /\ outcome = "ok" => acknowledged
    /\ outcome \in {"conflict", "blocked"} => ~ acknowledged
    /\ outcome = "blocked" => s \in CanBlock
    /\ running' = [running EXCEPT ![s] = outcome]
    /\ handled' = IF acknowledged
                  THEN [handled EXCEPT ![s] = Greatest(@, claimed[s])]
                  ELSE handled
    /\ blocked' = IF outcome = "blocked" THEN blocked \cup {s} ELSE blocked
    /\ UNCHANGED <<requested, wakeOwed, pc, queue, claimed, backoff, discovery,
                   wakeup, probe, restarts, cooling>>

Passed(left) == IF left > 0 THEN left - 1 ELSE left

Tick ==
    /\ retry' = [s \in Scopes |-> [retry[s] EXCEPT !.left = Passed(@)]]
    /\ overflow' = Passed(overflow)
    /\ rescan' = Passed(rescan)
    /\ discoveryDelay' = Passed(discoveryDelay)
    /\ cooling' = [s \in Scopes |-> Passed(cooling[s])]
    /\ UNCHANGED <<durable, wakeOwed, pc, queue, workers, retries,
                   requestedAfter, page, wakeup, probe, restarts>>

--------------------------------------------------------------------------------
(* _defer()                                                                *)

Sooner(left) == IF rescan = Never THEN left ELSE Least(rescan, left)

Without(q, s) == Kept(q, Scopes \ {s})

\* Entries a full table may give up: due or blocked, and not in use.
Evictable ==
    Kept(retries, {k \in Scopes : /\ retry[k].left = 0 \/ retry[k].block
                                  /\ k \notin Queued
                                  /\ k \notin Running})

\* The table, the gates and the wake() that _defer() leaves behind for scope
\* s with the given _RetryState.
Deferred(s, entry) ==
    LET present == s \in Range(retries)
        full == Len(retries) >= RetryLimit
        kept == IF present \/ ~ full THEN retries
                ELSE Without(retries, Head(Evictable))
        stored == [retries |-> IF present THEN retries ELSE Append(kept, s),
                   retry |-> [retry EXCEPT ![s] = entry],
                   overflow |-> overflow, rescan |-> rescan, wake |-> FALSE]
    IN  CASE present \/ ~ full -> stored
          [] ~ present /\ full /\ Evictable # <<>> ->
                LET evicted == Head(Evictable)
                IN  [stored EXCEPT
                        !.retry[evicted] = NoRetry,
                        !.rescan = IF retry[evicted].block
                                   THEN Sooner(retry[evicted].left) ELSE @]
          [] ~ present /\ full /\ Evictable = <<>> /\ entry.block ->
                [retries |-> retries, retry |-> retry, overflow |-> overflow,
                 rescan |-> Sooner(entry.left), wake |-> FALSE]
          [] ~ present /\ full /\ Evictable = <<>> /\ ~ entry.block ->
                [retries |-> retries, retry |-> retry,
                 overflow |-> Greatest(overflow, entry.left),
                 rescan |-> rescan, wake |-> TRUE]

Apply(deferred) ==
    /\ retries' = deferred.retries
    /\ retry' = deferred.retry
    /\ overflow' = deferred.overflow
    /\ rescan' = deferred.rescan

\* state.retries.pop(scope, None)
Forget(s) ==
    /\ retries' = Without(retries, s)
    /\ retry' = [retry EXCEPT ![s] = NoRetry]
    /\ UNCHANGED <<overflow, rescan>>

--------------------------------------------------------------------------------
(* One cycle: reap, discover, activate retries, dispatch.                  *)

BeginCycle ==
    /\ pc = "idle"
    /\ pc' = "reap"
    /\ UNCHANGED <<durable, wakeOwed, queue, workers, backoff, discovery,
                   wakeup, probe, restarts, cooling>>

\* _reap() of one finished worker.  delay is the backoff of a failure.  A
\* success counts only with its durable acknowledgement, a failure also when
\* the acknowledgement is there.  The slot is freed and wake() called.
Reap(s, delay) ==
    /\ pc = "reap"
    /\ running[s] \in Outcomes
    /\ running[s] # "failed" => delay = 1
    /\ LET entry == IF running[s] = "blocked"
                    THEN [left |-> BlockCheck, block |-> TRUE,
                          generation |-> claimed[s]]
                    ELSE [left |-> delay, block |-> FALSE, generation |-> 0]
       IN  IF running[s] = "ok" THEN Forget(s) ELSE Apply(Deferred(s, entry))
    /\ cooling' = [cooling EXCEPT ![s] =
                      IF running[s] \in {"failed", "conflict"} THEN delay ELSE 0]
    /\ running' = [running EXCEPT ![s] = "none"]
    /\ claimed' = [claimed EXCEPT ![s] = 0]
    /\ noticed' = TRUE
    /\ pending' = TRUE
    /\ UNCHANGED <<durable, wakeOwed, pc, queue, discovery, probe, restarts>>

\* No finished worker is left; the rescan deadline of evicted blocks is
\* checked before discovery.
EndReap ==
    /\ pc = "reap"
    /\ \A s \in Scopes : running[s] \notin Outcomes
    /\ pc' = "discover"
    /\ rescan' = IF rescan = 0 THEN Never ELSE rescan
    /\ pending' = (pending \/ rescan = 0)
    /\ UNCHANGED <<durable, wakeOwed, queue, workers, retries, retry, overflow,
                   discovery, noticed, probe, restarts, cooling>>

\* Mutated form of Discoverable: overflow_not_before is not waited for.
DiscoverableDuringOverflow ==
    /\ Cardinality(Running) < MaxWorkers
    /\ FreshCapacity > 0
    /\ discoveryDelay = 0

Discoverable ==
    /\ Cardinality(Running) < MaxWorkers
    /\ FreshCapacity > 0
    /\ discoveryDelay = 0
    /\ overflow = 0

\* The open requests after requestedAfter, in pending_sequence order.
OpenRows(limit) ==
    LET found == {s \in Scopes : s > requestedAfter /\ Open(s)}
        first == {s \in found : Cardinality({t \in found : t < s}) < limit}
    IN  Kept([s \in Scopes |-> s], first)

\* The read transaction of _discover_requested().
ReadPage ==
    LET limit == Least(FreshCapacity, PageSize)
    IN  /\ pc = "discover"
        /\ Discoverable
        /\ pending
        /\ page' = [rows |-> OpenRows(limit), limit |-> limit,
                    generation |-> requested]
        /\ noticed' = (noticed /\ requestedAfter # 0)
        /\ pc' = "apply"
        /\ UNCHANGED <<durable, wakeOwed, queue, workers, backoff,
                       requestedAfter, discoveryDelay, pending, probe,
                       restarts, cooling>>

SkipDiscovery ==
    /\ pc = "discover"
    /\ ~ (Discoverable /\ pending)
    /\ pc' = "retries"
    /\ UNCHANGED <<durable, wakeOwed, queue, workers, backoff, discovery,
                   wakeup, probe, restarts, cooling>>

\* The transaction fails or times out: the family is degraded for a tick.
DiscoveryFails ==
    /\ pc = "apply"
    /\ page' = NoPage
    /\ discoveryDelay' = 1
    /\ pc' = "retries"
    /\ UNCHANGED <<durable, wakeOwed, queue, workers, backoff, requestedAfter,
                   wakeup, probe, restarts, cooling>>

\* A row of the page that goes to the queue: free, or a blocked retry with a
\* request newer than the one it was blocked for.
Requeued(s) ==
    /\ s \in Range(retries)
    /\ retry[s].block
    /\ page.generation[s] > retry[s].generation

\* Mutated form of Enqueueable: the queue and the workers are not looked at.
EnqueueableTwice(s) == s \notin Range(retries) \/ Requeued(s)

Enqueueable(s) ==
    /\ s \notin Queued
    /\ s \notin Running
    /\ s \notin Range(retries) \/ Requeued(s)

\* Mutated form of NextAfter: a short page does not restart the walk.
NextAfterKept(rows, short) ==
    IF rows = <<>> THEN requestedAfter ELSE rows[Len(rows)]

\* The page position after a page: a short page ends the walk.
NextAfter(rows, short) == IF short THEN 0 ELSE rows[Len(rows)]

\* Mutated form of DiscoveryOwed: notifications during the walk do not count.
DiscoveryOwedByPage(short) == ~ short

\* discovery_pending after a page.
DiscoveryOwed(short) == noticed \/ ~ short

\* The rest of _discover_requested(): queue the rows, advance or restart the
\* page position, and decide whether discovery is still owed.
ApplyPage ==
    LET rows == page.rows
        short == Len(rows) < page.limit
        fresh == Kept(rows, {s \in Scopes : Enqueueable(s)})
    IN  /\ pc = "apply"
        /\ ready' = ready \o fresh
        /\ retryQueued' = retryQueued \cup {s \in Range(fresh) : Requeued(s)}
        /\ requestedAfter' = NextAfter(rows, short)
        /\ pending' = DiscoveryOwed(short)
        /\ discoveryDelay' = IF short THEN discoveryDelay ELSE 1
        /\ page' = NoPage
        /\ pc' = "retries"
        /\ UNCHANGED <<durable, wakeOwed, workers, backoff, noticed, probe,
                       restarts, cooling>>

\* _activate_retries(): due entries join the queue, up to the retry channel's
\* share, and move to the end of the table.
ActivateRetries ==
    LET dueKeys == Kept(retries, {s \in Scopes : /\ retry[s].left = 0
                                                 /\ s \notin Running
                                                 /\ s \notin Queued})
        allowance == Least(PageSize - Len(ready),
                           ChannelLimit - Cardinality(retryQueued))
        taken == SubSeq(dueKeys, 1, Least(Len(dueKeys), allowance))
    IN  /\ pc = "retries"
        /\ ready' = ready \o taken
        /\ retryQueued' = retryQueued \cup Range(taken)
        /\ retries' = Kept(retries, Scopes \ Range(taken)) \o taken
        /\ pc' = "dispatch"
        /\ UNCHANGED <<durable, wakeOwed, workers, retry, overflow, rescan,
                       discovery, wakeup, probe, restarts, cooling>>

\* The loop condition of _dispatch().
CanPop ==
    /\ pc \in {"dispatch", "more"}
    /\ ready # <<>>
    /\ Cardinality(Running) < MaxWorkers

Pop ==
    /\ ready' = Tail(ready)
    /\ retryQueued' = retryQueued \ {Head(ready)}

InBackoff(s) ==
    s \in Range(retries) /\ ~ retry[s].block /\ retry[s].left > 0

\* The popped key is still in backoff, or its request is handled already.
PopIdle ==
    LET s == Head(ready)
    IN  /\ CanPop
        /\ InBackoff(s) \/ ~ Open(s)
        /\ Pop
        /\ IF InBackoff(s) THEN UNCHANGED backoff ELSE Forget(s)
        /\ pc' = "more"
        /\ UNCHANGED <<durable, wakeOwed, workers, discovery, wakeup, probe,
                       restarts, cooling>>

\* Mutated form of Claim: the generation the next request will get.
ClaimNext(s) == requested[s] + 1

\* claimed_request_generation of a new assignment.
Claim(s) == requested[s]

\* The popped key has an open request, which is claimed.  A binding with a
\* work_block probe awaits it before launching.
PopOpen ==
    LET s == Head(ready)
    IN  /\ CanPop
        /\ ~ InBackoff(s)
        /\ Open(s)
        /\ Pop
        /\ IF CanBlock = {}
           THEN /\ running' = [running EXCEPT ![s] = "active"]
                /\ claimed' = [claimed EXCEPT ![s] = Claim(s)]
                /\ pc' = "more"
                /\ UNCHANGED probe
           ELSE /\ probe' = [scope |-> s, generation |-> Claim(s)]
                /\ pc' = "probe"
                /\ UNCHANGED workers
        /\ UNCHANGED <<durable, wakeOwed, backoff, discovery, wakeup, restarts,
                       cooling>>

\* The probe finds no block: launch.  A blocked entry becomes a due one.
ProbePasses ==
    LET s == probe.scope
    IN  /\ pc = "probe"
        /\ s \notin blocked
        /\ running' = [running EXCEPT ![s] = "active"]
        /\ claimed' = [claimed EXCEPT ![s] = probe.generation]
        /\ retry' = IF s \in Range(retries) /\ retry[s].block
                    THEN [retry EXCEPT ![s].left = 0, ![s].block = FALSE]
                    ELSE retry
        /\ probe' = NoProbe
        /\ pc' = "more"
        /\ UNCHANGED <<durable, wakeOwed, queue, retries, overflow, rescan,
                       discovery, wakeup, restarts, cooling>>

\* The entry with which a probe that does not pass defers its scope:
\* _wait_for_block(), or _defer_admission_error() with its backoff unless the
\* entry is blocked already.
ProbeEntry(s, rejected, delay) ==
    IF rejected \/ (s \in Range(retries) /\ retry[s].block)
    THEN [left |-> BlockCheck, block |-> TRUE, generation |-> probe.generation]
    ELSE [left |-> delay, block |-> FALSE, generation |-> 0]

ProbeDefers(rejected, delay) ==
    LET s == probe.scope
        entry == ProbeEntry(s, rejected, delay)
        deferred == Deferred(s, entry)
    IN  /\ pc = "probe"
        /\ rejected => s \in blocked
        /\ entry.block => delay = 1
        /\ Apply(deferred)
        /\ noticed' = (noticed \/ deferred.wake)
        /\ pending' = (pending \/ deferred.wake)
        /\ cooling' = [cooling EXCEPT ![s] = IF entry.block THEN @ ELSE delay]
        /\ probe' = NoProbe
        /\ pc' = "more"
        /\ UNCHANGED <<durable, wakeOwed, queue, workers, discovery, restarts>>

\* Nothing left to pop, or the shared admission allowance is used up.
EndDispatch ==
    /\ \/ pc = "more"
       \/ pc = "dispatch" /\ ~ CanPop
    /\ pc' = "idle"
    /\ UNCHANGED <<durable, wakeOwed, queue, workers, backoff, discovery,
                   wakeup, probe, restarts, cooling>>

\* A family state without workers, queue, retries or page position, which
\* owes a discovery.
ClearedFamily ==
    /\ ready' = <<>> /\ retryQueued' = {}
    /\ running' = [s \in Scopes |-> "none"]
    /\ claimed' = [s \in Scopes |-> 0]
    /\ retries' = <<>> /\ retry' = [s \in Scopes |-> NoRetry]
    /\ overflow' = 0 /\ rescan' = Never
    /\ requestedAfter' = 0 /\ page' = NoPage
    /\ pending' = TRUE
    /\ probe' = NoProbe
    /\ cooling' = [s \in Scopes |-> 0]

\* _lose_leadership() after an error in the loop, and the next term.  All
\* workers are cancelled and the family's memory is cleared.  After a process
\* restart a wake() that was still owed never comes.
LoseTerm(restart) ==
    /\ restarts < MaxRestarts
    /\ restarts' = restarts + 1
    /\ pc' = IF pc = "removed" THEN pc ELSE "idle"
    /\ ClearedFamily
    /\ wakeOwed' = (wakeOwed /\ ~ restart)
    /\ discoveryDelay' = IF restart THEN 0 ELSE discoveryDelay
    /\ noticed' = (noticed /\ ~ restart)
    /\ UNCHANGED durable

\* _apply_binding_changes() between two cycles.  A plugin's transition first
\* removes the family: its workers are cancelled and awaited, and outcomes not
\* reaped yet are dropped with the old state.  Until the binding is registered
\* again the variables are those of the _FamilyState it will start with; its
\* noticed is set by ReadPage before it is read, because the walk restarts.
RemoveBinding ==
    /\ pc = "idle"
    /\ restarts < MaxRestarts
    /\ restarts' = restarts + 1
    /\ pc' = "removed"
    /\ ClearedFamily
    /\ discoveryDelay' = 0
    /\ UNCHANGED <<durable, wakeOwed, noticed>>

RegisterBinding ==
    /\ pc = "removed"
    /\ pc' = "idle"
    /\ UNCHANGED <<durable, wakeOwed, queue, workers, backoff, discovery,
                   wakeup, probe, restarts, cooling>>

--------------------------------------------------------------------------------
Delays == 1..Backoff

Next ==
    \/ \E s \in Scopes : RequestScope(s)
    \/ Wake
    \/ \E s \in Scopes : Unblock(s)
    \/ \E s \in Scopes, o \in Outcomes, a \in BOOLEAN : WorkerEnds(s, o, a)
    \/ Tick
    \/ BeginCycle
    \/ \E s \in Scopes, d \in Delays : Reap(s, d)
    \/ EndReap
    \/ ReadPage
    \/ SkipDiscovery
    \/ DiscoveryFails
    \/ ApplyPage
    \/ ActivateRetries
    \/ PopIdle
    \/ PopOpen
    \/ ProbePasses
    \/ \E rejected \in BOOLEAN, d \in Delays : ProbeDefers(rejected, d)
    \/ EndDispatch
    \/ \E restart \in BOOLEAN : LoseTerm(restart)
    \/ RemoveBinding
    \/ RegisterBinding

Spec == Init /\ [][Next]_vars

\* A step of the loop's own task.
Loop ==
    \/ BeginCycle \/ EndReap \/ ReadPage \/ SkipDiscovery \/ DiscoveryFails
    \/ ApplyPage \/ ActivateRetries \/ PopIdle \/ PopOpen \/ ProbePasses
    \/ EndDispatch
    \/ \E s \in Scopes, d \in Delays : Reap(s, d)
    \/ \E rejected \in BOOLEAN, d \in Delays : ProbeDefers(rejected, d)

\* The loop's task is scheduled (its sleep is bounded by the next pending
\* observation), time passes, a committed request's wake() is called, workers
\* end (worker_timeout_seconds), the transition that removed a binding goes on
\* to register its successor, and neither discovery nor the processing of a
\* scope fails for ever.
FairSpec ==
    /\ Spec
    /\ WF_vars(Loop)
    /\ WF_vars(Tick)
    /\ WF_vars(Wake)
    /\ WF_vars(RegisterBinding)
    /\ SF_vars(ApplyPage)
    /\ \A s \in Scopes :
          /\ WF_vars(\E o \in Outcomes, a \in BOOLEAN : WorkerEnds(s, o, a))
          /\ SF_vars(WorkerEnds(s, "ok", TRUE))

--------------------------------------------------------------------------------
(* Properties.                                                             *)

\* Every attribute of the family state has its shape, and the intent rows
\* satisfy their CHECK constraint.
TypeOK ==
    /\ requested \in [Scopes -> Nat] /\ handled \in [Scopes -> Nat]
    /\ \A s \in Scopes : handled[s] <= requested[s]
    /\ blocked \subseteq CanBlock
    /\ wakeOwed \in BOOLEAN
    /\ pc \in {"idle", "reap", "discover", "apply", "retries", "dispatch",
               "more", "probe", "removed"}
    /\ ready \in Seq(Scopes) /\ retryQueued \subseteq Scopes
    /\ running \in [Scopes -> Outcomes \cup {"none", "active"}]
    /\ claimed \in [Scopes -> Nat]
    /\ retries \in Seq(Scopes)
    /\ retry \in [Scopes -> [left : Nat, block : BOOLEAN, generation : Nat]]
    /\ overflow \in Nat /\ rescan \in Nat \cup {Never}
    /\ requestedAfter \in Scopes \cup {0} /\ discoveryDelay \in Nat
    /\ page \in [rows : Seq(Scopes), limit : Nat, generation : [Scopes -> Nat]]
    /\ noticed \in BOOLEAN /\ pending \in BOOLEAN
    /\ probe \in [scope : Scopes \cup {0}, generation : Nat]
    /\ restarts \in Nat
    /\ cooling \in [Scopes -> Nat]

\* The in-memory structures keep their fixed bounds whatever the backlog:
\* workers, ready queue, its fresh half, and the retry table.
BoundedMemory ==
    /\ Cardinality(Running) <= MaxWorkers
    /\ Len(ready) <= PageSize
    /\ Len(ready) - Cardinality(retryQueued) <= ChannelLimit
    /\ Len(retries) <= RetryLimit

\* A scope has one place at a time: queued once, being probed, or running.
\* So no key is executed twice concurrently, and the retry markers and the
\* table never count a key twice.
OneInvocationPerKey ==
    /\ Cardinality(Queued) = Len(ready)
    /\ Cardinality(Range(retries)) = Len(retries)
    /\ Queued \cap Running = {}
    /\ probe.scope \notin Queued \cup Running
    /\ retryQueued \subseteq Queued

\* What in memory leads to scope s: a place in the loop, a retry entry,
\* discovery that is owed, a rescan, or a wake() that is about to be called.
Led(s) ==
    \/ s \in Queued \cup Running \cup Range(retries)
    \/ probe.scope = s
    \/ pending \/ wakeOwed \/ rescan # Never

\* Something in memory still leads to every scope with an open request.
\* Otherwise the request waits for an unrelated notification, because an
\* idle single-process supervisor does not poll.
NoForgottenRequest == \A s \in Scopes : Open(s) => Led(s)

\* A scope that failed is not launched again before its backoff has passed,
\* however many requests arrive and even when the retry table overflowed and
\* dropped it (overflow_not_before).
BackoffHolds ==
    [][\A s \in Scopes :
          running[s] = "none" /\ running'[s] = "active" => cooling[s] = 0]_vars

\* The queue's other half stays free for fresh work: the retry channel never
\* takes more than its share.
RetryChannelBounded == Cardinality(retryQueued) <= ChannelLimit

\* Every accepted request is handled, with a retry table smaller than the
\* number of failing scopes, a queue smaller than the backlog, failed
\* discovery, and requests that arrive while a page is being read or while the
\* binding is being replaced.
RequestsHandled == \A s \in Scopes : Open(s) ~> ~ Open(s)
================================================================================
