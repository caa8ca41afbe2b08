---------------------------- MODULE TopicMemoryWork ----------------------------
(***************************************************************************)
(* Topic Memory processing of one scope: the frozen target of a claimed    *)
(* request (runtime/topic_memory_scope.py), the durable allowance that all *)
(* attempts at one cursor position share (persistence/                     *)
(* topic_memory_budget.py), the block that is recorded when it is spent,   *)
(* and the operator's retry (persistence/topic_memory_recovery.py).  Every *)
(* table involved is keyed by scope and binding, so one scope is the whole *)
(* story; what its rows share with other scopes is the lease.              *)
(*                                                                         *)
(* Every action is one transaction; all of them lock the journal head of   *)
(* the scope before they decide.  The status reader's first, unlocked read *)
(* is an action of its own.  The lease is reduced to its generation, as    *)
(* FencedTerms and SupervisionLease justify; it grows when the lease is    *)
(* lost, and the next supervisor dispatches when it likes.  The request    *)
(* and token ceilings behave alike; one counter stands for both.           *)
(***************************************************************************)
EXTENDS ProcessingIntents, Sequences

CONSTANTS Workers,      \* slots for worker processes, of whatever term
          WindowLimit,  \* source_window_limit
          MaxAttempts,  \* MAX_TOPIC_MEMORY_WORK_ATTEMPTS
          MaxCharges,   \* MAX_TOPIC_MEMORY_WORK_REQUESTS (and _TOKENS)
          MaxHead,      \* bound: journal rows
          MaxRequests,  \* bound: explicit requests stop at this generation
          MaxTerm       \* bound: supervisor generations

ASSUME TopicBounds ==
    /\ {WindowLimit, MaxAttempts, MaxCharges} \subseteq Nat \ {0}
    /\ {MaxHead, MaxRequests, MaxTerm} \subseteq Nat
    /\ IsFiniteSet(Workers)

VARIABLES
    term,         \* generation of the lease that is valid, or next to be
    head,         \* position of the journal head row
    cursor,       \* source-cursor row; gen = 0 means no row
    intent,       \* intent row of the binding
    pending,      \* pending row; through = 0 means no row
    target,       \* frozen target row; gen = 0 means no row
    budget,       \* budget[a]: allowance row of frontier a; attempt = 0: none
    blocks,       \* block rows
    worker,       \* worker[w]: assignment and local variables
    reader,       \* a status reader between its two reads
    asked,        \* history: asked[g], the head when request g was accepted
    spent         \* history: charges ever committed at the current cursor

vars == <<term, head, cursor, intent, pending, target, budget, blocks,
          worker, reader, asked, spent>>

journal == <<head, cursor>>
history == <<asked, spent>>

Frontiers == 0..MaxHead

NoPending == [through |-> 0, flush |-> 0, handled |-> 0]
NoTarget == [gen |-> 0, through |-> 0, flush |-> 0, dirty |-> 0]
NoBudget == [attempt |-> 0, attempts |-> 0, charges |-> 0, code |-> "",
             finished |-> FALSE, term |-> 0]
NoReader == [attempt |-> 0, lockedLease |-> FALSE]
Idle == [phase |-> "idle", term |-> 0, claimed |-> 0, round |-> 0,
         target |-> NoTarget, after |-> 0, gen |-> 0, through |-> 0,
         attempt |-> 0, code |-> ""]

\* RECOVERABLE_TOPIC_MEMORY_REJECTIONS, of which one stands for all.
Recoverable == {"related_history_limit"}

\* RECORDED_TOPIC_MEMORY_REJECTIONS.
Recorded == Recoverable \cup {"source_complexity_limit"}

\* A generation error that is neither (input_budget_exceeded, ...).
Codes == Recorded \cup {"input_budget_exceeded"}

Ceilings == {"window_attempt_limit", "window_provider_budget_exceeded"}

Init ==
    /\ term = 1
    /\ head = 0
    /\ cursor = [at |-> 0, gen |-> 0]
    /\ intent = Absent
    /\ pending = NoPending
    /\ target = NoTarget
    /\ budget = [a \in Frontiers |-> NoBudget]
    /\ blocks = {}
    /\ worker = [w \in Workers |-> Idle]
    /\ reader = NoReader
    /\ asked = <<>>
    /\ spent = 0

--------------------------------------------------------------------------------
(* Pending row (persistence/processing.py).                                *)

Larger(a, b) == IF a > b THEN a ELSE b
Smaller(a, b) == IF a < b THEN a ELSE b

\* _upsert_pending(): the row only moves forward.
UpsertPending(row, through, flushes) ==
    [row EXCEPT !.through = Larger(@, through), !.flush = @ + flushes]

\* mark_flush_handled() on an existing row.
MarkFlushHandled(row, claimed) ==
    IF row = NoPending THEN row
    ELSE [row EXCEPT !.handled = Larger(@, Smaller(claimed, row.flush))]

\* Mutated form of DeleteIfCovered: input that came later does not keep it.
DeleteIfHandled(row, at, limit) ==
    IF row.handled = row.flush THEN NoPending ELSE row

\* delete_if_covered(): the row goes once its input and its flushes are done.
DeleteIfCovered(row, at, limit) ==
    IF row.through <= Smaller(at, limit) /\ row.handled = row.flush
    THEN NoPending ELSE row

--------------------------------------------------------------------------------
(* Callers.                                                                *)

\* add() of a new source: journal row, pending row and dirty mark.
AddSource ==
    /\ head < MaxHead
    /\ head' = head + 1
    /\ pending' = UpsertPending(pending, head + 1, 0)
    /\ intent' = MarkDirty(intent, 0, 1)
    /\ UNCHANGED <<term, cursor, target, budget, blocks, worker,
                   reader, history>>

\* What request_flush() and request() write together.
AcceptFlush ==
    /\ cursor.at < head
    /\ pending' = UpsertPending(pending, head, 1)
    /\ intent' = AcceptRequest(intent, 0)
    /\ asked' = Append(asked, head)

\* request_topic_memory_flush(); refused when nothing is unread.
RequestFlush ==
    /\ intent.requested < MaxRequests
    /\ AcceptFlush
    /\ UNCHANGED <<term, journal, target, budget, blocks, worker,
                   reader, spent>>

\* A scheduled scan admits the dirty scope.
AutoAdmit ==
    /\ Dirty(intent) /\ ~ Pending(intent) /\ intent.requested < MaxRequests
    /\ intent' = Admit(intent, intent.lastScan + 1)
    /\ asked' = Append(asked, head)
    /\ UNCHANGED <<term, journal, pending, target, budget, blocks,
                   worker, reader, spent>>

\* The lease runs out or is revoked, and the next generation is another
\* supervisor's whenever it comes.  Workers of the old term live on.
EndTerm ==
    /\ term < MaxTerm
    /\ term' = term + 1
    /\ UNCHANGED <<journal, intent, pending, target, budget, blocks,
                   worker, reader, history>>

--------------------------------------------------------------------------------
(* Blocks (persistence/topic_memory_recovery.py).                          *)

\* exhausted_reason(): why the frontier stops, or "".
Reason(row) ==
    IF row.code \notin Recoverable \cup {""} THEN row.code
    ELSE IF row.attempts >= MaxAttempts
         THEN IF row.code = "" THEN "window_attempt_limit" ELSE row.code
    ELSE IF row.charges >= MaxCharges THEN "window_provider_budget_exceeded"
    ELSE ""

\* load_topic_memory_work_budget() at the current cursor.
Row == budget[cursor.at]

Spent == Row.attempt > 0 /\ Reason(Row) # ""

\* The target's end, or the head when no target is frozen.
TargetEnd == IF target = NoTarget THEN head ELSE target.through

\* There is a spent row with work left behind it.
Blockable == Spent /\ TargetEnd > cursor.at

Blocked == \E b \in blocks : b.after = cursor.at /\ b.attempt = Row.attempt

\* blocks after observe_topic_memory_block() has found the current frontier
\* spent: the block of its attempt is there, new or as first observed.
BlocksObserved ==
    IF ~ Blockable \/ Blocked THEN blocks
    ELSE blocks \cup {[after |-> cursor.at, attempt |-> Row.attempt,
                       code |-> Reason(Row), retry |-> 0]}

\* status(): the first read, which takes no lock on the row.  The lease is
\* locked and read next when the attempt it saw is unfinished.
ReadStatus ==
    /\ reader = NoReader
    /\ Spent
    /\ reader' = [attempt |-> Row.attempt, lockedLease |-> ~ Row.finished]
    /\ UNCHANGED <<term, journal, intent, pending, target, budget, blocks, worker, history>>

\* Mutated form of MayObserve: the attempt is not compared again.
MayObserveAny ==
    \/ Row.finished
    \/ ~ (reader.lockedLease /\ Row.term = term)

\* The reader may record the block: the attempt has ended, or it is the one
\* whose lease was inspected and that lease is gone.
MayObserve ==
    \/ Row.finished
    \/ /\ Row.attempt = reader.attempt
       /\ ~ (reader.lockedLease /\ Row.term = term)

\* status(): the rest, under the lease and head locks.
FinishStatus ==
    /\ reader # NoReader
    /\ reader' = NoReader
    /\ blocks' = IF MayObserve THEN BlocksObserved ELSE blocks
    /\ UNCHANGED <<term, journal, intent, pending, target, budget,
                   worker, history>>

\* The guard of retry_topic_memory_block(): the block is still what the
\* frontier stands on, and request_flush() finds unread input.
Retryable(b) ==
    /\ b.after = cursor.at
    /\ Row.attempt = b.attempt
    /\ Reason(Row) = b.code
    /\ cursor.at < head

\* retry_topic_memory_block(): a fresh allowance and a new request.  A block
\* that was already retried is returned as it is.
Retry(b) ==
    /\ b.retry = 0
    /\ intent.requested < MaxRequests
    /\ Retryable(b)
    /\ budget' = [budget EXCEPT ![cursor.at] = NoBudget]
    /\ AcceptFlush
    /\ blocks' = (blocks \ {b}) \cup {[b EXCEPT !.retry = intent'.requested]}
    /\ UNCHANGED <<term, journal, target, worker, reader, spent>>

--------------------------------------------------------------------------------
(* The supervisor of the current term.                                     *)

\* No worker of this term holds the scope's slot.
SlotFree ==
    \A v \in Workers : worker[v].phase = "idle" \/ worker[v].term # term

\* _dispatch(): the admission probe finds the frontier spent.
ProbeBlocks ==
    /\ SlotFree /\ Pending(intent)
    /\ Blockable /\ ~ Blocked
    /\ blocks' = BlocksObserved
    /\ UNCHANGED <<term, journal, intent, pending, target, budget,
                   worker, reader, history>>

\* _dispatch(): the probe lets the scope pass, as it also does for a blocked
\* scope with a pending Dream request (dream).
Dispatch(w, dream) ==
    /\ SlotFree /\ Pending(intent)
    /\ worker[w].phase = "idle"
    /\ dream \/ ~ Blockable
    /\ worker' = [worker EXCEPT ![w] =
                     [Idle EXCEPT !.phase = "assigned", !.term = term,
                                  !.claimed = intent.requested]]
    /\ UNCHANGED <<term, journal, intent, pending, target, budget, blocks, reader, history>>

\* record_topic_memory_work_failure(): settle the current attempt, once.
Settled(row) == IF Blocked THEN row ELSE [row EXCEPT !.finished = TRUE]

\* _reap() of a worker that ended in an error: under its fence, its attempt
\* (whatever attempt the frontier has) is settled.  A recording that fails or
\* times out is only logged.
Reap(w, recorded) ==
    /\ worker[w].phase = "dead"
    /\ worker' = [worker EXCEPT ![w] = Idle]
    /\ budget' = IF recorded /\ worker[w].term = term /\ Row.attempt > 0
                 THEN [budget EXCEPT ![cursor.at] = Settled(@)] ELSE budget
    /\ UNCHANGED <<term, journal, intent, pending, target, blocks,
                   reader, history>>

--------------------------------------------------------------------------------
(* Workers (runtime/topic_memory_scope.py, topic_memory_processing.py).    *)

\* require_fence().
Fenced(w) == worker[w].term = term

CursorUnmoved(w) == cursor = [at |-> worker[w].after, gen |-> worker[w].gen]

\* TopicMemoryWorkBudget._current().  It fails only for a worker whose fence or
\* cursor has gone as well, since a term has one worker for the scope.
Current(w) == Row.attempt = worker[w].attempt

\* The process has ended in an error and waits to be reaped.
Dead(w) == [Idle EXCEPT !.phase = "dead", !.term = worker[w].term]

\* The scope processor has caught the generation error `code`.
Failed(w, code) ==
    [Idle EXCEPT !.phase = "failed", !.term = worker[w].term, !.code = code]

\* The claim, with what process() keeps of it between two windows.
Claim(w, phase, round, t) ==
    [Idle EXCEPT !.phase = phase, !.term = worker[w].term,
                 !.claimed = worker[w].claimed, !.round = round, !.target = t]

\* The target _target() inserts when none is frozen.
FreezeTarget(w) ==
    [gen |-> worker[w].claimed, through |-> head, flush |-> pending.flush,
     dirty |-> intent.dirty]

\* _target(): nothing to do for a handled claim; otherwise the row that is
\* there, or a new one frozen at the head.
Target(w) ==
    /\ worker[w].phase = "assigned"
    /\ Fenced(w)
    /\ IF intent.handled >= worker[w].claimed
       THEN /\ worker' = [worker EXCEPT ![w] = Idle]
            /\ UNCHANGED target
       ELSE /\ target.gen <= worker[w].claimed
            /\ target' = IF target = NoTarget THEN FreezeTarget(w) ELSE target
            /\ worker' = [worker EXCEPT ![w] =
                             Claim(w, "target", worker[w].round, target')]
    /\ UNCHANGED <<term, journal, intent, pending, budget, blocks,
                   reader, history>>

\* Mutated form of AcknowledgedBy: the worker's claim, whatever it finished.
AcknowledgedClaim(w) == worker[w].claimed

\* The request _finish_target() acknowledges.
AcknowledgedBy(w) == worker[w].target.gen

\* _finish_target() with the cursor at `at`: the flushes and the request the
\* target captured are handled, and the scope is clean up to the captured
\* dirty mark when nothing arrived since.
FinishTarget(w, at) ==
    LET t == worker[w].target
        marked == MarkFlushHandled(pending, t.flush)
        covered == marked.through <= t.through /\ marked.flush <= t.flush
        cleanTo == IF covered /\ head <= t.through THEN t.dirty ELSE 0
    IN  /\ target = t
        /\ at >= t.through
        /\ pending' = IF t.through > 0 THEN DeleteIfCovered(marked, at, t.through)
                      ELSE marked
        /\ AcknowledgeAllowed(intent, AcknowledgedBy(w), cleanTo)
        /\ intent' = Acknowledge(intent, AcknowledgedBy(w), cleanTo)
        /\ target' = NoTarget

\* process() after a finished target: done when it was the claim's own, else
\* one more round for the claim; a third is target_did_not_converge.
NextRound(w) ==
    worker' = [worker EXCEPT ![w] =
                 IF worker[w].target.gen = worker[w].claimed THEN Idle
                 ELSE IF worker[w].round = 0 THEN Claim(w, "assigned", 1, NoTarget)
                 ELSE Dead(w)]

\* _process_target(), head of the loop: read the cursor; a target that is
\* already covered is finished in the same transaction.
ProcessTarget(w) ==
    /\ worker[w].phase = "target"
    /\ Fenced(w)
    /\ IF cursor.at >= worker[w].target.through
       THEN FinishTarget(w, cursor.at) /\ NextRound(w)
       ELSE /\ worker' = [worker EXCEPT ![w].phase = "selecting",
                                        ![w].after = cursor.at,
                                        ![w].gen = cursor.gen]
            /\ UNCHANGED <<intent, pending, target>>
    /\ UNCHANGED <<term, journal, budget, blocks, reader, history>>

\* select(): refuse a spent frontier, else choose a prefix of the target.
\* It is outside the fence.
Select(w, through) ==
    LET row == budget[worker[w].after]
        end == Smaller(worker[w].target.through, worker[w].after + WindowLimit)
    IN  /\ worker[w].phase = "selecting"
        /\ through \in (worker[w].after + 1)..end
        /\ IF row.attempt > 0 /\ Reason(row) # ""
           THEN worker' = [worker EXCEPT ![w] = Failed(w, Reason(row))]
           ELSE worker' = [worker EXCEPT ![w].phase = "window",
                                         ![w].through = through]
        /\ UNCHANGED <<term, journal, intent, pending, target, budget, blocks, reader, history>>

\* uuid4(): an id that no row and no process knows.
FreshAttempt ==
    LET known == {budget[a].attempt : a \in Frontiers}
                 \cup {b.attempt : b \in blocks}
                 \cup {worker[w].attempt : w \in Workers} \cup {reader.attempt}
    IN  CHOOSE n \in 1..(Cardinality(known) + 1) : n \notin known

\* Mutated form of Charged: a new attempt is not counted.
ChargedUncounted(w) ==
    [Row EXCEPT !.attempts = 1, !.attempt = FreshAttempt, !.finished = FALSE,
                !.term = worker[w].term]

\* The row begin() leaves: a new attempt, charged to the shared allowance.
Charged(w) ==
    [Row EXCEPT !.attempts = @ + 1, !.attempt = FreshAttempt,
                !.finished = FALSE, !.term = worker[w].term]

\* begin(): a spent frontier keeps its reason, and the error is raised after
\* the commit; otherwise a new attempt starts.
Begin(w) ==
    /\ worker[w].phase = "window"
    /\ Fenced(w) /\ CursorUnmoved(w)
    /\ IF Spent
       THEN /\ budget' = [budget EXCEPT ![cursor.at].code = Reason(Row)]
            /\ worker' = [worker EXCEPT ![w] = Failed(w, Reason(Row))]
       ELSE /\ budget' = [budget EXCEPT ![cursor.at] = Charged(w)]
            /\ worker' = [worker EXCEPT ![w].phase = "running",
                                        ![w].attempt = FreshAttempt]
    /\ UNCHANGED <<term, journal, intent, pending, target, blocks, reader,
                   history>>

\* Mutated form of Exceeds: the reservation itself is not counted.
ExceedsBefore(n) == Row.charges > MaxCharges

\* The reservation would pass the ceiling.
Exceeds(n) == Row.charges + n > MaxCharges

\* reserve(): charge n before the provider is called.  Over the ceiling the
\* terminal code is committed before the error is raised.
Reserve(w, n) ==
    /\ worker[w].phase = "running"
    /\ Fenced(w) /\ CursorUnmoved(w) /\ Current(w)
    /\ LET code == IF Row.code \notin Recoverable \cup {""} THEN Row.code
                   ELSE IF Exceeds(n) THEN "window_provider_budget_exceeded"
                   ELSE ""
       IN  IF code # ""
           THEN /\ budget' = [budget EXCEPT ![cursor.at].code = code]
                /\ worker' = [worker EXCEPT ![w].phase = "failing", ![w].code = code]
                /\ UNCHANGED spent
           ELSE /\ budget' = [budget EXCEPT ![cursor.at].charges = @ + n]
                /\ spent' = spent + n
                /\ UNCHANGED worker
    /\ UNCHANGED <<term, journal, intent, pending, target, blocks,
                   reader, asked>>

\* Generation rejects the window.
Reject(w, code) ==
    /\ worker[w].phase = "running"
    /\ worker' = [worker EXCEPT ![w].phase = "failing", ![w].code = code]
    /\ UNCHANGED <<term, journal, intent, pending, target, budget, blocks, reader, history>>

\* fail() for a recorded rejection, record_failure() for any other: the
\* first also leaves its code on the row.
RecordFailure(w) ==
    /\ worker[w].phase = "failing"
    /\ Fenced(w) /\ CursorUnmoved(w) /\ Current(w)
    /\ budget' = [budget EXCEPT ![cursor.at] =
                    LET row == Settled(@)
                    IN  IF worker[w].code \in Recorded
                        THEN [row EXCEPT !.code = worker[w].code] ELSE row]
    /\ worker' = [worker EXCEPT ![w] = Failed(w, worker[w].code)]
    /\ UNCHANGED <<term, journal, intent, pending, target, blocks,
                   reader, history>>

\* _generation_failure(): the failed worker attests that it has stopped.  It
\* ends blocked, or in the error when the block is about something else.
GenerationFailure(w) ==
    /\ worker[w].phase = "failed"
    /\ Fenced(w)
    /\ blocks' = BlocksObserved
    /\ IF Blockable /\ (\E b \in BlocksObserved : /\ b.after = cursor.at
                                                  /\ b.attempt = Row.attempt
                                                  /\ b.code = worker[w].code)
       THEN worker' = [worker EXCEPT ![w] = Idle]
       ELSE worker' = [worker EXCEPT ![w] = Dead(w)]
    /\ UNCHANGED <<term, journal, intent, pending, target, budget,
                   reader, history>>

\* publish(): one transaction deletes the allowance, moves the cursor and,
\* for the last window, finishes the target.
Publish(w) ==
    /\ worker[w].phase = "running"
    /\ Fenced(w) /\ CursorUnmoved(w) /\ Current(w)
    /\ Row.code \in Recoverable \cup {""}
    /\ budget' = [budget EXCEPT ![cursor.at] = NoBudget]
    /\ cursor' = [at |-> worker[w].through, gen |-> cursor.gen + 1]
    /\ target = worker[w].target
    /\ IF worker[w].through = target.through
       THEN FinishTarget(w, worker[w].through) /\ NextRound(w)
       ELSE /\ worker' = [worker EXCEPT ![w] = Claim(w, "target", worker[w].round, target)]
            /\ UNCHANGED <<intent, pending, target>>
    /\ spent' = 0
    /\ UNCHANGED <<term, head, blocks, reader, asked>>

\* LEADERSHIP_LOST, CURSOR_CONFLICT, or a newer target: nothing is written
\* and the invocation ends.
Refused(w) ==
    /\ worker[w].phase \notin {"idle", "selecting", "dead"}
    /\ \/ ~ Fenced(w)
       \/ worker[w].phase \in {"window", "running", "failing"} /\ ~ CursorUnmoved(w)
       \/ worker[w].phase = "assigned" /\ target.gen > worker[w].claimed
    /\ worker' = [worker EXCEPT ![w] = Idle]
    /\ UNCHANGED <<term, journal, intent, pending, target, budget, blocks, reader, history>>

\* HEAD_CONFLICT: the publication is rolled back because an Artifact moved.
\* The attempt is spent and stays unsettled.
HeadConflict(w) ==
    /\ worker[w].phase = "running"
    /\ worker' = [worker EXCEPT ![w] = Idle]
    /\ UNCHANGED <<term, journal, intent, pending, target, budget, blocks, reader, history>>

\* Provider error, timeout, termination or crash.
Crash(w) ==
    /\ worker[w].phase \notin {"idle", "dead"}
    /\ worker' = [worker EXCEPT ![w] = Dead(w)]
    /\ UNCHANGED <<term, journal, intent, pending, target, budget, blocks, reader, history>>

--------------------------------------------------------------------------------
Next ==
    \/ AddSource \/ RequestFlush \/ AutoAdmit \/ EndTerm
    \/ ReadStatus \/ FinishStatus
    \/ \E b \in blocks : Retry(b)
    \/ ProbeBlocks
    \/ \E w \in Workers :
          \/ \E dream \in BOOLEAN : Dispatch(w, dream)
          \/ \E recorded \in BOOLEAN : Reap(w, recorded)
          \/ Target(w) \/ ProcessTarget(w) \/ Begin(w)
          \/ \E through \in 1..MaxHead : Select(w, through)
          \/ \E n \in 1..MaxCharges : Reserve(w, n)
          \/ \E code \in Codes : Reject(w, code)
          \/ RecordFailure(w) \/ GenerationFailure(w) \/ Publish(w)
          \/ Refused(w) \/ HeadConflict(w) \/ Crash(w)

Spec == Init /\ [][Next]_vars

\* A run ends somehow: the supervisor terminates a worker at its timeout.
EndRun(w) ==
    /\ worker[w].phase = "running"
    /\ \/ \E n \in 1..MaxCharges : Reserve(w, n)
       \/ Publish(w) \/ HeadConflict(w) \/ Crash(w) \/ Refused(w)
       \/ \E code \in Codes : Reject(w, code)
    /\ worker'[w].phase # "running"

\* The supervisor's loop runs and a terminated worker is reaped.  A worker that
\* is started for ever gets as far as its first charge at some time, and a
\* probe meets the scope without a pending Dream request at some time.  Nothing
\* is assumed of what an attempt achieves.
Fairness ==
    /\ WF_vars(AutoAdmit)
    /\ SF_vars(ProbeBlocks)
    /\ WF_vars(\E w \in Workers : Dispatch(w, FALSE))
    /\ \A w \in Workers :
          /\ WF_vars(\E recorded \in BOOLEAN : Reap(w, recorded))
          /\ WF_vars(Refused(w)) /\ WF_vars(EndRun(w))
          /\ WF_vars(RecordFailure(w)) /\ WF_vars(GenerationFailure(w))
          /\ SF_vars(Target(w)) /\ SF_vars(ProcessTarget(w)) /\ SF_vars(Begin(w))
          /\ SF_vars(\E through \in 1..MaxHead : Select(w, through))

FairSpec == Spec /\ Fairness

--------------------------------------------------------------------------------
(* Properties.                                                             *)

Phases == {"idle", "assigned", "target", "selecting", "window", "running",
           "failing", "failed", "dead"}

Reasons == Codes \cup Ceilings

TargetRows == [gen : Nat, through : Nat, flush : Nat, dirty : Nat]

PendingRows == [through : Nat, flush : Nat, handled : Nat]

BudgetRows ==
    [attempt : Nat, attempts : Nat, charges : Nat, code : {""} \cup Reasons,
     finished : BOOLEAN, term : Nat]

BlockRows == [after : Nat, attempt : Nat, code : Reasons, retry : Nat]

WorkerRows ==
    [phase : Phases, term : Nat, claimed : Nat, round : {0, 1},
     target : TargetRows, after : Nat, gen : Nat, through : Nat,
     attempt : Nat, code : {""} \cup Reasons]

\* Every variable has the shape of its rows.
TypeOK ==
    /\ term \in Nat
    /\ head \in Frontiers
    /\ cursor \in [at : Frontiers, gen : Nat]
    /\ intent \in IntentRows
    /\ pending \in PendingRows
    /\ target \in TargetRows
    /\ budget \in [Frontiers -> BudgetRows]
    /\ blocks \subseteq BlockRows
    /\ worker \in [Workers -> WorkerRows]
    /\ reader \in [attempt : Nat, lockedLease : BOOLEAN]
    /\ asked \in Seq(Nat)
    /\ spent \in Nat

\* A handled request has been read to the head it was accepted at, even when
\* an older target of another term was finished first: _finish_target()
\* acknowledges the target's request, never the newest.
RequestsCovered ==
    \A g \in 1..intent.handled : asked[g] <= cursor.at

\* Unread journal rows are never forgotten: the intent is dirty and the
\* pending row reaches the head, whatever arrived while a target was frozen
\* (the covered test and delete_if_covered() in _finish_target()).
UnreadIsRemembered ==
    cursor.at < head => Dirty(intent) /\ pending.through = head

\* A block that was observed and not retried stays the truth about its
\* frontier: no attempt moves the cursor past it, replaces it or changes its
\* reason, so the operator's retry never meets a conflict.  The status
\* reader's second look and the fence carry this.
BlocksStayRetryable ==
    \A b \in blocks : b.retry = 0 => Retryable(b)

\* However many attempts, terms and workers share a frontier, the provider
\* is charged one allowance for it and one more for every accepted retry.
ChargesBounded ==
    spent <= MaxCharges *
        (1 + Cardinality({b \in blocks : b.after = cursor.at /\ b.retry > 0}))

\* An accepted request is handled or its scope is visibly blocked, even if
\* every attempt fails: no silent retry loop (the attempt ceiling).
RequestsSettle ==
    \A g \in 1..MaxRequests :
        intent.requested >= g ~>
            intent.handled >= g \/ (\E b \in blocks : b.retry = 0)
================================================================================
