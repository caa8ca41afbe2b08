--------------------------- MODULE SourceIncubation ----------------------------
(***************************************************************************)
(* The durable protocol by which workers turn the source journal of a      *)
(* scope into published windows: append + mark dirty (sources.py), request *)
(* and automatic admission (processing_intents.py), reconciliation         *)
(* (processing_discovery.py), dispatch of a claimed request generation     *)
(* (artifact_processing.py), and the two worker transactions around the    *)
(* model call (relational.py, processing_execution.py, cursors.py).        *)
(*                                                                         *)
(* Every action is one database transaction.  Transactions that touch a    *)
(* scope's row lock it before they read what they decide on, so they are   *)
(* atomic here.  The lease is reduced to its generation (`term`): FencedTerms *)
(* is the abstraction SupervisionLease is shown to implement.  A worker of *)
(* an older term may run for as long as it likes.                          *)
(***************************************************************************)
EXTENDS ProcessingIntents, Sequences

CONSTANTS Scopes,       \* scopes of one binding
          Workers,      \* slots for worker processes, of whatever term
          Callers,      \* slots for direct flush calls outside the supervisor
          WindowLimit,  \* source_window_limit
          MaxHead,      \* bound: journal rows of a scope
          MaxRequests,  \* bound: explicit requests stop at this generation
          MaxTerm       \* bound: supervisor generations

ASSUME SetsAssumption == Scopes # {} /\ Workers \cap Callers = {}

ASSUME BoundsAssumption ==
    /\ WindowLimit \in Nat \ {0}
    /\ MaxHead \in Nat
    /\ MaxRequests \in Nat
    /\ MaxTerm \in Nat

VARIABLES
    term,         \* supervisor_generation of the lease row
    head,         \* head[s]: position of the journal head row
    cursor,       \* cursor[s]: source-cursor row; gen = 0 means no row
    intent,       \* intent[s]: intent row of the binding
    sequence,     \* the global pending_sequence row
    unreconciled, \* scopes this term's reconcile pages have still to visit
    worker,       \* worker[w]: assignment and local variables of a flush
    legacy,       \* history: scopes with rows appended before the binding
    emitted,      \* history: emitted[s][p], windows published over position p
    asked,        \* history: asked[s][g], the head when request g was accepted
    saw           \* history: saw[s], the head the last acknowledging worker saw

vars == <<term, head, cursor, intent, sequence, unreconciled, worker, legacy,
          emitted, asked, saw>>

Positions == 1..MaxHead

Flushes == Workers \cup Callers

Idle == [phase |-> "idle", scope |-> CHOOSE s \in Scopes : TRUE, term |-> 0,
         claimed |-> 0, dirty |-> 0, after |-> 0, through |-> 0, high |-> 0,
         generation |-> 0]

WorkerStates ==
    [phase : {"idle", "assigned", "working"}, scope : Scopes, term : Nat,
     claimed : Nat, dirty : Nat, after : Nat, through : Nat, high : Nat,
     generation : Nat]

\* A deployment may register the binding over journals that already exist.
Init ==
    /\ term = 1
    /\ head \in [Scopes -> {0, 1} \cap 0..MaxHead]
    /\ cursor = [s \in Scopes |-> [at |-> 0, gen |-> 0]]
    /\ intent = [s \in Scopes |-> Absent]
    /\ sequence = 0
    /\ unreconciled = Scopes
    /\ worker = [w \in Flushes |-> Idle]
    /\ legacy = {s \in Scopes : head[s] > 0}
    /\ emitted = [s \in Scopes |-> [p \in Positions |-> 0]]
    /\ asked = [s \in Scopes |-> <<>>]
    /\ saw = [s \in Scopes |-> 0]

--------------------------------------------------------------------------------
(* Inputs.                                                                 *)

\* add_many_with_status(): n new identities take the next positions and the
\* binding is marked dirty by n in the same transaction.
AddSources(s, n) ==
    /\ head[s] + n <= MaxHead
    /\ head' = [head EXCEPT ![s] = @ + n]
    /\ intent' = [intent EXCEPT ![s] = MarkDirty(@, sequence, n)]
    /\ sequence' = SequenceAfter(intent[s], sequence)
    /\ legacy' = legacy \ {s}
    /\ UNCHANGED <<term, cursor, unreconciled, worker, emitted, asked, saw>>

\* An explicit trigger accepts one invocation.
RequestFlush(s) ==
    /\ intent[s].requested < MaxRequests
    /\ intent' = [intent EXCEPT ![s] = AcceptRequest(@, sequence)]
    /\ sequence' = SequenceAfter(intent[s], sequence)
    /\ asked' = [asked EXCEPT ![s] = Append(@, head[s])]
    /\ UNCHANGED <<term, head, cursor, unreconciled, worker, legacy, emitted, saw>>

--------------------------------------------------------------------------------
(* The supervisor of the current term.                                     *)

\* One key of a scheduled scan: a dirty scope without an open request.
AutoAdmit(s) ==
    /\ Registered(intent[s])
    /\ Dirty(intent[s])
    /\ ~ Pending(intent[s])
    /\ intent' = [intent EXCEPT ![s] = Admit(@, @.lastScan + 1)]
    /\ asked' = [asked EXCEPT ![s] = Append(@, head[s])]
    /\ UNCHANGED <<term, head, cursor, sequence, unreconciled, worker, legacy,
                   emitted, saw>>

\* Mutated form of Reconcile: the page is walked, nothing is marked.
ReconcileNothing(s) ==
    /\ s \in unreconciled
    /\ unreconciled' = unreconciled \ {s}
    /\ UNCHANGED <<term, head, cursor, intent, sequence, worker, legacy,
                   emitted, asked, saw>>

\* reconcile() for one key of its page: rows past the cursor whose intent
\* claims there is nothing to do are marked dirty again.
Reconcile(s) ==
    /\ s \in unreconciled
    /\ unreconciled' = unreconciled \ {s}
    /\ IF head[s] > cursor[s].at /\ ~ Dirty(intent[s])
       THEN /\ intent' = [intent EXCEPT ![s] = MarkDirty(@, sequence, 1)]
            /\ sequence' = SequenceAfter(intent[s], sequence)
            /\ legacy' = legacy \ {s}
       ELSE UNCHANGED <<intent, sequence, legacy>>
    /\ UNCHANGED <<term, head, cursor, worker, emitted, asked, saw>>

\* ArtifactProcessingWorkAssignment for the latest request of s.
Assignment(s) ==
    [phase |-> "assigned", scope |-> s, term |-> term,
     claimed |-> intent[s].requested, dirty |-> 0, after |-> 0, through |-> 0,
     high |-> 0, generation |-> 0]

\* _dispatch(): claim the latest requested generation for a new worker,
\* unless this term already runs one for the scope.
Dispatch(w, s) ==
    /\ worker[w].phase = "idle"
    /\ Pending(intent[s])
    /\ \A v \in Workers : ~ (/\ worker[v].phase # "idle"
                             /\ worker[v].scope = s
                             /\ worker[v].term = term)
    /\ worker' = [worker EXCEPT ![w] = Assignment(s)]
    /\ UNCHANGED <<term, head, cursor, intent, sequence, unreconciled, legacy,
                   emitted, asked, saw>>

\* A takeover or a revocation.  Workers of the old term live on.
ChangeTerm ==
    /\ term < MaxTerm
    /\ term' = term + 1
    /\ unreconciled' = Scopes
    /\ UNCHANGED <<head, cursor, intent, sequence, worker, legacy, emitted,
                   asked, saw>>

--------------------------------------------------------------------------------
(* Workers.                                                                *)

\* ScopeInvocation.guard(): the fence holds and the claim is still open.
Guard(w) ==
    LET r == intent[worker[w].scope]
    IN  /\ worker[w].term = term
        /\ worker[w].claimed <= r.requested
        /\ r.handled < worker[w].claimed

\* Mutated form of CleanTo: what is dirty now, not what was when w started.
CleanToCurrent(w) ==
    IF worker[w].through < worker[w].high
    THEN 0 ELSE intent[worker[w].scope].dirty

\* The clean_generation of a published window: the dirty snapshot, or None
\* when the window did not reach the high watermark.
CleanTo(w) ==
    IF worker[w].through < worker[w].high THEN 0 ELSE worker[w].dirty

\* ScopeInvocation.complete() acknowledges the claim of w.  seen is the head
\* the invocation worked from.
Complete(w, cleanTo, seen) ==
    LET s == worker[w].scope
    IN  /\ AcknowledgeAllowed(intent[s], worker[w].claimed, cleanTo)
        /\ intent' = [intent EXCEPT ![s] =
                         Acknowledge(@, worker[w].claimed, cleanTo)]
        /\ saw' = [saw EXCEPT ![s] = seen]

\* SourceWindowTrigger.activate(): the next window after the cursor, up to
\* the high watermark; empty when nothing is new.
WindowEnd(after, high) ==
    IF high <= after THEN after
    ELSE IF after + WindowLimit < high THEN after + WindowLimit ELSE high

\* The worker's local variables after it read cursor and journal of s.
Snapshot(w, s) ==
    [phase |-> "working", scope |-> s, term |-> worker[w].term,
     claimed |-> worker[w].claimed, dirty |-> intent[s].dirty,
     after |-> cursor[s].at, through |-> WindowEnd(cursor[s].at, head[s]),
     high |-> head[s], generation |-> cursor[s].gen]

\* First transaction of flush(processing): guard, snapshot the dirty
\* generation, freeze a window.  Without a window the invocation is
\* acknowledged in the same transaction.
Start(w) ==
    LET s == worker[w].scope
    IN  /\ worker[w].phase = "assigned"
        /\ Guard(w)
        /\ IF head[s] > cursor[s].at
           THEN /\ worker' = [worker EXCEPT ![w] = Snapshot(w, s)]
                /\ UNCHANGED <<intent, saw>>
           ELSE /\ worker' = [worker EXCEPT ![w] = Idle]
                /\ Complete(w, intent[s].dirty, head[s])
        /\ UNCHANGED <<term, head, cursor, sequence, unreconciled, legacy,
                       emitted, asked>>

\* flush() without an invocation, called directly: no fence and no request.
StartDirect(w, s) ==
    /\ worker[w].phase = "idle"
    /\ head[s] > cursor[s].at
    /\ worker' = [worker EXCEPT ![w] = Snapshot(w, s)]
    /\ UNCHANGED <<term, head, cursor, intent, sequence, unreconciled, legacy,
                   emitted, asked, saw>>

\* Mutated form of CursorUnmoved: the save does not compare.
CursorAlwaysFree(w) == TRUE

\* The compare of SourceCursorRepository.save(): the row is still the one
\* that was read before the model call.
CursorUnmoved(w) == cursor[worker[w].scope].gen = worker[w].generation

\* Last transaction of flush(): guard, publish the window's results, save
\* the cursor against the generation read before the model call, complete.
Commit(w) ==
    LET s == worker[w].scope
        direct == worker[w].claimed = 0
    IN  /\ worker[w].phase = "working"
        /\ direct \/ Guard(w)
        /\ CursorUnmoved(w)
        /\ emitted' = [emitted EXCEPT ![s] =
                          [p \in Positions |->
                             IF worker[w].after < p /\ p <= worker[w].through
                             THEN @[p] + 1 ELSE @[p]]]
        /\ cursor' = [cursor EXCEPT ![s] = [at |-> worker[w].through,
                                            gen |-> worker[w].generation + 1]]
        /\ worker' = [worker EXCEPT ![w] = Idle]
        /\ IF direct
           THEN UNCHANGED <<intent, saw>>
           ELSE Complete(w, CleanTo(w), worker[w].high)
        /\ UNCHANGED <<term, head, sequence, unreconciled, legacy, asked>>

\* The transaction is refused: LEADERSHIP_LOST, already handled (NOOP), or a
\* cursor conflict.  Nothing is written.
Refused(w) ==
    /\ worker[w].phase # "idle"
    /\ \/ worker[w].claimed > 0 /\ ~ Guard(w)
       \/ worker[w].phase = "working" /\ ~ CursorUnmoved(w)
    /\ worker' = [worker EXCEPT ![w] = Idle]
    /\ UNCHANGED <<term, head, cursor, intent, sequence, unreconciled, legacy,
                   emitted, asked, saw>>

\* Model error, timeout, termination or crash at any point in between.
Fail(w) ==
    /\ worker[w].phase # "idle"
    /\ worker' = [worker EXCEPT ![w] = Idle]
    /\ UNCHANGED <<term, head, cursor, intent, sequence, unreconciled, legacy,
                   emitted, asked, saw>>

--------------------------------------------------------------------------------
Next ==
    \/ \E s \in Scopes, n \in Positions : AddSources(s, n)
    \/ \E s \in Scopes : RequestFlush(s)
    \/ \E s \in Scopes : AutoAdmit(s)
    \/ \E s \in Scopes : Reconcile(s)
    \/ \E w \in Workers, s \in Scopes : Dispatch(w, s)
    \/ ChangeTerm
    \/ \E w \in Workers : Start(w)
    \/ \E w \in Callers, s \in Scopes : StartDirect(w, s)
    \/ \E w \in Flushes : Commit(w)
    \/ \E w \in Flushes : Refused(w)
    \/ \E w \in Flushes : Fail(w)

Spec == Init /\ [][Next]_vars

\* The supervisor's loop keeps scanning and dispatching, a worker process
\* ends, and an invocation that is retried for ever does not fail for ever.
\* Nothing is assumed of direct flush calls.
Fairness ==
    /\ \A s \in Scopes : /\ WF_vars(AutoAdmit(s))
                         /\ WF_vars(Reconcile(s))
                         /\ WF_vars(\E w \in Workers : Dispatch(w, s))
    /\ \A w \in Workers : /\ WF_vars(Refused(w))
                          /\ SF_vars(Start(w))
                          /\ SF_vars(Commit(w))

FairSpec == Spec /\ Fairness

--------------------------------------------------------------------------------
(* Properties.                                                             *)

\* Every variable has the shape of its rows.
TypeOK ==
    /\ term \in Nat
    /\ head \in [Scopes -> 0..MaxHead]
    /\ cursor \in [Scopes -> [at : Nat, gen : Nat]]
    /\ intent \in [Scopes -> IntentRows]
    /\ sequence \in Nat
    /\ unreconciled \subseteq Scopes
    /\ worker \in [Flushes -> WorkerStates]
    /\ legacy \subseteq Scopes
    /\ emitted \in [Scopes -> [Positions -> Nat]]
    /\ asked \in [Scopes -> Seq(Nat)]
    /\ saw \in [Scopes -> Nat]

\* Whatever workers of old terms, direct flushes and retries do, the
\* published windows cover exactly the positions up to the cursor, each one
\* once: the model's answer to a window computed from a stale cursor is
\* never published (the cursor CAS and the fence in flush()'s last
\* transaction).
ExactlyOnce ==
    \A s \in Scopes, p \in Positions :
        emitted[s][p] = IF p <= cursor[s].at THEN 1 ELSE 0

\* A scope whose intent says "clean" has no unconsumed journal row: an
\* acknowledgement never covers a row appended after the worker read the
\* journal (complete() writes the dirty snapshot taken by start()).  Rows
\* older than the binding are exempt until reconcile() has seen them.
NoLostInput ==
    \A s \in Scopes :
        cursor[s].at < head[s] => Dirty(intent[s]) \/ s \in legacy

\* The invocation that acknowledges request generation g read the journal
\* after g was accepted, so no request accepted during an execution is
\* swallowed by it (complete() acknowledges the claim, not the latest
\* requested generation).
NoSwallowedRequest ==
    \A s \in Scopes :
        intent[s].handled > 0 =>
            /\ intent[s].handled \in DOMAIN asked[s]
            /\ asked[s][intent[s].handled] <= saw[s]

\* The protocol implements the journal consumer, liveness included.
Consumer == INSTANCE JournalConsumer
                WITH consumed <- [s \in Scopes |-> cursor[s].at]

\* Every appended row is consumed exactly once and in order, and is consumed
\* eventually when attempts do not fail for ever.
ImplementsConsumer == Consumer!Spec

\* Every accepted request is acknowledged eventually, across term changes,
\* conflicts with direct flushes and failed attempts.
RequestsAnswered ==
    \A s \in Scopes, g \in 1..MaxRequests :
        intent[s].requested >= g ~> intent[s].handled >= g
================================================================================
