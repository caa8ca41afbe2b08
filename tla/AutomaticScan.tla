----------------------------- MODULE AutomaticScan -----------------------------
(***************************************************************************)
(* The scheduled admission scan of one binding: _discover_automatic() of   *)
(* the supervisor over the persisted binding state (supervision.py) and    *)
(* the intent table.  A scan freezes its members at start_scan(), walks    *)
(* them in bounded pages, and admits each dirty member that is not busy.   *)
(* Its page position lives in memory and is lost with the term; its        *)
(* generation and the admission marks are durable.                         *)
(*                                                                         *)
(* `busy` stands for the scopes in the ready queue, running, or waiting    *)
(* for an unblocked retry; how the supervisor moves them is the subject of *)
(* SupervisorLoop.  The page limit is min(capacity, page size), so any     *)
(* limit from 1 to PageSize can occur.                                     *)
(***************************************************************************)
EXTENDS ProcessingIntents

CONSTANTS Scopes,       \* scopes of the binding
          PageSize,     \* _DISCOVERY_PAGE_SIZE
          MaxDirty,     \* bound: inputs per scope
          MaxRequests,  \* bound: explicit requests stop at this generation
          MaxScans,     \* bound: scheduled scans
          MaxRestarts   \* bound: lost terms and restarts

ASSUME PageAssumption == PageSize \in Nat \ {0}

VARIABLES
    intent,    \* intent[s]: intent row
    sequence,  \* the global pending_sequence row
    binding,   \* the binding-state row: [generation, inProgress, upper]
    due,       \* the schedule's next deadline after the checkpoint has passed
    enabled,   \* an interval or cron is configured for the running process
    memory,    \* _FamilyState: [generation, after] of the scan in memory
    busy,      \* scopes queued, running or in an unblocked retry
    restarts,  \* terms lost so far
    owed,      \* history: members of this scan it has not accounted for
    admissions \* history: admissions[s], requests this scan has added

vars == <<intent, sequence, binding, due, enabled, memory, busy, restarts,
          owed, admissions>>

NoMemory == [generation |-> 0, after |-> 0]

\* The first schedule check of a binding has no checkpoint and is due.
Init ==
    /\ intent = [s \in Scopes |-> Absent]
    /\ sequence = 0
    /\ binding = [generation |-> 0, inProgress |-> FALSE, upper |-> 0]
    /\ due = TRUE
    /\ enabled \in BOOLEAN
    /\ memory = NoMemory
    /\ busy = {}
    /\ restarts = 0
    /\ owed = {}
    /\ admissions = [s \in Scopes |-> 0]

--------------------------------------------------------------------------------
(* Inputs, requests and workers.                                           *)

\* A committed input registers its scope when needed and marks it dirty.
MarkScopeDirty(s) ==
    /\ intent[s].dirty < MaxDirty
    /\ intent' = [intent EXCEPT ![s] = MarkDirty(@, sequence, 1)]
    /\ sequence' = SequenceAfter(intent[s], sequence)
    /\ UNCHANGED <<binding, due, enabled, memory, busy, restarts, owed, admissions>>

\* An explicit trigger.
RequestScope(s) ==
    /\ intent[s].requested < MaxRequests
    /\ intent' = [intent EXCEPT ![s] = AcceptRequest(@, sequence)]
    /\ sequence' = SequenceAfter(intent[s], sequence)
    /\ UNCHANGED <<binding, due, enabled, memory, busy, restarts, owed, admissions>>

\* _discover_requested() queues an open request.
QueueRequested(s) ==
    /\ Pending(intent[s])
    /\ s \notin busy
    /\ busy' = busy \cup {s}
    /\ UNCHANGED <<intent, sequence, binding, due, enabled, memory, restarts,
                   owed, admissions>>

\* The invocation of a busy scope acknowledges the generation it claimed and
\* the inputs it saw (cleanTo = 0: work remains).
Acknowledged(s, claimed, cleanTo) ==
    /\ s \in busy
    /\ intent[s].handled < claimed
    /\ AcknowledgeAllowed(intent[s], claimed, cleanTo)
    /\ intent' = [intent EXCEPT ![s] = Acknowledge(@, claimed, cleanTo)]
    /\ busy' = busy \ {s}
    /\ owed' = IF Dirty(intent'[s]) THEN owed ELSE owed \ {s}
    /\ UNCHANGED <<sequence, binding, due, enabled, memory, restarts, admissions>>

\* A busy scope leaves unacknowledged: a blocked retry, an evicted retry, or
\* a queue entry that _dispatch() drops.
LeaveBusy(s) ==
    /\ s \in busy
    /\ busy' = busy \ {s}
    /\ UNCHANGED <<intent, sequence, binding, due, enabled, memory, restarts,
                   owed, admissions>>

--------------------------------------------------------------------------------
(* The schedule and the scan.                                              *)

\* The interval or cron deadline after the checkpoint passes.
ScheduleFires ==
    /\ ~ due
    /\ due' = TRUE
    /\ UNCHANGED <<intent, sequence, binding, enabled, memory, busy, restarts,
                   owed, admissions>>

\* start_scan() when no scan is in progress and the schedule is due.
Starting == ~ binding.inProgress /\ due

ScanState ==
    IF Starting
    THEN [generation |-> binding.generation + 1, inProgress |-> TRUE,
          upper |-> MaxSequence(intent)]
    ELSE binding

\* The page position: a scan the memory does not know is read from its start.
PageAfter ==
    IF Starting \/ memory.generation # ScanState.generation
    THEN 0 ELSE memory.after

\* scan(dirty_only) of one page.
PageRows(limit) ==
    ScanPage(intent, {s \in Scopes : Dirty(intent[s])}, PageAfter,
             ScanState.upper, limit)

\* Rows of the page that are neither busy nor admitted by this scan already.
Candidates(rows) ==
    {s \in rows : s \notin busy /\ intent[s].lastScan # ScanState.generation}

\* Mutated form of LastSequence: the position does not advance.
LastSequenceStuck(rows) == PageAfter

LastSequence(rows) ==
    IF rows = {} THEN PageAfter
    ELSE CHOOSE n \in {intent[s].seq : s \in rows} :
             \A s \in rows : intent[s].seq <= n

\* Mutated form of MorePages: compared with the page size, not the limit.
MoreFullPages(rows, limit) == Cardinality(rows) = PageSize

\* A page shorter than its limit is the last one.
MorePages(rows, limit) == Cardinality(rows) = limit

\* _discover_automatic(): one page in one fenced transaction, including the
\* start and the end of the scan.  `denied` is what automatic_scope_filter
\* refuses.  `published` tells whether control returns after the commit: if
\* the commit's answer is lost, the memory keeps its old position and nothing
\* is queued.
DiscoverAutomatic(limit, denied, published) ==
    LET rows == PageRows(limit)
        admitted == Candidates(rows) \ denied
        more == MorePages(rows, limit)
    IN  /\ enabled
        /\ ScanState.inProgress
        /\ Starting => binding.generation < MaxScans
        /\ denied \subseteq Candidates(rows)
        /\ intent' = [s \in Scopes |->
                         IF s \in admitted
                         THEN Admit(intent[s], ScanState.generation)
                         ELSE intent[s]]
        /\ binding' = [ScanState EXCEPT !.inProgress = more]
        /\ due' = (due /\ ~ Starting)
        /\ IF published
           THEN /\ memory' = [generation |-> ScanState.generation,
                              after |-> IF more THEN LastSequence(rows) ELSE 0]
                /\ busy' = busy \cup admitted
           ELSE UNCHANGED <<memory, busy>>
        /\ owed' = (IF Starting
                    THEN {s \in Scopes : Registered(intent[s]) /\ Dirty(intent[s])}
                    ELSE owed)
                   \ (admitted \cup denied \cup (rows \cap busy))
        /\ admissions' = [s \in Scopes |->
                             (IF Starting THEN 0 ELSE admissions[s])
                             + intent'[s].requested - intent[s].requested]
        /\ UNCHANGED <<sequence, enabled, restarts>>

\* The same transaction when no schedule is configured: an unfinished scan
\* ends without admitting anyone.
EndDisabledScan ==
    /\ ~ enabled
    /\ binding.inProgress
    /\ binding' = [binding EXCEPT !.inProgress = FALSE]
    /\ memory' = [memory EXCEPT !.after = 0]
    /\ owed' = {}
    /\ UNCHANGED <<intent, sequence, due, enabled, busy, restarts, admissions>>

\* The term is lost, or the process restarts with its configuration:
\* everything in memory is gone.
LoseTerm ==
    /\ restarts < MaxRestarts
    /\ restarts' = restarts + 1
    /\ memory' = NoMemory
    /\ busy' = {}
    /\ enabled' \in BOOLEAN
    /\ UNCHANGED <<intent, sequence, binding, due, owed, admissions>>

--------------------------------------------------------------------------------
Next ==
    \/ \E s \in Scopes : MarkScopeDirty(s)
    \/ \E s \in Scopes : RequestScope(s)
    \/ \E s \in Scopes : QueueRequested(s)
    \/ \E s \in Scopes : \E g \in 1..intent[s].requested :
          \E c \in {0, intent[s].dirty} : Acknowledged(s, g, c)
    \/ \E s \in Scopes : LeaveBusy(s)
    \/ ScheduleFires
    \/ \E limit \in 1..PageSize, denied \in SUBSET Scopes, p \in BOOLEAN :
          DiscoverAutomatic(limit, denied, p)
    \/ EndDisabledScan
    \/ LoseTerm

Spec == Init /\ [][Next]_vars

\* A leader keeps running discovery cycles, and not every commit loses its
\* answer.
FairSpec ==
    /\ Spec
    /\ WF_vars(\E limit \in 1..PageSize, denied \in SUBSET Scopes :
                   DiscoverAutomatic(limit, denied, TRUE))
    /\ WF_vars(EndDisabledScan)

--------------------------------------------------------------------------------
(* Properties.                                                             *)

\* Rows, binding state and memory have their shapes.
TypeOK ==
    /\ intent \in [Scopes -> IntentRows]
    /\ sequence \in Nat
    /\ binding \in [generation : Nat, inProgress : BOOLEAN, upper : Nat]
    /\ due \in BOOLEAN
    /\ enabled \in BOOLEAN
    /\ memory \in [generation : Nat, after : Nat]
    /\ busy \subseteq Scopes
    /\ restarts \in Nat
    /\ owed \subseteq Scopes
    /\ admissions \in [Scopes -> Nat]

\* A scan is marked finished only when every scope that was dirty at its
\* start, and still is, has been admitted, was busy, or was refused by the
\* filter.  Lost answers, capacity-limited pages and restarts in the middle
\* skip nobody: memory advances only after the commit, and a scan the memory
\* does not know is read again from its first page.
FinishedScanOwesNothing == ~ binding.inProgress => owed = {}

\* However often its pages are read again, one scan adds at most one request
\* to a scope: last_auto_scan_generation in admit() and in the candidates.
AdmittedOncePerScan == \A s \in Scopes : admissions[s] <= 1

\* A started scan ends, although pages full of busy or refused scopes admit
\* nobody, new scopes keep registering, and the term may change.
ScanEnds == binding.inProgress ~> ~ binding.inProgress
================================================================================
