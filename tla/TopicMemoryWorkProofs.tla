------------------------- MODULE TopicMemoryWorkProofs -------------------------
(***************************************************************************)
(* Proofs about TopicMemoryWork, for every finite pool of workers, every   *)
(* window limit, every allowance and every bound.                          *)
(***************************************************************************)
EXTENDS TopicMemoryWork, ProcessingIntentsProofs, SequenceTheorems, TLAPS

\* A request is remembered with the head it was accepted at.
RequestsAsked ==
    /\ ~ Registered(intent) => intent = Absent
    /\ Len(asked) = intent.requested
    /\ \A g \in 1..intent.requested : asked[g] <= head

\* A frozen target reaches all requests up to its own, and not past the head.
TargetCovers ==
    /\ target.gen <= intent.requested
    /\ target.through <= head
    /\ \A g \in 1..target.gen : asked[g] <= target.through

\* Workers are of terms that have begun and have claims that were accepted; the
\* window one works on is a part of its target.
WorkersPlaced ==
    \A w \in Workers :
        /\ worker[w].phase # "idle" => worker[w].term <= term
        /\ worker[w].claimed <= intent.requested
        /\ worker[w].phase \in {"selecting", "window", "running", "failing"}
              => worker[w].after \in Frontiers
        /\ worker[w].phase \in {"window", "running", "failing"}
              => /\ worker[w].after < worker[w].through
                 /\ worker[w].through <= worker[w].target.through

\* The running term has one worker for the scope.
OneWorkerPerTerm ==
    \A v, w \in Workers :
        (/\ worker[v].phase # "idle" /\ worker[v].term = term
         /\ worker[w].phase # "idle" /\ worker[w].term = term) => v = w

\* The allowance is one of the cursor's position, and no other has any.
BudgetAtCursor ==
    \A a \in Frontiers : a # cursor.at => budget[a] = NoBudget

\* A block is the only one of its attempt.
BlocksKeyed ==
    /\ IsFiniteSet(blocks)
    /\ \A b \in blocks : b.attempt > 0
    /\ \A b, c \in blocks : b.after = c.after /\ b.attempt = c.attempt => b = c

\* A worker of the running term that is at an attempt holds the frontier's one:
\* it is open, is of this term, and no block stands.
AttemptHeld ==
    \A w \in Workers :
        (/\ worker[w].phase \in {"running", "failing"}
         /\ Fenced(w) /\ CursorUnmoved(w)) =>
            /\ worker[w].attempt > 0 /\ Current(w)
            /\ ~ Row.finished /\ Row.term = term
            /\ \A b \in blocks : b.retry # 0

\* A status reader has inspected the lease of an attempt that is still open.
ReaderInspected ==
    /\ reader # NoReader => reader.attempt > 0
    /\ (reader # NoReader /\ Row.attempt = reader.attempt /\ ~ Row.finished)
          => reader.lockedLease

\* Blocks of the current position that were retried.
Retried == {b \in blocks : b.after = cursor.at /\ b.retry > 0}

\* Beyond the allowance in use, one full one per retry was spent at most.
ChargesCounted ==
    /\ Row.charges <= MaxCharges
    /\ spent <= Row.charges + MaxCharges * Cardinality(Retried)

\* The inductive invariant.
TopicInv ==
    /\ TypeOK
    /\ RequestsAsked /\ TargetCovers /\ RequestsCovered
    /\ pending.through <= head /\ UnreadIsRemembered
    /\ WorkersPlaced /\ OneWorkerPerTerm
    /\ BudgetAtCursor /\ BlocksKeyed /\ BlocksStayRetryable
    /\ AttemptHeld /\ ReaderInspected
    /\ ChargesCounted

--------------------------------------------------------------------------------
(* Rows.                                                                   *)

\* The limits one by one.
LEMMA LimitFacts ==
    /\ WindowLimit \in Nat /\ MaxAttempts \in Nat /\ MaxCharges \in Nat
    /\ MaxAttempts > 0 /\ MaxCharges > 0 /\ MaxHead \in Nat
    /\ IsFiniteSet(Workers)
BY TopicBounds

\* The rows that stand for none.
LEMMA EmptyRows ==
    /\ NoPending \in PendingRows /\ NoTarget \in TargetRows
    /\ NoBudget \in BudgetRows /\ Idle \in WorkerRows
    /\ Idle.phase = "idle" /\ Idle.attempt = 0 /\ Idle.claimed = 0 /\ Idle.term = 0
    /\ NoBudget.attempt = 0 /\ NoBudget.charges = 0
    /\ NoTarget.gen = 0 /\ NoTarget.through = 0 /\ NoPending.through = 0
    /\ NoReader.attempt = 0
BY DEF NoPending, NoTarget, NoBudget, Idle, NoReader, PendingRows, TargetRows, BudgetRows,
       WorkerRows, Phases

\* The types of single rows.
LEMMA TopicTypes ==
    ASSUME TypeOK
    PROVE  /\ \A w \in Workers :
                 /\ worker[w] \in WorkerRows
                 /\ worker[w].term \in Nat /\ worker[w].claimed \in Nat
                 /\ worker[w].after \in Nat /\ worker[w].through \in Nat
                 /\ worker[w].attempt \in Nat /\ worker[w].gen \in Nat
                 /\ worker[w].target \in TargetRows
                 /\ worker[w].code \in {""} \cup Reasons
           /\ \A a \in Frontiers :
                 /\ budget[a] \in BudgetRows
                 /\ budget[a].attempt \in Nat /\ budget[a].charges \in Nat
                 /\ budget[a].attempts \in Nat /\ budget[a].term \in Nat
                 /\ budget[a].code \in {""} \cup Reasons
           /\ \A b \in blocks : /\ b \in BlockRows
                                 /\ b.after \in Nat /\ b.attempt \in Nat
                                 /\ b.retry \in Nat /\ b.code \in Reasons
           /\ term \in Nat /\ head \in Nat /\ cursor.at \in Nat /\ cursor.gen \in Nat
           /\ cursor.at \in Frontiers /\ head \in Frontiers
           /\ target.gen \in Nat /\ target.through \in Nat
           /\ target.flush \in Nat /\ target.dirty \in Nat
           /\ pending.through \in Nat /\ pending.flush \in Nat /\ pending.handled \in Nat
           /\ reader.attempt \in Nat /\ spent \in Nat
<1>1. Frontiers \subseteq Nat
    BY LimitFacts DEF Frontiers
<1>2. /\ \A w \in Workers :
            /\ worker[w] \in WorkerRows
            /\ worker[w].term \in Nat /\ worker[w].claimed \in Nat
            /\ worker[w].after \in Nat /\ worker[w].through \in Nat
            /\ worker[w].attempt \in Nat /\ worker[w].gen \in Nat
            /\ worker[w].target \in TargetRows
            /\ worker[w].code \in {""} \cup Reasons
    BY DEF TypeOK, WorkerRows
<1>3. \A a \in Frontiers :
          /\ budget[a] \in BudgetRows
          /\ budget[a].attempt \in Nat /\ budget[a].charges \in Nat
          /\ budget[a].attempts \in Nat /\ budget[a].term \in Nat
          /\ budget[a].code \in {""} \cup Reasons
    BY DEF TypeOK, BudgetRows
<1>4. \A b \in blocks : /\ b \in BlockRows
                        /\ b.after \in Nat /\ b.attempt \in Nat
                        /\ b.retry \in Nat /\ b.code \in Reasons
    BY DEF TypeOK, BlockRows
<1>5. /\ term \in Nat /\ head \in Nat /\ cursor.at \in Nat /\ cursor.gen \in Nat
      /\ cursor.at \in Frontiers /\ head \in Frontiers
      /\ target.gen \in Nat /\ target.through \in Nat
      /\ target.flush \in Nat /\ target.dirty \in Nat
      /\ pending.through \in Nat /\ pending.flush \in Nat /\ pending.handled \in Nat
      /\ reader.attempt \in Nat /\ spent \in Nat
    BY <1>1 DEF TypeOK, TargetRows, PendingRows
<1> QED
    BY <1>2, <1>3, <1>4, <1>5

\* exhausted_reason() of a row is a reason, and writing it on the row keeps it.
LEMMA ReasonFacts ==
    ASSUME NEW row \in BudgetRows
    PROVE  /\ Reason(row) \in {""} \cup Reasons
           /\ Reason(row) # "" => Reason([row EXCEPT !.code = Reason(row)]) = Reason(row)
<1> USE DEF Reasons, Codes, Recorded, Recoverable, Ceilings
<1>1. row.code \in {""} \cup Reasons
    BY DEF BudgetRows
<1>2. Reason(row) \in {""} \cup Reasons
    BY <1>1 DEF Reason
<1>3. ASSUME NEW c \in Reasons, c \notin Recoverable
      PROVE  Reason([row EXCEPT !.code = c]) = c
    BY <1>3 DEF Reason, BudgetRows
<1>4. Reason(row) # "" => Reason(row) = row.code \/ Reason(row) \notin Recoverable
    BY DEF Reason
<1>5. [row EXCEPT !.code = row.code] = row
    BY DEF BudgetRows
<1> QED
    BY <1>2, <1>3, <1>4, <1>5

\* The numbers of a finite family.
LEMMA ImageFinite ==
    ASSUME NEW S, IsFiniteSet(S), NEW f
    PROVE  IsFiniteSet({f[x] : x \in S})
<1> DEFINE g == [x \in S |-> f[x]]
           T == {f[x] : x \in S}
<1>1. g \in Surjection(S, T)
    BY DEF Surjection
<1> HIDE DEF g, T
<1>2. IsFiniteSet(T)
    BY <1>1, FS_Surjection
<1> QED
    BY <1>2 DEF T

\* uuid4(): there is always an id that nobody knows.
LEMMA FreshFacts ==
    ASSUME TypeOK, IsFiniteSet(blocks)
    PROVE  /\ FreshAttempt \in Nat /\ FreshAttempt > 0
           /\ \A a \in Frontiers : budget[a].attempt # FreshAttempt
           /\ \A b \in blocks : b.attempt # FreshAttempt
           /\ \A w \in Workers : worker[w].attempt # FreshAttempt
           /\ reader.attempt # FreshAttempt
<1> DEFINE rows == {budget[a].attempt : a \in Frontiers}
           stood == {b.attempt : b \in blocks}
           worked == {worker[w].attempt : w \in Workers}
           known == rows \cup stood \cup worked \cup {reader.attempt}
<1>1. IsFiniteSet(rows)
    <2> DEFINE f == [a \in Frontiers |-> budget[a].attempt]
    <2>1. rows = {f[a] : a \in Frontiers}
        OBVIOUS
    <2>2. IsFiniteSet(Frontiers)
        <3>1. 0 \in Int /\ MaxHead \in Int
            BY LimitFacts
        <3> QED
            BY <3>1, FS_Interval DEF Frontiers
    <2> HIDE DEF f
    <2> QED
        BY <2>1, <2>2, ImageFinite
<1>2. IsFiniteSet(stood)
    <2> DEFINE f == [b \in blocks |-> b.attempt]
    <2>1. stood = {f[b] : b \in blocks}
        OBVIOUS
    <2> HIDE DEF f
    <2> QED
        BY <2>1, ImageFinite
<1>3. IsFiniteSet(worked)
    <2> DEFINE f == [w \in Workers |-> worker[w].attempt]
    <2>1. worked = {f[w] : w \in Workers}
        OBVIOUS
    <2> HIDE DEF f
    <2> QED
        BY <2>1, LimitFacts, ImageFinite
<1>k. /\ \A a \in Frontiers : budget[a].attempt \in known
      /\ \A b \in blocks : b.attempt \in known
      /\ \A w \in Workers : worker[w].attempt \in known
      /\ reader.attempt \in known
    OBVIOUS
<1>f. FreshAttempt = CHOOSE n \in 1..(Cardinality(known) + 1) : n \notin known
    BY DEF FreshAttempt
<1>4. IsFiniteSet(known)
    <2> HIDE DEF rows, stood, worked
    <2>1. IsFiniteSet(rows \cup stood)
        BY <1>1, <1>2, FS_Union
    <2>2. IsFiniteSet((rows \cup stood) \cup worked)
        BY <1>3, <2>1, FS_Union
    <2> QED
        BY <2>2, FS_AddElement
<1> HIDE DEF known
<1> DEFINE size == Cardinality(known)
<1>5. size \in Nat
    BY <1>4, FS_CardinalityType
<1>6. \E n \in 1..(size + 1) : n \notin known
    <2>1. SUFFICES ASSUME 1..(size + 1) \subseteq known
                   PROVE  FALSE
        OBVIOUS
    <2>2. Cardinality(1..(size + 1)) <= size
        BY <1>4, <2>1, FS_Subset
    <2>3. 1 \in Int /\ size + 1 \in Int
        BY <1>5
    <2>4. Cardinality(1..(size + 1)) = IF 1 > size + 1 THEN 0 ELSE (size + 1) - 1 + 1
        BY <2>3, FS_Interval
    <2> HIDE DEF size
    <2> QED
        BY <1>5, <2>2, <2>4
<1>7. FreshAttempt \in 1..(size + 1) /\ FreshAttempt \notin known
    BY <1>f, <1>6
<1> HIDE DEF size
<1> QED
    BY <1>5, <1>7, <1>k

--------------------------------------------------------------------------------
(* Requests, the pending row and the end of a target.                      *)

\* A logged request keeps the earlier ones.
LEMMA AskedFacts ==
    ASSUME TypeOK, RequestsAsked, asked' = Append(asked, head)
    PROVE  /\ asked' \in Seq(Nat)
           /\ Len(asked') = intent.requested + 1
           /\ \A g \in 1..intent.requested : asked'[g] = asked[g]
           /\ asked'[intent.requested + 1] = head
<1>1. asked \in Seq(Nat) /\ head \in Nat /\ Len(asked) = intent.requested
    BY TopicTypes DEF TypeOK, RequestsAsked
<1> QED
    BY <1>1, AppendProperties

\* _upsert_pending() pulls a row that is not further to the position.
LEMMA UpsertFacts ==
    ASSUME NEW row \in PendingRows, NEW to \in Nat, NEW n \in Nat, row.through <= to
    PROVE  /\ UpsertPending(row, to, n) \in PendingRows
           /\ UpsertPending(row, to, n).through = to
<1>1. /\ row.through \in Nat /\ row.flush \in Nat
      /\ row = [through |-> row.through, flush |-> row.flush, handled |-> row.handled]
    BY DEF PendingRows
<1>2. Larger(row.through, to) = to
    BY <1>1 DEF Larger
<1>3. UpsertPending(row, to, n) = [row EXCEPT !.through = to, !.flush = row.flush + n]
    BY <1>2 DEF UpsertPending
<1>4. row.flush + n \in Nat
    BY <1>1
<1> QED
    BY <1>3, <1>4 DEF PendingRows

\* request_flush() and request() accept one request and pull the pending row to
\* the head.
LEMMA FlushFacts ==
    ASSUME TypeOK, RequestsAsked, pending.through <= head, AcceptFlush
    PROVE  /\ intent' \in IntentRows /\ Registered(intent')
           /\ intent'.requested = intent.requested + 1
           /\ intent'.handled = intent.handled
           /\ intent'.dirty = intent.dirty /\ intent'.clean = intent.clean
           /\ pending' \in PendingRows /\ pending'.through = head
           /\ asked' = Append(asked, head)
<1>1. /\ intent \in IntentRows /\ pending \in PendingRows /\ head \in Nat
      /\ intent' = AcceptRequest(intent, 0)
      /\ pending' = UpsertPending(pending, head, 1)
      /\ asked' = Append(asked, head)
    BY TopicTypes DEF TypeOK, AcceptFlush
<1>2. pending' \in PendingRows /\ pending'.through = head
    BY <1>1, UpsertFacts
<1> QED
    BY <1>1, <1>2, AcceptRequestFacts DEF RequestsAsked

\* The pending row when a target ends: it stays at the head while there is
\* something behind the cursor.
LEMMA PendingFacts ==
    ASSUME NEW row \in PendingRows, NEW flush \in Nat, NEW at \in Nat, NEW limit \in Nat
    PROVE  LET marked == MarkFlushHandled(row, flush)
               left == DeleteIfCovered(marked, at, limit)
           IN  /\ marked \in PendingRows /\ left \in PendingRows
               /\ marked.through = row.through
               /\ left.through = row.through \/ (left.through = 0 /\ row.through <= at)
<1> DEFINE marked == MarkFlushHandled(row, flush)
<1>1. marked \in PendingRows /\ marked.through = row.through
    BY DEF MarkFlushHandled, Larger, Smaller, PendingRows
<1> HIDE DEF marked
<1>2. marked.through <= Smaller(at, limit) => marked.through <= at
    BY <1>1 DEF Smaller, PendingRows
<1>3. /\ DeleteIfCovered(marked, at, limit) \in {marked, NoPending}
      /\ DeleteIfCovered(marked, at, limit) = NoPending =>
            marked = NoPending \/ marked.through <= at
    BY <1>2 DEF DeleteIfCovered
<1>4. row.through \in Nat
    BY DEF PendingRows
<1> QED
    BY <1>1, <1>3, <1>4, EmptyRows DEF marked

\* _finish_target() with the cursor at `at`: it acknowledges the target's own
\* request or nothing, and leaves the marks of what is behind the cursor.
LEMMA FinishFacts ==
    ASSUME TypeOK, RequestsAsked, TargetCovers, pending.through <= head,
           NEW w \in Workers, NEW at \in Nat, FinishTarget(w, at)
    PROVE  /\ target = worker[w].target /\ at >= target.through /\ target' = NoTarget
           /\ intent' \in IntentRows /\ Registered(intent')
           /\ intent'.requested = intent.requested
           /\ intent'.handled = intent.handled \/ intent'.handled = target.gen
           /\ intent'.dirty = intent.dirty
           /\ at < head => intent'.clean = intent.clean
           /\ pending' \in PendingRows
           /\ pending'.through <= head
           /\ at < head /\ pending.through = head => pending'.through = head
<1> DEFINE t == worker[w].target
           marked == MarkFlushHandled(pending, t.flush)
           covered == marked.through <= t.through /\ marked.flush <= t.flush
           cleanTo == IF covered /\ head <= t.through THEN t.dirty ELSE 0
<1>1. /\ target = t /\ at >= t.through
      /\ pending' = IF t.through > 0 THEN DeleteIfCovered(marked, at, t.through)
                    ELSE marked
      /\ AcknowledgeAllowed(intent, t.gen, cleanTo)
      /\ intent' = Acknowledge(intent, t.gen, cleanTo)
      /\ target' = NoTarget
    BY DEF FinishTarget, AcknowledgedBy
<1>2. /\ t.gen \in Nat /\ t.through \in Nat /\ t.flush \in Nat /\ t.dirty \in Nat
      /\ head \in Nat /\ pending \in PendingRows /\ intent \in IntentRows
      /\ pending.through \in Nat
    BY <1>1, TopicTypes DEF TypeOK
<1>3. cleanTo \in Nat /\ (at < head => cleanTo = 0)
    BY <1>1, <1>2
<1>4. /\ pending' \in PendingRows
      /\ pending'.through = pending.through
         \/ (pending'.through = 0 /\ pending.through <= at)
    <2> HIDE DEF t
    <2>1. /\ marked \in PendingRows
          /\ DeleteIfCovered(marked, at, t.through) \in PendingRows
          /\ marked.through = pending.through
          /\ \/ DeleteIfCovered(marked, at, t.through).through = pending.through
             \/ /\ DeleteIfCovered(marked, at, t.through).through = 0
                /\ pending.through <= at
        BY <1>2, PendingFacts
    <2> HIDE DEF marked
    <2> QED
        BY <1>1, <2>1
<1> HIDE DEF cleanTo, marked
<1>5. /\ intent' \in IntentRows /\ Registered(intent')
      /\ intent'.requested = intent.requested
      /\ intent'.handled = intent.handled \/ intent'.handled = t.gen
      /\ intent'.dirty = intent.dirty
      /\ cleanTo = 0 => intent'.clean = intent.clean
    <2>1. Registered(intent)
        BY <1>1 DEF AcknowledgeAllowed
    <2>2. CASE intent.handled < t.gen
        <3>1. /\ Acknowledge(intent, t.gen, cleanTo) \in IntentRows
              /\ Acknowledge(intent, t.gen, cleanTo).seq = intent.seq
              /\ Acknowledge(intent, t.gen, cleanTo).dirty = intent.dirty
              /\ Acknowledge(intent, t.gen, cleanTo).clean =
                     IF cleanTo > intent.clean THEN cleanTo ELSE intent.clean
              /\ Acknowledge(intent, t.gen, cleanTo).requested = intent.requested
              /\ Acknowledge(intent, t.gen, cleanTo).handled = t.gen
            BY <1>1, <1>2, <1>3, <2>2, AcknowledgeFacts
        <3>2. intent.clean \in Nat
            BY <1>2, RowFacts
        <3> QED
            BY <1>1, <2>1, <3>1, <3>2 DEF Registered
    <2>3. CASE ~ (intent.handled < t.gen)
        <3>1. t.gen <= intent.handled
            BY <1>2, <2>3, RowFacts
        <3>2. intent' = intent
            BY <1>1, <3>1 DEF Acknowledge
        <3> QED
            BY <1>2, <2>1, <3>2
    <2> QED
        BY <2>2, <2>3
<1>6. /\ pending'.through <= head
      /\ at < head /\ pending.through = head => pending'.through = head
    BY <1>2, <1>4
<1> QED
    BY <1>1, <1>3, <1>4, <1>5, <1>6

\* A step after which every request of a target is still within it.
LEMMA CoversKept ==
    ASSUME TypeOK, RequestsAsked, TargetCovers, UNCHANGED target,
           intent'.requested \in Nat, intent'.requested >= intent.requested,
           head' \in Nat, head' >= head,
           \A g \in 1..intent.requested : asked'[g] = asked[g]
    PROVE  TargetCovers'
<1>1. /\ target.gen \in Nat /\ target.through \in Nat /\ head \in Nat
      /\ intent.requested \in Nat
    BY TopicTypes, RowFacts DEF TypeOK
<1>2. 1..target.gen \subseteq 1..intent.requested
    BY <1>1 DEF TargetCovers
<1> QED
    BY <1>1, <1>2 DEF TargetCovers

--------------------------------------------------------------------------------
(* What a step makes of a worker.                                          *)

\* The row of a slot is one whose window, if any, is part of its target.
Placed(row) ==
    /\ row \in WorkerRows
    /\ row.phase \in {"selecting", "window", "running", "failing"} => row.after \in Frontiers
    /\ row.phase \in {"window", "running", "failing"}
          => row.after < row.through /\ row.through <= row.target.through

\* Worker w goes on, in its term and with its claim, or gives up its slot.  It
\* is not at an attempt that it was not at before.
Moved(w, row) ==
    /\ worker' = [worker EXCEPT ![w] = row]
    /\ Placed(row)
    /\ worker[w].phase # "idle"
    /\ row.phase # "idle" => row.term = worker[w].term
    /\ row.claimed \in {0, worker[w].claimed}
    /\ row.phase \in {"running", "failing"} =>
          /\ worker[w].phase \in {"running", "failing"}
          /\ row.after = worker[w].after /\ row.gen = worker[w].gen
          /\ row.attempt = worker[w].attempt

\* begin() that starts an attempt.
Started(w) ==
    /\ worker[w].phase = "window"
    /\ Fenced(w) /\ CursorUnmoved(w) /\ ~ Spent
    /\ budget' = [budget EXCEPT ![cursor.at] = Charged(w)]
    /\ worker' = [worker EXCEPT ![w] = [worker[w] EXCEPT !.phase = "running",
                                                        !.attempt = FreshAttempt]]
    /\ UNCHANGED <<term, journal, intent, pending, target, blocks, reader, history>>

\* The row of a worker that has died.
LEMMA DeadRow ==
    ASSUME TypeOK, NEW w \in Workers
    PROVE  /\ Placed(Dead(w)) /\ Dead(w).phase = "dead"
           /\ Dead(w).term = worker[w].term /\ Dead(w).claimed = 0
<1>1. worker[w].term \in Nat
    BY TopicTypes
<1> QED
    BY <1>1 DEF Placed, Dead, Idle, WorkerRows, Phases, NoTarget, TargetRows

\* The row of a worker that has caught an error.
LEMMA FailedRow ==
    ASSUME TypeOK, NEW w \in Workers, NEW code \in {""} \cup Reasons
    PROVE  /\ Placed(Failed(w, code)) /\ Failed(w, code).phase = "failed"
           /\ Failed(w, code).term = worker[w].term /\ Failed(w, code).claimed = 0
<1>1. worker[w].term \in Nat
    BY TopicTypes
<1> QED
    BY <1>1 DEF Placed, Failed, Idle, WorkerRows, Phases, NoTarget, TargetRows

\* Giving up the slot, dying, failing and starting over are such moves.
LEMMA EndedMoves ==
    ASSUME TypeOK, NEW w \in Workers, worker[w].phase # "idle", NEW row,
           worker' = [worker EXCEPT ![w] = row],
           \/ row = Idle \/ row = Dead(w)
           \/ \E code \in {""} \cup Reasons : row = Failed(w, code)
           \/ \E phase \in {"assigned", "target"}, round \in {0, 1}, t \in TargetRows :
                 row = Claim(w, phase, round, t)
    PROVE  Moved(w, row)
<1>0. CASE row = Idle
    BY <1>0, EmptyRows DEF Moved, Placed
<1>1. CASE row = Dead(w)
    BY <1>1, DeadRow DEF Moved
<1>2. ASSUME NEW code \in {""} \cup Reasons, row = Failed(w, code) PROVE Moved(w, row)
    BY <1>2, FailedRow DEF Moved
<1>3. ASSUME NEW phase \in {"assigned", "target"}, NEW round \in {0, 1},
             NEW t \in TargetRows, row = Claim(w, phase, round, t)
      PROVE  Moved(w, row)
    <2>0. /\ Placed(Claim(w, phase, round, t)) /\ Claim(w, phase, round, t).phase = phase
          /\ Claim(w, phase, round, t).term = worker[w].term
          /\ Claim(w, phase, round, t).claimed = worker[w].claimed
        <3>1. worker[w].term \in Nat /\ worker[w].claimed \in Nat
            BY TopicTypes
        <3> QED
            BY <3>1 DEF Placed, Claim, Idle, WorkerRows, Phases
    <2>1. /\ Placed(row) /\ row.phase = phase /\ row.term = worker[w].term
          /\ row.claimed = worker[w].claimed
        BY <1>3, <2>0
    <2> QED
        BY <1>3, <2>1 DEF Moved
<1> QED
    BY <1>0, <1>1, <1>2, <1>3

\* The next round of a claim, or its end, is such a move.
LEMMA RoundMoves ==
    ASSUME TypeOK, NEW w \in Workers, worker[w].phase # "idle", NextRound(w)
    PROVE  \E row : Moved(w, row)
<1> DEFINE row == IF worker[w].target.gen = worker[w].claimed THEN Idle
                  ELSE IF worker[w].round = 0 THEN Claim(w, "assigned", 1, NoTarget)
                  ELSE Dead(w)
<1>1. worker' = [worker EXCEPT ![w] = row]
    BY DEF NextRound
<1>2. row = Idle \/ row = Dead(w) \/ row = Claim(w, "assigned", 1, NoTarget)
    OBVIOUS
<1> HIDE DEF row
<1> QED
    BY <1>1, <1>2, EndedMoves, EmptyRows

\* All steps of a worker but its dispatch and the start of an attempt.
LEMMA WorkerMoves ==
    ASSUME TypeOK, WorkersPlaced, NEW w \in Workers,
           \/ \E recorded \in BOOLEAN : Reap(w, recorded)
           \/ Target(w) \/ ProcessTarget(w) \/ (Begin(w) /\ Spent)
           \/ \E through \in 1..MaxHead : Select(w, through)
           \/ \E n \in 1..MaxCharges : Reserve(w, n)
           \/ \E code \in Codes : Reject(w, code)
           \/ RecordFailure(w) \/ GenerationFailure(w) \/ Publish(w)
           \/ Refused(w) \/ HeadConflict(w) \/ Crash(w)
    PROVE  \E row : Moved(w, row)
<1>t. /\ worker[w] \in WorkerRows /\ cursor.at \in Frontiers /\ cursor.gen \in Nat
      /\ worker \in [Workers -> WorkerRows] /\ target \in TargetRows
      /\ worker[w].round \in {0, 1} /\ worker[w].code \in {""} \cup Reasons
    BY TopicTypes DEF TypeOK, WorkerRows
<1>n. /\ worker[w].target.through \in Nat /\ worker[w].after \in Nat
      /\ cursor.at \in Nat /\ MaxHead \in Nat /\ WindowLimit \in Nat
    BY TopicTypes, LimitFacts DEF TargetRows
<1>p. Placed(worker[w])
    BY <1>t DEF Placed, WorkersPlaced
<1>r. /\ Row \in BudgetRows /\ Reason(Row) \in {""} \cup Reasons
      /\ Row.code \in {""} \cup Reasons
      /\ \A a \in Frontiers : Reason(budget[a]) \in {""} \cup Reasons
    BY TopicTypes, ReasonFacts DEF Row
<1>1. ASSUME NEW recorded \in BOOLEAN, Reap(w, recorded) PROVE \E row : Moved(w, row)
    BY <1>1, EndedMoves DEF Reap
<1>2. CASE Target(w)
    <2>1. worker[w].phase = "assigned"
        BY <1>2 DEF Target
    <2>2. CASE intent.handled >= worker[w].claimed
        BY <1>2, <2>1, <2>2, EndedMoves DEF Target
    <2>3. CASE ~ (intent.handled >= worker[w].claimed)
        <3>1. /\ target' = IF target = NoTarget THEN FreezeTarget(w) ELSE target
              /\ worker' = [worker EXCEPT ![w] = Claim(w, "target", worker[w].round, target')]
            BY <1>2, <2>3 DEF Target
        <3>2. FreezeTarget(w) \in TargetRows
            BY TopicTypes, RowFacts DEF FreezeTarget, TargetRows, TypeOK
        <3>3. target' \in TargetRows
            BY <1>t, <3>1, <3>2
        <3> QED
            BY <1>t, <2>1, <3>1, <3>3, EndedMoves
    <2> QED
        BY <2>2, <2>3
<1>3. CASE ProcessTarget(w)
    <2>1. worker[w].phase = "target"
        BY <1>3 DEF ProcessTarget
    <2>2. CASE cursor.at >= worker[w].target.through
        BY <1>3, <2>1, <2>2, RoundMoves DEF ProcessTarget
    <2>3. CASE ~ (cursor.at >= worker[w].target.through)
        <3> DEFINE row == [worker[w] EXCEPT !.phase = "selecting", !.after = cursor.at,
                                            !.gen = cursor.gen]
        <3>1. worker' = [worker EXCEPT ![w] = row]
            BY <1>3, <1>t, <2>3 DEF ProcessTarget, WorkerRows
        <3>2. /\ row \in WorkerRows /\ row.phase = "selecting" /\ row.after = cursor.at
              /\ row.term = worker[w].term /\ row.claimed = worker[w].claimed
            BY <1>t, <1>n DEF WorkerRows, Phases
        <3> HIDE DEF row
        <3>3. Moved(w, row)
            BY <1>t, <2>1, <3>1, <3>2 DEF Moved, Placed
        <3> QED
            BY <3>3
    <2> QED
        BY <2>2, <2>3
<1>4. CASE Begin(w) /\ Spent
    BY <1>4, <1>r, EndedMoves DEF Begin
<1>5. ASSUME NEW through \in 1..MaxHead, Select(w, through) PROVE \E row : Moved(w, row)
    <2> DEFINE old == budget[worker[w].after]
               end == Smaller(worker[w].target.through, worker[w].after + WindowLimit)
    <2>1. /\ worker[w].phase = "selecting" /\ worker[w].after \in Frontiers
          /\ through \in (worker[w].after + 1)..end
        BY <1>5, <1>p DEF Select, Placed
    <2>2. CASE old.attempt > 0 /\ Reason(old) # ""
        <3>1. worker' = [worker EXCEPT ![w] = Failed(w, Reason(old))]
            BY <1>5, <2>2 DEF Select
        <3> QED
            BY <1>r, <2>1, <3>1, EndedMoves
    <2>3. CASE ~ (old.attempt > 0 /\ Reason(old) # "")
        <3> DEFINE row == [worker[w] EXCEPT !.phase = "window", !.through = through]
        <3>1. worker' = [worker EXCEPT ![w] = row]
            BY <1>5, <1>t, <2>3 DEF Select, WorkerRows
        <3>2. through \in Nat /\ worker[w].after \in Nat /\ worker[w].target.through \in Nat
            BY <1>n
        <3>3. /\ row \in WorkerRows /\ row.phase = "window" /\ row.after = worker[w].after
              /\ row.through = through /\ row.target = worker[w].target
              /\ row.term = worker[w].term /\ row.claimed = worker[w].claimed
            BY <1>t, <3>2 DEF WorkerRows, Phases
        <3>4. worker[w].after < through /\ through <= worker[w].target.through
            BY <1>n, <2>1, <3>2 DEF Smaller
        <3> HIDE DEF row
        <3>5. Moved(w, row)
            BY <2>1, <3>1, <3>3, <3>4 DEF Moved, Placed
        <3> QED
            BY <3>5
    <2> QED
        BY <2>2, <2>3
<1>f. ASSUME worker[w].phase = "running", NEW code \in {""} \cup Reasons,
             worker' = [worker EXCEPT ![w].phase = "failing", ![w].code = code]
      PROVE  \E row : Moved(w, row)
    <2> DEFINE row == [worker[w] EXCEPT !.phase = "failing", !.code = code]
    <2>1. worker' = [worker EXCEPT ![w] = row]
        BY <1>f, <1>t DEF WorkerRows
    <2>2. /\ row \in WorkerRows /\ row.phase = "failing" /\ row.after = worker[w].after
          /\ row.through = worker[w].through /\ row.target = worker[w].target
          /\ row.term = worker[w].term /\ row.claimed = worker[w].claimed
          /\ row.gen = worker[w].gen /\ row.attempt = worker[w].attempt
        BY <1>t, <1>f DEF WorkerRows, Phases
    <2> HIDE DEF row
    <2>3. Moved(w, row)
        BY <1>p, <1>f, <2>1, <2>2 DEF Moved, Placed
    <2> QED
        BY <2>3
<1>6. ASSUME NEW n \in 1..MaxCharges, Reserve(w, n) PROVE \E row : Moved(w, row)
    <2> DEFINE code == IF Row.code \notin Recoverable \cup {""} THEN Row.code
                       ELSE IF Exceeds(n) THEN "window_provider_budget_exceeded"
                       ELSE ""
    <2>1. /\ worker[w].phase = "running"
          /\ \/ worker' = [worker EXCEPT ![w].phase = "failing", ![w].code = code]
             \/ worker' = worker
        BY <1>6 DEF Reserve
    <2>2. code \in {""} \cup Reasons
        BY <1>r DEF Reasons, Ceilings
    <2> HIDE DEF code
    <2>3. CASE worker' = worker
        <3>1. worker' = [worker EXCEPT ![w] = worker[w]]
            BY <1>t, <2>3
        <3>2. Moved(w, worker[w])
            BY <1>p, <2>1, <3>1 DEF Moved
        <3> QED
            BY <3>2
    <2> QED
        BY <1>f, <2>1, <2>2, <2>3
<1>7. ASSUME NEW code \in Codes, Reject(w, code) PROVE \E row : Moved(w, row)
    BY <1>7, <1>f DEF Reject, Reasons
<1>8. CASE RecordFailure(w)
    BY <1>8, <1>t, EndedMoves DEF RecordFailure
<1>9. CASE GenerationFailure(w)
    <2>1. \/ worker' = [worker EXCEPT ![w] = Idle]
          \/ worker' = [worker EXCEPT ![w] = Dead(w)]
        BY <1>9 DEF GenerationFailure
    <2> QED
        BY <1>9, <2>1, EndedMoves DEF GenerationFailure
<1>10. CASE Publish(w)
    <2>1. worker[w].phase = "running"
        BY <1>10 DEF Publish
    <2>2. CASE worker[w].through = target.through
        BY <1>10, <2>1, <2>2, RoundMoves DEF Publish
    <2>3. CASE worker[w].through # target.through
        BY <1>10, <1>t, <2>1, <2>3, EndedMoves DEF Publish
    <2> QED
        BY <2>2, <2>3
<1>11. CASE Refused(w) \/ HeadConflict(w) \/ Crash(w)
    <2>1. \/ worker' = [worker EXCEPT ![w] = Idle]
          \/ worker' = [worker EXCEPT ![w] = Dead(w)]
        BY <1>11 DEF Refused, HeadConflict, Crash
    <2>2. worker[w].phase # "idle"
        BY <1>11 DEF Refused, HeadConflict, Crash
    <2> QED
        BY <2>1, <2>2, EndedMoves
<1> QED
    BY <1>1, <1>2, <1>3, <1>4, <1>5, <1>6, <1>7, <1>8, <1>9, <1>10, <1>11

\* begin() starts an attempt or finds the frontier spent.
LEMMA BeginKinds ==
    ASSUME TypeOK, NEW w \in Workers, Begin(w)
    PROVE  Spent \/ Started(w)
<1>1. worker[w] \in WorkerRows /\ worker \in [Workers -> WorkerRows]
    BY DEF TypeOK
<1>2. ASSUME ~ Spent PROVE Started(w)
    <2>1. worker' = [worker EXCEPT ![w] = [worker[w] EXCEPT !.phase = "running",
                                               !.attempt = FreshAttempt]]
        BY <1>1, <1>2 DEF Begin, WorkerRows
    <2> QED
        BY <1>2, <2>1 DEF Begin, Started
<1> QED
    BY <1>2

--------------------------------------------------------------------------------
(* The journal, the requests and the frozen target.                        *)

\* The rows these steps write have their shape.
JournalTypes ==
    /\ head \in Frontiers
    /\ cursor \in [at : Frontiers, gen : Nat]
    /\ intent \in IntentRows
    /\ pending \in PendingRows
    /\ target \in TargetRows
    /\ asked \in Seq(Nat)

\* What holds of requests, target and unread input.
JournalInv ==
    /\ RequestsAsked /\ TargetCovers /\ RequestsCovered
    /\ pending.through <= head /\ UnreadIsRemembered

\* What a step leaves of them.
JournalNext ==
    /\ JournalTypes' /\ JournalInv'
    /\ intent'.requested >= intent.requested

\* add() of a source: the new row is unread, dirty and pending.
LEMMA AddSourceJournal ==
    ASSUME TypeOK, JournalInv, AddSource
    PROVE  JournalNext
<1> USE DEF JournalInv
<1>1. /\ head < MaxHead /\ head' = head + 1
      /\ pending' = UpsertPending(pending, head + 1, 0)
      /\ intent' = MarkDirty(intent, 0, 1)
      /\ UNCHANGED <<cursor, target, asked>>
    BY DEF AddSource, history
<1>2. /\ head \in Nat /\ MaxHead \in Nat /\ cursor.at \in Nat /\ pending.through \in Nat
      /\ pending \in PendingRows /\ intent \in IntentRows
      /\ intent.requested \in Nat /\ intent.dirty \in Nat /\ intent.clean \in Nat
      /\ intent.clean <= intent.dirty
    BY TopicTypes, LimitFacts, RowFacts DEF TypeOK
<1>3. /\ intent' \in IntentRows /\ Registered(intent')
      /\ intent'.requested = intent.requested /\ intent'.handled = intent.handled
      /\ intent'.dirty = intent.dirty + 1 /\ intent'.clean = intent.clean
    <2> DEFINE new == 1
               seq == 0
    <2>1. /\ new \in Nat /\ seq \in Nat /\ intent \in IntentRows
          /\ ~ Registered(intent) => intent = Absent
        BY <1>2 DEF RequestsAsked
    <2>2. intent' = MarkDirty(intent, seq, new)
        BY <1>1
    <2> HIDE DEF new, seq
    <2>3. /\ intent' \in IntentRows /\ Registered(intent')
          /\ intent'.requested = intent.requested /\ intent'.handled = intent.handled
          /\ intent'.dirty = intent.dirty + new /\ intent'.clean = intent.clean
        BY <2>1, <2>2, MarkDirtyFacts
    <2> QED
        BY <2>3 DEF new
<1>4. pending' \in PendingRows /\ pending'.through = head'
    BY <1>1, <1>2, UpsertFacts
<1>5. head' \in Frontiers /\ head' \in Nat /\ head' >= head
    BY <1>1, <1>2 DEF Frontiers
<1>6. JournalTypes'
    BY <1>1, <1>3, <1>4, <1>5 DEF JournalTypes, TypeOK
<1>7. TargetCovers'
    BY <1>1, <1>2, <1>3, <1>5, CoversKept
<1>8. RequestsAsked'
    <2>1. \A g \in 1..intent.requested : asked[g] \in Nat
        BY <1>2, ElementOfSeq DEF TypeOK, RequestsAsked
    <2> QED
        BY <1>1, <1>2, <1>3, <1>5, <2>1 DEF RequestsAsked
<1>9. RequestsCovered'
    BY <1>1, <1>3 DEF RequestsCovered
<1>10. UnreadIsRemembered' /\ (pending.through <= head)'
    BY <1>2, <1>3, <1>4, <1>5 DEF UnreadIsRemembered, Dirty
<1> QED
    BY <1>2, <1>3, <1>6, <1>7, <1>8, <1>9, <1>10 DEF JournalNext

\* A request accepted with the head as its end, by an operator or a scan.
LEMMA AskedJournal ==
    ASSUME TypeOK, JournalInv, asked' = Append(asked, head),
           UNCHANGED <<head, cursor, target>>,
           intent' \in IntentRows, Registered(intent'),
           intent'.requested = intent.requested + 1, intent'.handled = intent.handled,
           intent'.dirty = intent.dirty, intent'.clean = intent.clean,
           pending' \in PendingRows,
           pending' = pending \/ pending'.through = head
    PROVE  JournalNext
<1> USE DEF JournalInv
<1>1. /\ head \in Nat /\ cursor.at \in Nat /\ pending.through \in Nat
      /\ intent.requested \in Nat /\ intent.handled \in Nat
      /\ intent.handled <= intent.requested
    BY TopicTypes, RowFacts DEF TypeOK
<1>2. /\ asked' \in Seq(Nat) /\ Len(asked') = intent.requested + 1
      /\ \A g \in 1..intent.requested : asked'[g] = asked[g]
      /\ asked'[intent.requested + 1] = head
    BY AskedFacts
<1>3. JournalTypes'
    BY <1>2 DEF JournalTypes, TypeOK
<1>4. TargetCovers'
    BY <1>1, <1>2, CoversKept
<1>5. RequestsAsked'
    <2>1. \A g \in 1..(intent.requested + 1) :
             g \in 1..intent.requested \/ g = intent.requested + 1
        BY <1>1
    <2> QED
        BY <1>1, <1>2, <2>1 DEF RequestsAsked
<1>6. RequestsCovered'
    <2>1. 1..intent.handled \subseteq 1..intent.requested
        BY <1>1
    <2> QED
        BY <1>2, <2>1 DEF RequestsCovered
<1>7. UnreadIsRemembered' /\ (pending.through <= head)'
    BY <1>1 DEF UnreadIsRemembered, Dirty
<1> QED
    BY <1>1, <1>3, <1>4, <1>5, <1>6, <1>7 DEF JournalNext

\* request_flush() and the request of a retry.
LEMMA FlushJournal ==
    ASSUME TypeOK, JournalInv, AcceptFlush, UNCHANGED <<head, cursor, target>>
    PROVE  JournalNext
BY FlushFacts, AskedJournal DEF JournalInv

\* A scheduled scan admits the scope.
LEMMA AdmitJournal ==
    ASSUME TypeOK, JournalInv, AutoAdmit
    PROVE  JournalNext
<1>1. /\ intent \in IntentRows /\ Dirty(intent) /\ ~ Pending(intent)
      /\ intent' = Admit(intent, intent.lastScan + 1)
      /\ asked' = Append(asked, head)
      /\ UNCHANGED <<head, cursor, pending, target>>
    BY DEF AutoAdmit, TypeOK, journal
<1>2. /\ intent' \in IntentRows /\ intent'.seq = intent.seq
      /\ intent'.requested = intent.requested + 1 /\ intent'.handled = intent.handled
      /\ intent'.dirty = intent.dirty /\ intent'.clean = intent.clean
    BY <1>1, AdmitNextFacts
<1>3. Registered(intent')
    <2>1. Registered(intent)
        <3>1. ~ Dirty(Absent)
            BY DEF Dirty, Absent
        <3> QED
            BY <1>1, <3>1 DEF JournalInv, RequestsAsked
    <2> QED
        BY <1>2, <2>1 DEF Registered
<1>4. pending' = pending /\ pending' \in PendingRows
    BY <1>1 DEF TypeOK
<1> QED
    BY <1>1, <1>2, <1>3, <1>4, AskedJournal

\* _target(): a new target is frozen at the head, which no request is past.
LEMMA TargetJournal ==
    ASSUME TypeOK, JournalInv, WorkersPlaced, NEW w \in Workers, Target(w)
    PROVE  JournalNext
<1> USE DEF JournalInv
<1>1. /\ UNCHANGED <<head, cursor, intent, pending, asked>>
      /\ target' \in {target, FreezeTarget(w)}
    BY DEF Target, journal, history
<1>2. /\ head \in Nat /\ intent \in IntentRows /\ intent.requested \in Nat
      /\ worker[w].claimed \in Nat /\ worker[w].claimed <= intent.requested
    BY TopicTypes, RowFacts DEF TypeOK, WorkersPlaced
<1>3. FreezeTarget(w) \in TargetRows
    BY TopicTypes, RowFacts DEF FreezeTarget, TargetRows, TypeOK
<1>4. JournalTypes'
    BY <1>1, <1>3 DEF JournalTypes, TypeOK
<1>5. RequestsAsked' /\ RequestsCovered' /\ UnreadIsRemembered' /\ (pending.through <= head)'
    BY <1>1 DEF RequestsAsked, RequestsCovered, UnreadIsRemembered
<1>6. TargetCovers'
    <2>1. CASE target' = target
        BY <1>1, <2>1 DEF TargetCovers
    <2>2. CASE target' = FreezeTarget(w)
        <3>1. target'.gen = worker[w].claimed /\ target'.through = head
            BY <2>2 DEF FreezeTarget
        <3>2. 1..worker[w].claimed \subseteq 1..intent.requested
            BY <1>2
        <3> QED
            BY <1>1, <1>2, <3>1, <3>2 DEF TargetCovers, RequestsAsked
    <2> QED
        BY <1>1, <2>1, <2>2
<1> QED
    BY <1>1, <1>2, <1>4, <1>5, <1>6 DEF JournalNext

\* _finish_target() with the cursor at the target's end or past it: what it
\* acknowledges has been read, what has not been read stays marked.
LEMMA FinishJournal ==
    ASSUME TypeOK, JournalInv, NEW w \in Workers, FinishTarget(w, cursor'.at),
           cursor' \in [at : Frontiers, gen : Nat], cursor'.at >= cursor.at,
           cursor'.at <= head \/ cursor'.at = cursor.at,
           UNCHANGED <<head, asked>>
    PROVE  JournalNext
<1> USE DEF JournalInv
<1> DEFINE at == cursor'.at
<1>1. at \in Nat
    <2>1. Frontiers \subseteq Nat
        BY LimitFacts DEF Frontiers
    <2> QED
        BY <2>1
<1>2. /\ head \in Nat /\ cursor.at \in Nat /\ pending.through \in Nat
      /\ target.gen \in Nat /\ target.through \in Nat
      /\ intent \in IntentRows /\ intent.requested \in Nat /\ intent.handled \in Nat
      /\ intent.handled <= intent.requested
    BY TopicTypes, RowFacts DEF TypeOK
<1>3. /\ target = worker[w].target /\ at >= target.through /\ target' = NoTarget
      /\ intent' \in IntentRows /\ Registered(intent')
      /\ intent'.requested = intent.requested
      /\ intent'.handled = intent.handled \/ intent'.handled = target.gen
      /\ intent'.dirty = intent.dirty
      /\ at < head => intent'.clean = intent.clean
      /\ pending' \in PendingRows
      /\ pending'.through <= head
      /\ at < head /\ pending.through = head => pending'.through = head
    <2> HIDE DEF at
    <2> QED
        BY <1>1, FinishFacts DEF at
<1>4. JournalTypes'
    BY <1>3, EmptyRows DEF JournalTypes, TypeOK
<1>5. RequestsAsked'
    BY <1>3 DEF RequestsAsked
<1>6. TargetCovers'
    BY <1>2, <1>3, EmptyRows DEF TargetCovers
<1>7. RequestsCovered'
    <2>a. \A g \in 1..intent.requested : asked[g] \in Nat
        BY <1>2, ElementOfSeq DEF TypeOK, RequestsAsked
    <2>b. 1..intent.handled \subseteq 1..intent.requested
        BY <1>2
    <2>c. 1..target.gen \subseteq 1..intent.requested
        BY <1>2 DEF TargetCovers
    <2> HIDE DEF at
    <2>1. CASE intent'.handled = intent.handled
        <3>1. \A g \in 1..intent.handled : asked[g] <= at
            BY <1>1, <1>2, <2>a, <2>b DEF RequestsCovered, at
        <3> QED
            BY <2>1, <3>1 DEF RequestsCovered, at
    <2>2. CASE intent'.handled = target.gen
        <3>1. \A g \in 1..target.gen : asked[g] <= at
            BY <1>1, <1>2, <1>3, <2>a, <2>c DEF TargetCovers
        <3> QED
            BY <2>2, <3>1 DEF RequestsCovered, at
    <2> QED
        BY <1>3, <2>1, <2>2
<1>8. UnreadIsRemembered' /\ (pending.through <= head)'
    <2>1. at < head => cursor.at < head
        BY <1>1, <1>2
    <2> QED
        BY <1>3, <2>1 DEF UnreadIsRemembered, Dirty
<1> QED
    BY <1>2, <1>3, <1>4, <1>5, <1>6, <1>7, <1>8 DEF JournalNext

\* A window ends before its target, which ends before the head.
LEMMA WindowEnds ==
    ASSUME TypeOK, JournalInv, WorkersPlaced, NEW w \in Workers, CursorUnmoved(w),
           target = worker[w].target, worker[w].phase = "running"
    PROVE  /\ worker[w].through \in Frontiers
           /\ cursor.at < worker[w].through /\ worker[w].through <= head
<1>1. /\ worker[w].after < worker[w].through
      /\ worker[w].through <= target.through /\ target.through <= head
      /\ cursor.at = worker[w].after
    BY DEF WorkersPlaced, JournalInv, TargetCovers, CursorUnmoved
<1>2. /\ worker[w].after \in Nat /\ worker[w].through \in Nat /\ target.through \in Nat
      /\ head \in Nat /\ MaxHead \in Nat /\ head <= MaxHead
    <2>1. head \in 0..MaxHead
        BY DEF TypeOK, Frontiers
    <2>2. head <= MaxHead /\ head \in Nat
        BY <2>1, LimitFacts
    <2> QED
        BY <2>2, TopicTypes, LimitFacts
<1> QED
    BY <1>1, <1>2 DEF Frontiers

\* publish(): the cursor moves forward to the end of the window.
LEMMA PublishJournal ==
    ASSUME TypeOK, JournalInv, WorkersPlaced, NEW w \in Workers, Publish(w)
    PROVE  JournalNext
<1>1. /\ worker[w].phase = "running" /\ CursorUnmoved(w)
      /\ cursor' = [at |-> worker[w].through, gen |-> cursor.gen + 1]
      /\ target = worker[w].target /\ UNCHANGED <<head, asked>>
    BY DEF Publish
<1>2. /\ worker[w].through \in Frontiers /\ worker[w].through \in Nat
      /\ cursor.at < worker[w].through /\ worker[w].through <= head
    BY <1>1, WindowEnds, TopicTypes
<1>3. cursor.at \in Nat /\ cursor.gen \in Nat /\ head \in Nat
    BY TopicTypes
<1>4. cursor' \in [at : Frontiers, gen : Nat] /\ cursor'.at = worker[w].through
    BY <1>1, <1>2, <1>3
<1>5. CASE worker[w].through = target.through
    <2>1. FinishTarget(w, cursor'.at)
        BY <1>4, <1>5 DEF Publish
    <2>2. cursor'.at >= cursor.at /\ cursor'.at <= head
        BY <1>2, <1>3, <1>4
    <2> QED
        BY <1>1, <1>4, <2>1, <2>2, FinishJournal
<1>6. CASE worker[w].through # target.through
    <2>1. UNCHANGED <<intent, pending, target>>
        BY <1>6 DEF Publish
    <2>2. JournalTypes'
        BY <1>1, <1>4, <2>1 DEF JournalTypes, TypeOK
    <2>3. RequestsAsked' /\ TargetCovers' /\ (pending.through <= head)'
        BY <1>1, <2>1 DEF JournalInv, RequestsAsked, TargetCovers
    <2>4. UnreadIsRemembered'
        BY <1>1, <1>2, <1>3, <1>4, <2>1 DEF JournalInv, UnreadIsRemembered
    <2>5. RequestsCovered'
        <3>1. intent.handled \in Nat /\ intent.requested \in Nat
              /\ intent.handled <= intent.requested
            BY RowFacts DEF TypeOK
        <3>2. \A g \in 1..intent.requested : asked[g] \in Nat
            BY <3>1, ElementOfSeq DEF TypeOK, JournalInv, RequestsAsked
        <3>3. 1..intent.handled \subseteq 1..intent.requested
            BY <3>1
        <3>4. \A g \in 1..intent.handled : asked[g] <= worker[w].through
            BY <1>2, <1>3, <3>2, <3>3 DEF JournalInv, RequestsCovered
        <3> QED
            BY <1>1, <1>4, <2>1, <3>4 DEF RequestsCovered
    <2>6. intent'.requested >= intent.requested
        BY <2>1, RowFacts DEF TypeOK
    <2> QED
        BY <2>2, <2>3, <2>4, <2>5, <2>6 DEF JournalNext, JournalInv
<1> QED
    BY <1>5, <1>6

\* Every step keeps what holds of requests, target and unread input.
LEMMA JournalStep ==
    ASSUME TypeOK, JournalInv, WorkersPlaced, [Next]_vars
    PROVE  JournalNext
<1>0. CASE UNCHANGED <<head, cursor, intent, pending, target, asked>>
    <2>1. JournalTypes' /\ JournalInv'
        BY <1>0 DEF TypeOK, JournalTypes, JournalInv, RequestsAsked, TargetCovers,
                    RequestsCovered, UnreadIsRemembered
    <2>2. intent'.requested >= intent.requested
        BY <1>0, RowFacts DEF TypeOK
    <2> QED
        BY <2>1, <2>2 DEF JournalNext
<1>1. CASE UNCHANGED vars
    BY <1>0, <1>1 DEF vars
<1>2. CASE AddSource
    BY <1>2, AddSourceJournal
<1>3. CASE RequestFlush
    BY <1>3, FlushJournal DEF RequestFlush, journal
<1>4. CASE AutoAdmit
    BY <1>4, AdmitJournal
<1>5. CASE EndTerm \/ ReadStatus \/ FinishStatus \/ ProbeBlocks
    BY <1>0, <1>5 DEF EndTerm, ReadStatus, FinishStatus, ProbeBlocks, journal, history
<1>6. ASSUME NEW b \in blocks, Retry(b) PROVE JournalNext
    BY <1>6, FlushJournal DEF Retry, journal
<1>7. ASSUME NEW w \in Workers,
             \/ \E dream \in BOOLEAN : Dispatch(w, dream)
             \/ \E recorded \in BOOLEAN : Reap(w, recorded)
             \/ Begin(w)
             \/ \E through \in 1..MaxHead : Select(w, through)
             \/ \E n \in 1..MaxCharges : Reserve(w, n)
             \/ \E code \in Codes : Reject(w, code)
             \/ RecordFailure(w) \/ GenerationFailure(w)
             \/ Refused(w) \/ HeadConflict(w) \/ Crash(w)
      PROVE  JournalNext
    BY <1>0, <1>7 DEF Dispatch, Reap, Begin, Select, Reserve, Reject, RecordFailure,
                      GenerationFailure, Refused, HeadConflict, Crash, journal, history
<1>8. ASSUME NEW w \in Workers, Target(w) PROVE JournalNext
    BY <1>8, TargetJournal
<1>9. ASSUME NEW w \in Workers, ProcessTarget(w) PROVE JournalNext
    <2>1. UNCHANGED <<head, cursor, asked>>
        BY <1>9 DEF ProcessTarget, journal, history
    <2>2. CASE cursor.at >= worker[w].target.through
        <3>1. FinishTarget(w, cursor'.at)
            BY <1>9, <2>1, <2>2 DEF ProcessTarget
        <3>2. /\ cursor' \in [at : Frontiers, gen : Nat] /\ cursor'.at >= cursor.at
              /\ cursor'.at = cursor.at
            <4>1. cursor \in [at : Frontiers, gen : Nat]
                BY DEF TypeOK
            <4>2. cursor.at \in Nat
                BY TopicTypes
            <4>3. cursor.at >= cursor.at
                BY <4>2
            <4> QED
                BY <2>1, <4>1, <4>3
        <3> QED
            BY <2>1, <3>1, <3>2, FinishJournal
    <2>3. CASE ~ (cursor.at >= worker[w].target.through)
        BY <1>0, <1>9, <2>1, <2>3 DEF ProcessTarget
    <2> QED
        BY <2>2, <2>3
<1>10. ASSUME NEW w \in Workers, Publish(w) PROVE JournalNext
    BY <1>10, PublishJournal
<1> QED
    BY <1>1, <1>2, <1>3, <1>4, <1>5, <1>6, <1>7, <1>8, <1>9, <1>10 DEF Next

--------------------------------------------------------------------------------
(* The workers.                                                            *)

\* What a step makes of the slots.
LEMMA WorkerKinds ==
    ASSUME TypeOK, WorkersPlaced, [Next]_vars
    PROVE  \/ UNCHANGED worker
           \/ \E w \in Workers : \E dream \in BOOLEAN : Dispatch(w, dream)
           \/ \E w \in Workers : Started(w)
           \/ \E w \in Workers : UNCHANGED term /\ \E row : Moved(w, row)
<1>1. CASE UNCHANGED vars
    BY <1>1 DEF vars
<1>2. CASE AddSource \/ RequestFlush \/ AutoAdmit \/ EndTerm \/ ReadStatus \/ FinishStatus
              \/ ProbeBlocks
    BY <1>2 DEF AddSource, RequestFlush, AutoAdmit, EndTerm, ReadStatus, FinishStatus,
                ProbeBlocks
<1>3. ASSUME NEW b \in blocks, Retry(b) PROVE UNCHANGED worker
    BY <1>3 DEF Retry
<1>4. ASSUME NEW w \in Workers, Begin(w)
      PROVE  Started(w) \/ (UNCHANGED term /\ \E row : Moved(w, row))
    BY <1>4, BeginKinds, WorkerMoves DEF Begin
<1>5. ASSUME NEW w \in Workers,
             \/ \E recorded \in BOOLEAN : Reap(w, recorded)
             \/ Target(w) \/ ProcessTarget(w)
             \/ \E through \in 1..MaxHead : Select(w, through)
             \/ \E n \in 1..MaxCharges : Reserve(w, n)
             \/ \E code \in Codes : Reject(w, code)
             \/ RecordFailure(w) \/ GenerationFailure(w) \/ Publish(w)
             \/ Refused(w) \/ HeadConflict(w) \/ Crash(w)
      PROVE  UNCHANGED term /\ \E row : Moved(w, row)
    <2>1. \E row : Moved(w, row)
        BY <1>5, WorkerMoves
    <2>2. UNCHANGED term
        BY <1>5 DEF Reap, Target, ProcessTarget, Select, Reserve, Reject, RecordFailure,
                    GenerationFailure, Publish, Refused, HeadConflict, Crash
    <2> QED
        BY <2>1, <2>2
<1> QED
    BY <1>1, <1>2, <1>3, <1>4, <1>5 DEF Next

\* _dispatch() fills a slot with the row of a new assignment.
LEMMA DispatchRow ==
    ASSUME TypeOK, NEW w \in Workers, NEW dream \in BOOLEAN, Dispatch(w, dream)
    PROVE  \E row \in WorkerRows :
              /\ worker' = [worker EXCEPT ![w] = row] /\ row.phase = "assigned"
              /\ row.term = term /\ row.claimed = intent.requested
              /\ UNCHANGED <<term, cursor, intent, budget, blocks>> /\ SlotFree
<1> DEFINE row == [Idle EXCEPT !.phase = "assigned", !.term = term,
                               !.claimed = intent.requested]
<1>1. /\ worker' = [worker EXCEPT ![w] = row] /\ SlotFree
      /\ UNCHANGED <<term, cursor, intent, budget, blocks>>
    BY DEF Dispatch, journal
<1>2. term \in Nat /\ intent.requested \in Nat
    BY RowFacts DEF TypeOK
<1>3. /\ row \in WorkerRows /\ row.phase = "assigned" /\ row.term = term
      /\ row.claimed = intent.requested
    BY <1>2, EmptyRows DEF Idle, WorkerRows, Phases
<1> QED
    BY <1>1, <1>3

\* begin() leaves a new attempt at the window the worker had chosen.
LEMMA StartedRow ==
    ASSUME TypeOK, IsFiniteSet(blocks), NEW w \in Workers, Started(w)
    PROVE  \E row \in WorkerRows :
              /\ worker' = [worker EXCEPT ![w] = row] /\ row.phase = "running"
              /\ row.term = worker[w].term /\ row.claimed = worker[w].claimed
              /\ row.after = worker[w].after /\ row.through = worker[w].through
              /\ row.target = worker[w].target /\ row.gen = worker[w].gen
              /\ row.attempt = FreshAttempt
<1> DEFINE row == [worker[w] EXCEPT !.phase = "running", !.attempt = FreshAttempt]
<1>1. worker' = [worker EXCEPT ![w] = row]
    BY DEF Started
<1>2. worker[w] \in WorkerRows /\ FreshAttempt \in Nat
    BY TopicTypes, FreshFacts
<1>3. /\ row \in WorkerRows /\ row.phase = "running"
      /\ row.term = worker[w].term /\ row.claimed = worker[w].claimed
      /\ row.after = worker[w].after /\ row.through = worker[w].through
      /\ row.target = worker[w].target /\ row.gen = worker[w].gen
      /\ row.attempt = FreshAttempt
    BY <1>2 DEF WorkerRows, Phases
<1> QED
    BY <1>1, <1>3

\* Workers stay within their terms, claims and targets.
LEMMA WorkersStep ==
    ASSUME TypeOK, WorkersPlaced, IsFiniteSet(blocks), [Next]_vars,
           term' \in Nat, term' >= term,
           intent'.requested \in Nat, intent'.requested >= intent.requested
    PROVE  worker' \in [Workers -> WorkerRows] /\ WorkersPlaced'
<1>t. /\ worker \in [Workers -> WorkerRows] /\ term \in Nat /\ intent.requested \in Nat
      /\ \A w \in Workers : worker[w].term \in Nat /\ worker[w].claimed \in Nat
    BY TopicTypes, RowFacts DEF TypeOK
<1>1. CASE UNCHANGED worker
    BY <1>t, <1>1 DEF WorkersPlaced
<1>g. ASSUME NEW w \in Workers, NEW row \in WorkerRows,
             worker' = [worker EXCEPT ![w] = row], Placed(row),
             row.phase # "idle" => row.term <= term, row.claimed <= intent.requested
      PROVE  worker' \in [Workers -> WorkerRows] /\ WorkersPlaced'
    <2>1. worker' \in [Workers -> WorkerRows] /\ worker'[w] = row
        BY <1>t, <1>g
    <2>2. row.term \in Nat /\ row.claimed \in Nat
        BY DEF WorkerRows
    <2>3. \A v \in Workers \ {w} : worker'[v] = worker[v]
        BY <1>t, <1>g
    <2>4. ASSUME NEW v \in Workers
          PROVE  /\ worker'[v].phase # "idle" => worker'[v].term <= term'
                 /\ worker'[v].claimed <= intent'.requested
                 /\ worker'[v].phase \in {"selecting", "window", "running", "failing"}
                       => worker'[v].after \in Frontiers
                 /\ worker'[v].phase \in {"window", "running", "failing"}
                       => /\ worker'[v].after < worker'[v].through
                          /\ worker'[v].through <= worker'[v].target.through
        <3>1. CASE v = w
            BY <1>t, <1>g, <2>1, <2>2, <3>1 DEF Placed
        <3>2. CASE v # w
            BY <1>t, <2>3, <3>2 DEF WorkersPlaced
        <3> QED
            BY <3>1, <3>2
    <2> QED
        BY <2>1, <2>4 DEF WorkersPlaced, Frontiers
<1>2. ASSUME NEW w \in Workers, NEW dream \in BOOLEAN, Dispatch(w, dream)
      PROVE  worker' \in [Workers -> WorkerRows] /\ WorkersPlaced'
    BY <1>t, <1>g, <1>2, DispatchRow DEF Placed
<1>3. ASSUME NEW w \in Workers, Started(w)
      PROVE  worker' \in [Workers -> WorkerRows] /\ WorkersPlaced'
    <2>1. PICK row \in WorkerRows :
              /\ worker' = [worker EXCEPT ![w] = row] /\ row.phase = "running"
              /\ row.term = worker[w].term /\ row.claimed = worker[w].claimed
              /\ row.after = worker[w].after /\ row.through = worker[w].through
              /\ row.target = worker[w].target
        BY <1>3, StartedRow
    <2>2. worker[w].phase = "window"
        BY <1>3 DEF Started
    <2>3. /\ worker[w].term <= term /\ worker[w].claimed <= intent.requested
          /\ worker[w].after \in Frontiers /\ worker[w].after < worker[w].through
          /\ worker[w].through <= worker[w].target.through
        BY <2>2 DEF WorkersPlaced
    <2>4. Placed(row)
        BY <2>1, <2>3 DEF Placed
    <2> QED
        BY <1>g, <2>1, <2>3, <2>4
<1>4. ASSUME NEW w \in Workers, NEW row, Moved(w, row)
      PROVE  worker' \in [Workers -> WorkerRows] /\ WorkersPlaced'
    <2>1. /\ worker' = [worker EXCEPT ![w] = row] /\ Placed(row) /\ row \in WorkerRows
          /\ worker[w].phase # "idle"
          /\ row.phase # "idle" => row.term = worker[w].term
          /\ row.claimed \in {0, worker[w].claimed}
        BY <1>4 DEF Moved, Placed
    <2>2. worker[w].term <= term /\ worker[w].claimed <= intent.requested
        BY <2>1 DEF WorkersPlaced
    <2>3. row.claimed <= intent.requested
        BY <1>t, <2>1, <2>2
    <2> QED
        BY <1>g, <2>1, <2>2, <2>3
<1> QED
    BY <1>1, <1>2, <1>3, <1>4, WorkerKinds

\* The slot of the running term stays one worker's.
LEMMA OneWorkerStep ==
    ASSUME TypeOK, WorkersPlaced, IsFiniteSet(blocks), OneWorkerPerTerm, [Next]_vars,
           \/ term' = term
           \/ term' = term + 1 /\ UNCHANGED worker
    PROVE  OneWorkerPerTerm'
<1>t. /\ worker \in [Workers -> WorkerRows] /\ term \in Nat
      /\ \A w \in Workers : worker[w].term \in Nat
    BY TopicTypes DEF TypeOK
<1>0. CASE term' = term + 1 /\ UNCHANGED worker
    BY <1>t, <1>0 DEF OneWorkerPerTerm, WorkersPlaced
<1>1. CASE UNCHANGED worker /\ term' = term
    BY <1>1 DEF OneWorkerPerTerm
<1>2. ASSUME term' = term, NEW w \in Workers, NEW dream \in BOOLEAN, Dispatch(w, dream)
      PROVE  OneWorkerPerTerm'
    BY <1>t, <1>2, DispatchRow DEF OneWorkerPerTerm, SlotFree
<1>g. ASSUME term' = term, NEW w \in Workers, NEW row,
             worker' = [worker EXCEPT ![w] = row], worker[w].phase # "idle",
             row.phase # "idle" => row.term = worker[w].term
      PROVE  OneWorkerPerTerm'
    BY <1>t, <1>g DEF OneWorkerPerTerm
<1>3. ASSUME term' = term, NEW w \in Workers, Started(w)
      PROVE  OneWorkerPerTerm'
    BY <1>g, <1>3, StartedRow DEF Started
<1>4. ASSUME term' = term, NEW w \in Workers, NEW row, Moved(w, row)
      PROVE  OneWorkerPerTerm'
    BY <1>g, <1>4 DEF Moved
<1> QED
    BY <1>0, <1>1, <1>2, <1>3, <1>4, WorkerKinds

--------------------------------------------------------------------------------
(* What a step makes of the allowance, the blocks and the cursor.          *)

\* It leaves them alone.
Quiet ==
    /\ UNCHANGED <<budget, cursor, blocks, spent>>
    /\ head' \in Nat /\ head' >= head

\* observe_topic_memory_block(), by one who knows that no attempt is running:
\* the probe of a free slot, the failed worker, the status reader.
Observes ==
    /\ blocks' = BlocksObserved
    /\ UNCHANGED <<budget, cursor, spent, head, term>>
    /\ \/ SlotFree
       \/ \E w \in Workers : worker[w].phase = "failed" /\ Fenced(w)
       \/ reader # NoReader /\ MayObserve

\* The worker of the running term writes to the row of the attempt that is
\* there, and charges n to it.
Rewritten(w, row, n) ==
    /\ budget' = [budget EXCEPT ![cursor.at] = row]
    /\ UNCHANGED <<cursor, blocks, head, term, reader>>
    /\ row.attempt = Row.attempt /\ row.term = Row.term
    /\ \/ row.finished = Row.finished
       \/ row.finished /\ worker'[w].phase \notin {"running", "failing"}
    /\ row.charges = Row.charges + n /\ spent' = spent + n
    /\ n > 0 => row.charges <= MaxCharges
    /\ worker[w].phase # "idle" /\ Fenced(w)
    /\ \/ Reason(Row) # "" => Reason(row) = Reason(Row)
       \/ worker[w].phase \in {"running", "failing"} /\ CursorUnmoved(w)

\* The same step, with the row's type.
Rewrites(w) == \E row \in BudgetRows : \E n \in Nat : Rewritten(w, row, n)

\* _reap() settles the attempt of the worker that died.
LEMMA ReapKind ==
    ASSUME TypeOK, NEW w \in Workers, NEW recorded \in BOOLEAN, Reap(w, recorded)
    PROVE  Quiet \/ Rewrites(w)
<1> DEFINE none == 0
<1>c. Row.charges \in Nat /\ spent \in Nat
    BY TopicTypes DEF Row
<1>n. /\ none \in Nat /\ ~ (none > 0)
      /\ Row.charges = Row.charges + none /\ spent = spent + none
    BY <1>c
<1> HIDE DEF none
<1>t. /\ Row \in BudgetRows /\ Row.charges \in Nat /\ spent \in Nat /\ head \in Nat
      /\ worker \in [Workers -> WorkerRows] /\ budget \in [Frontiers -> BudgetRows]
      /\ cursor.at \in Frontiers
    BY TopicTypes DEF Row, TypeOK
<1>1. /\ worker[w].phase = "dead" /\ worker' = [worker EXCEPT ![w] = Idle]
      /\ UNCHANGED <<term, head, cursor, blocks, reader, spent>>
      /\ budget' = IF recorded /\ worker[w].term = term /\ Row.attempt > 0
                   THEN [budget EXCEPT ![cursor.at] = Settled(Row)] ELSE budget
    BY DEF Reap, journal, history, Row
<1>2. CASE budget' = budget
    BY <1>t, <1>1, <1>2 DEF Quiet
<1>3. CASE worker[w].term = term /\ budget' = [budget EXCEPT ![cursor.at] = Settled(Row)]
    <2> DEFINE row == Settled(Row)
    <2>1. /\ row \in BudgetRows /\ row.attempt = Row.attempt /\ row.term = Row.term
          /\ row.charges = Row.charges /\ row.code = Row.code
          /\ row.attempts = Row.attempts
          /\ row.finished = Row.finished \/ row.finished
        BY <1>t DEF Settled, BudgetRows
    <2> HIDE DEF row
    <2>2. Reason(row) = Reason(Row)
        BY <2>1 DEF Reason
    <2>3. worker'[w].phase = "idle"
        BY <1>t, <1>1, EmptyRows
    <2>4. budget' = [budget EXCEPT ![cursor.at] = row]
        BY <1>3 DEF row
    <2>5. Rewritten(w, row, none)
        BY <1>1, <1>3, <1>n, <2>1, <2>2, <2>3, <2>4 DEF Rewritten, Fenced
    <2> QED
        BY <1>n, <2>1, <2>5 DEF Rewrites
<1> QED
    BY <1>1, <1>2, <1>3

\* begin() at a spent frontier keeps the reason it is spent for.
LEMMA SpentKind ==
    ASSUME TypeOK, NEW w \in Workers, Begin(w), Spent
    PROVE  Rewrites(w)
<1> DEFINE none == 0
<1>c. Row.charges \in Nat /\ spent \in Nat
    BY TopicTypes DEF Row
<1>n. /\ none \in Nat /\ ~ (none > 0)
      /\ Row.charges = Row.charges + none /\ spent = spent + none
    BY <1>c
<1> HIDE DEF none
<1>t. /\ Row \in BudgetRows /\ Row.charges \in Nat /\ spent \in Nat
      /\ Reason(Row) \in {""} \cup Reasons
      /\ worker \in [Workers -> WorkerRows] /\ budget \in [Frontiers -> BudgetRows]
      /\ cursor.at \in Frontiers
    BY TopicTypes, ReasonFacts DEF Row, TypeOK
<1> DEFINE row == [Row EXCEPT !.code = Reason(Row)]
<1>1. /\ worker[w].phase = "window" /\ Fenced(w)
      /\ UNCHANGED <<term, head, cursor, blocks, reader, spent>>
      /\ budget' = [budget EXCEPT ![cursor.at].code = Reason(Row)]
    BY DEF Begin, journal, history
<1>2. budget' = [budget EXCEPT ![cursor.at] = row]
    BY <1>t, <1>1 DEF Row
<1>3. /\ row \in BudgetRows /\ row.attempt = Row.attempt /\ row.term = Row.term
      /\ row.charges = Row.charges /\ row.finished = Row.finished
    BY <1>t DEF BudgetRows
<1>4. Reason(row) = Reason(Row)
    BY <1>t, ReasonFacts DEF Spent
<1> HIDE DEF row
<1>5. Rewritten(w, row, none)
    BY <1>1, <1>2, <1>3, <1>4, <1>n DEF Rewritten
<1> QED
    BY <1>3, <1>5, <1>n DEF Rewrites

\* reserve() charges within the ceiling, or leaves the code of its refusal.
LEMMA ReserveKind ==
    ASSUME TypeOK, NEW w \in Workers, NEW n \in 1..MaxCharges, Reserve(w, n)
    PROVE  Rewrites(w)
<1> DEFINE none == 0
<1>c. Row.charges \in Nat /\ spent \in Nat
    BY TopicTypes DEF Row
<1>n. /\ none \in Nat /\ ~ (none > 0)
      /\ Row.charges = Row.charges + none /\ spent = spent + none
    BY <1>c
<1> HIDE DEF none
<1>t. /\ Row \in BudgetRows /\ Row.charges \in Nat /\ spent \in Nat
      /\ Row.code \in {""} \cup Reasons
      /\ worker \in [Workers -> WorkerRows] /\ budget \in [Frontiers -> BudgetRows]
      /\ cursor.at \in Frontiers
    BY TopicTypes DEF Row, TypeOK
<1>m. MaxCharges \in Nat /\ n \in Nat
    BY LimitFacts
<1> DEFINE code == IF Row.code \notin Recoverable \cup {""} THEN Row.code
                   ELSE IF Exceeds(n) THEN "window_provider_budget_exceeded"
                   ELSE ""
           refused == [Row EXCEPT !.code = code]
           charged == [Row EXCEPT !.charges = Row.charges + n]
<1>1. /\ worker[w].phase = "running" /\ Fenced(w) /\ CursorUnmoved(w)
      /\ UNCHANGED <<term, head, cursor, blocks, reader>>
    BY DEF Reserve, journal
<1>2. CASE code # ""
    <2>1. budget' = [budget EXCEPT ![cursor.at].code = code] /\ UNCHANGED spent
        BY <1>2 DEF Reserve
    <2>2. budget' = [budget EXCEPT ![cursor.at] = refused]
        BY <1>t, <2>1 DEF Row
    <2>3. code \in {""} \cup Reasons
        BY <1>t DEF Reasons, Ceilings
    <2> HIDE DEF code
    <2>4. /\ refused \in BudgetRows /\ refused.attempt = Row.attempt
          /\ refused.term = Row.term /\ refused.charges = Row.charges
          /\ refused.finished = Row.finished
        BY <1>t, <2>3 DEF BudgetRows
    <2> HIDE DEF refused
    <2>5. Rewritten(w, refused, none)
        BY <1>1, <1>n, <2>1, <2>2, <2>4 DEF Rewritten
    <2> QED
        BY <1>n, <2>4, <2>5 DEF Rewrites
<1>3. CASE code = ""
    <2>1. /\ budget' = [budget EXCEPT ![cursor.at].charges = @ + n]
          /\ spent' = spent + n
        BY <1>3 DEF Reserve
    <2>2. budget' = [budget EXCEPT ![cursor.at] = charged]
        BY <1>t, <2>1 DEF Row
    <2>3. ~ Exceeds(n)
        BY <1>3
    <2>4. Row.charges + n \in Nat /\ Row.charges + n <= MaxCharges
        BY <1>c, <1>m, <2>3 DEF Exceeds
    <2>5. /\ charged \in BudgetRows /\ charged.attempt = Row.attempt
          /\ charged.term = Row.term /\ charged.charges = Row.charges + n
          /\ charged.finished = Row.finished
        BY <1>t, <2>4 DEF BudgetRows
    <2> HIDE DEF charged
    <2>6. Rewritten(w, charged, n)
        BY <1>1, <2>1, <2>2, <2>4, <2>5 DEF Rewritten
    <2> QED
        BY <1>m, <2>5, <2>6 DEF Rewrites
<1> QED
    BY <1>2, <1>3

\* fail() and record_failure() settle the worker's own attempt.
LEMMA FailureKind ==
    ASSUME TypeOK, NEW w \in Workers, RecordFailure(w)
    PROVE  Rewrites(w)
<1> DEFINE none == 0
<1>c. Row.charges \in Nat /\ spent \in Nat
    BY TopicTypes DEF Row
<1>n. /\ none \in Nat /\ ~ (none > 0)
      /\ Row.charges = Row.charges + none /\ spent = spent + none
    BY <1>c
<1> HIDE DEF none
<1>t. /\ Row \in BudgetRows /\ Row.charges \in Nat /\ spent \in Nat
      /\ worker[w].code \in {""} \cup Reasons
      /\ worker \in [Workers -> WorkerRows] /\ budget \in [Frontiers -> BudgetRows]
      /\ cursor.at \in Frontiers
    BY TopicTypes DEF Row, TypeOK
<1> DEFINE settled == Settled(Row)
           row == IF worker[w].code \in Recorded
                  THEN [settled EXCEPT !.code = worker[w].code] ELSE settled
<1>1. /\ worker[w].phase = "failing" /\ Fenced(w) /\ CursorUnmoved(w)
      /\ UNCHANGED <<term, head, cursor, blocks, reader, spent>>
      /\ worker' = [worker EXCEPT ![w] = Failed(w, worker[w].code)]
      /\ budget' = [budget EXCEPT ![cursor.at] = row]
    BY DEF RecordFailure, journal, history, Row
<1>2. /\ settled \in BudgetRows /\ settled.attempt = Row.attempt
      /\ settled.term = Row.term /\ settled.charges = Row.charges
      /\ settled.finished = Row.finished \/ settled.finished
    BY <1>t DEF Settled, BudgetRows
<1> HIDE DEF settled
<1>3. /\ row \in BudgetRows /\ row.attempt = Row.attempt
      /\ row.term = Row.term /\ row.charges = Row.charges
      /\ row.finished = Row.finished \/ row.finished
    BY <1>t, <1>2 DEF BudgetRows
<1> HIDE DEF row
<1>4. worker'[w].phase = "failed"
    BY <1>t, <1>1, FailedRow
<1>5. Rewritten(w, row, none)
    BY <1>1, <1>3, <1>4, <1>n DEF Rewritten
<1> QED
    BY <1>3, <1>5, <1>n DEF Rewrites

\* Every step is one of these.
LEMMA FrontierKinds ==
    ASSUME TypeOK, [Next]_vars
    PROVE  \/ Quiet \/ Observes
           \/ \E b \in blocks : Retry(b)
           \/ \E w \in Workers : Started(w) \/ Rewrites(w) \/ Publish(w)
<1>t. head \in Nat
    BY TopicTypes
<1>0. CASE UNCHANGED <<budget, cursor, blocks, spent, head>>
    BY <1>t, <1>0 DEF Quiet
<1>1. CASE UNCHANGED vars
    BY <1>0, <1>1 DEF vars
<1>2. CASE AddSource
    BY <1>t, <1>2 DEF AddSource, Quiet, history
<1>3. CASE RequestFlush \/ AutoAdmit \/ EndTerm \/ ReadStatus
    BY <1>0, <1>3 DEF RequestFlush, AutoAdmit, EndTerm, ReadStatus, journal, history
<1>4. CASE ProbeBlocks
    BY <1>4 DEF ProbeBlocks, Observes, journal, history
<1>5. CASE FinishStatus
    <2>1. CASE MayObserve
        BY <1>5, <2>1 DEF FinishStatus, Observes, journal, history
    <2>2. CASE ~ MayObserve
        BY <1>0, <1>5, <2>2 DEF FinishStatus, journal, history
    <2> QED
        BY <2>1, <2>2
<1>6. ASSUME NEW w \in Workers, GenerationFailure(w) PROVE Observes
    BY <1>6 DEF GenerationFailure, Observes, journal, history
<1>7. ASSUME NEW w \in Workers,
             \/ \E dream \in BOOLEAN : Dispatch(w, dream)
             \/ Target(w) \/ ProcessTarget(w)
             \/ \E through \in 1..MaxHead : Select(w, through)
             \/ \E code \in Codes : Reject(w, code)
             \/ Refused(w) \/ HeadConflict(w) \/ Crash(w)
      PROVE  Quiet
    <2>1. UNCHANGED <<budget, cursor, blocks, spent, head>>
        BY <1>7 DEF Dispatch, Target, ProcessTarget, Select, Reject, Refused,
                    HeadConflict, Crash, journal, history
    <2> QED
        BY <1>t, <2>1 DEF Quiet
<1>8. ASSUME NEW w \in Workers,
             \/ \E recorded \in BOOLEAN : Reap(w, recorded)
             \/ \E n \in 1..MaxCharges : Reserve(w, n)
             \/ Begin(w) \/ RecordFailure(w)
      PROVE  Quiet \/ Started(w) \/ Rewrites(w)
    BY <1>8, ReapKind, SpentKind, ReserveKind, FailureKind, BeginKinds
<1> QED
    BY <1>1, <1>2, <1>3, <1>4, <1>5, <1>6, <1>7, <1>8 DEF Next

\* observe_topic_memory_block() adds the block of the current attempt at most;
\* there is unread input behind it.
LEMMA ObservedFacts ==
    ASSUME TypeOK, TargetCovers
    PROVE  \/ BlocksObserved = blocks
           \/ \E new \in BlockRows :
                 /\ BlocksObserved = blocks \cup {new} /\ ~ Blocked
                 /\ new.after = cursor.at /\ new.attempt = Row.attempt
                 /\ new.attempt > 0 /\ new.code = Reason(Row) /\ new.retry = 0
                 /\ cursor.at < head
<1> DEFINE new == [after |-> cursor.at, attempt |-> Row.attempt, code |-> Reason(Row),
                   retry |-> 0]
<1>1. /\ Row \in BudgetRows /\ Row.attempt \in Nat /\ Reason(Row) \in {""} \cup Reasons
      /\ cursor.at \in Nat
    BY TopicTypes, ReasonFacts DEF Row
<1>n. cursor.at \in Nat /\ head \in Nat /\ target.through \in Nat
    BY TopicTypes
<1>2. CASE ~ Blockable \/ Blocked
    BY <1>2 DEF BlocksObserved
<1>3. CASE Blockable /\ ~ Blocked
    <2>1. BlocksObserved = blocks \cup {new}
        BY <1>3 DEF BlocksObserved
    <2>2. Row.attempt > 0 /\ Reason(Row) # ""
        BY <1>3 DEF Blockable, Spent
    <2>e. TargetEnd > cursor.at
        BY <1>3 DEF Blockable
    <2>3. TargetEnd \in Nat /\ TargetEnd <= head
        BY <1>n DEF TargetEnd, TargetCovers
    <2>4. cursor.at < head
        BY <1>n, <2>e, <2>3
    <2>5. Reason(Row) \in Reasons
        BY <1>1, <2>2
    <2>6. /\ new \in BlockRows /\ new.after = cursor.at /\ new.attempt = Row.attempt
          /\ new.code = Reason(Row) /\ new.retry = 0
        BY <1>1, <2>5 DEF BlockRows
    <2> QED
        BY <1>3, <2>1, <2>2, <2>4, <2>6
<1> QED
    BY <1>2, <1>3

\* retry_topic_memory_block() marks the block with its request and takes the
\* allowance away.
LEMMA RetryFacts ==
    ASSUME TypeOK, JournalInv, NEW b \in blocks, Retry(b)
    PROVE  \E new \in BlockRows :
              /\ blocks' = (blocks \ {b}) \cup {new}
              /\ new.after = b.after /\ new.attempt = b.attempt /\ new.retry > 0
              /\ b.retry = 0 /\ Retryable(b) /\ b.after = cursor.at
              /\ budget' = [budget EXCEPT ![cursor.at] = NoBudget]
              /\ UNCHANGED <<cursor, head, term, worker, reader, spent>>
<1> DEFINE new == [b EXCEPT !.retry = intent'.requested]
<1>1. /\ b.retry = 0 /\ Retryable(b) /\ AcceptFlush
      /\ budget' = [budget EXCEPT ![cursor.at] = NoBudget]
      /\ blocks' = (blocks \ {b}) \cup {new}
      /\ UNCHANGED <<cursor, head, term, worker, reader, spent>>
    BY DEF Retry, journal
<1>2. intent'.requested = intent.requested + 1 /\ intent.requested \in Nat
    BY <1>1, FlushFacts, RowFacts DEF JournalInv, TypeOK
<1>3. intent'.requested \in Nat /\ intent'.requested > 0
    BY <1>2
<1>4. /\ new \in BlockRows /\ new.after = b.after /\ new.attempt = b.attempt
      /\ new.retry = intent'.requested
    BY <1>3, TopicTypes DEF BlockRows
<1>5. b.after = cursor.at
    BY <1>1 DEF Retryable
<1> HIDE DEF new
<1> QED
    BY <1>1, <1>3, <1>4, <1>5

\* The row of a new attempt.
LEMMA ChargedRow ==
    ASSUME TypeOK, IsFiniteSet(blocks), NEW w \in Workers
    PROVE  /\ Charged(w) \in BudgetRows /\ Charged(w).attempt = FreshAttempt
           /\ ~ Charged(w).finished /\ Charged(w).term = worker[w].term
           /\ Charged(w).charges = Row.charges
<1>1. /\ Row \in BudgetRows /\ Row.attempts \in Nat /\ worker[w].term \in Nat
      /\ FreshAttempt \in Nat
    BY TopicTypes, FreshFacts DEF Row
<1>2. Row.attempts + 1 \in Nat
    BY <1>1
<1> QED
    BY <1>1, <1>2 DEF Charged, BudgetRows

\* The allowance rows and the blocks keep their shape.
LEMMA FrontierTypes ==
    ASSUME TypeOK, JournalInv, WorkersPlaced, IsFiniteSet(blocks), [Next]_vars
    PROVE  /\ budget' \in [Frontiers -> BudgetRows]
           /\ blocks' \subseteq BlockRows /\ IsFiniteSet(blocks')
           /\ spent' \in Nat
<1>t. /\ budget \in [Frontiers -> BudgetRows] /\ blocks \subseteq BlockRows
      /\ NoBudget \in BudgetRows
    BY EmptyRows DEF TypeOK
<1>s. spent \in Nat
    BY TopicTypes
<1>1. CASE Quiet
    BY <1>t, <1>s, <1>1 DEF Quiet
<1>2. CASE Observes
    <2>1. TargetCovers
        BY DEF JournalInv
    <2>2. BlocksObserved \subseteq BlockRows /\ IsFiniteSet(BlocksObserved)
        BY <1>t, <2>1, ObservedFacts, FS_AddElement
    <2> QED
        BY <1>2, <1>t, <1>s, <2>2 DEF Observes
<1>3. ASSUME NEW b \in blocks, Retry(b)
      PROVE  /\ budget' \in [Frontiers -> BudgetRows]
             /\ blocks' \subseteq BlockRows /\ IsFiniteSet(blocks')
             /\ spent' \in Nat
    <2>1. PICK new \in BlockRows :
              /\ blocks' = (blocks \ {b}) \cup {new}
              /\ budget' = [budget EXCEPT ![cursor.at] = NoBudget]
              /\ UNCHANGED spent
        BY <1>3, RetryFacts
    <2>2. IsFiniteSet(blocks \ {b})
        BY FS_RemoveElement
    <2>3. IsFiniteSet(blocks')
        BY <2>1, <2>2, FS_AddElement
    <2> QED
        BY <1>t, <1>s, <2>1, <2>3
<1>4. ASSUME NEW w \in Workers, Started(w)
      PROVE  budget' \in [Frontiers -> BudgetRows] /\ UNCHANGED <<blocks, spent>>
    BY <1>t, <1>4, ChargedRow DEF Started, history
<1>5. ASSUME NEW w \in Workers, Rewrites(w)
      PROVE  /\ budget' \in [Frontiers -> BudgetRows]
             /\ UNCHANGED blocks /\ spent' \in Nat
    <2>1. PICK row \in BudgetRows, n \in Nat : Rewritten(w, row, n)
        BY <1>5 DEF Rewrites
    <2>2. UNCHANGED blocks /\ spent' = spent + n
          /\ budget' = [budget EXCEPT ![cursor.at] = row]
        BY <2>1 DEF Rewritten
    <2>3. spent' \in Nat
        BY <1>s, <2>2
    <2> QED
        BY <1>t, <2>2, <2>3
<1>6. ASSUME NEW w \in Workers, Publish(w)
      PROVE  budget' \in [Frontiers -> BudgetRows] /\ UNCHANGED blocks /\ spent' = 0
    BY <1>t, <1>6 DEF Publish
<1> QED
    BY <1>t, <1>s, <1>1, <1>2, <1>3, <1>4, <1>5, <1>6, FrontierKinds

\* The term advances when the lease is lost; a status reader remembers the
\* attempt it saw until it is done.
LEMMA TermAndReader ==
    ASSUME TypeOK, [Next]_vars
    PROVE  /\ term' \in Nat /\ term' >= term
           /\ term' = term \/ (term' = term + 1 /\ EndTerm)
           /\ \/ UNCHANGED reader
              \/ ReadStatus
              \/ reader' = NoReader
           /\ reader' \in [attempt : Nat, lockedLease : BOOLEAN]
<1>t. /\ term \in Nat /\ reader \in [attempt : Nat, lockedLease : BOOLEAN]
      /\ Row.attempt \in Nat /\ NoReader \in [attempt : Nat, lockedLease : BOOLEAN]
    BY TopicTypes DEF TypeOK, NoReader, Row
<1>0. CASE UNCHANGED <<term, reader>>
    BY <1>t, <1>0
<1>1. CASE UNCHANGED vars
    BY <1>0, <1>1 DEF vars
<1>2. CASE AddSource \/ RequestFlush \/ AutoAdmit \/ ProbeBlocks
    BY <1>0, <1>2 DEF AddSource, RequestFlush, AutoAdmit, ProbeBlocks
<1>3. CASE EndTerm
    BY <1>t, <1>3 DEF EndTerm
<1>4. CASE ReadStatus
    BY <1>t, <1>4 DEF ReadStatus
<1>5. CASE FinishStatus
    BY <1>t, <1>5 DEF FinishStatus
<1>6. ASSUME NEW b \in blocks, Retry(b) PROVE UNCHANGED <<term, reader>>
    BY <1>6 DEF Retry
<1>7. ASSUME NEW w \in Workers,
             \/ \E dream \in BOOLEAN : Dispatch(w, dream)
             \/ \E recorded \in BOOLEAN : Reap(w, recorded)
             \/ Target(w) \/ ProcessTarget(w) \/ Begin(w)
             \/ \E through \in 1..MaxHead : Select(w, through)
             \/ \E n \in 1..MaxCharges : Reserve(w, n)
             \/ \E code \in Codes : Reject(w, code)
             \/ RecordFailure(w) \/ GenerationFailure(w) \/ Publish(w)
             \/ Refused(w) \/ HeadConflict(w) \/ Crash(w)
      PROVE  UNCHANGED <<term, reader>>
    BY <1>7 DEF Dispatch, Reap, Target, ProcessTarget, Begin, Select, Reserve, Reject,
                RecordFailure, GenerationFailure, Publish, Refused, HeadConflict, Crash
<1> QED
    BY <1>0, <1>1, <1>2, <1>3, <1>4, <1>5, <1>6, <1>7 DEF Next

\* Types, requests and placement are preserved together.
LEMMA BaseStep ==
    ASSUME TypeOK, JournalInv, WorkersPlaced, IsFiniteSet(blocks), [Next]_vars
    PROVE  TypeOK' /\ JournalInv' /\ WorkersPlaced' /\ IsFiniteSet(blocks')
<1>1. JournalTypes' /\ JournalInv' /\ intent'.requested >= intent.requested
    BY JournalStep DEF JournalNext
<1>2. intent'.requested \in Nat
    BY <1>1, RowFacts DEF JournalTypes
<1>3. term' \in Nat /\ term' >= term /\ reader' \in [attempt : Nat, lockedLease : BOOLEAN]
    BY TermAndReader
<1>4. worker' \in [Workers -> WorkerRows] /\ WorkersPlaced'
    BY <1>1, <1>2, <1>3, WorkersStep
<1>5. /\ budget' \in [Frontiers -> BudgetRows]
      /\ blocks' \subseteq BlockRows /\ IsFiniteSet(blocks')
      /\ spent' \in Nat
    BY FrontierTypes
<1>6. TypeOK'
    BY <1>1, <1>3, <1>4, <1>5 DEF TypeOK, JournalTypes
<1> QED
    BY <1>1, <1>4, <1>5, <1>6

--------------------------------------------------------------------------------
(* The frontier: one allowance, one attempt, one block.                    *)

\* What holds of the frontier, besides the charges.
FrontierInv ==
    /\ OneWorkerPerTerm /\ BudgetAtCursor /\ BlocksKeyed /\ BlocksStayRetryable
    /\ AttemptHeld /\ ReaderInspected

\* Types, requests and placement.
BaseInv == TypeOK /\ JournalInv /\ WorkersPlaced /\ IsFiniteSet(blocks)

\* The window of the worker that publishes lies behind the cursor.
LEMMA PublishFacts ==
    ASSUME BaseInv, NEW w \in Workers, Publish(w)
    PROVE  /\ worker[w].phase = "running" /\ Fenced(w) /\ CursorUnmoved(w)
           /\ cursor'.at \in Frontiers /\ cursor'.at # cursor.at
           /\ budget' = [budget EXCEPT ![cursor.at] = NoBudget]
           /\ UNCHANGED <<term, head, blocks, reader>> /\ spent' = 0
<1>1. /\ worker[w].phase = "running" /\ Fenced(w) /\ CursorUnmoved(w)
      /\ cursor' = [at |-> worker[w].through, gen |-> cursor.gen + 1]
      /\ target = worker[w].target
      /\ budget' = [budget EXCEPT ![cursor.at] = NoBudget]
      /\ UNCHANGED <<term, head, blocks, reader>> /\ spent' = 0
    BY DEF Publish
<1>2. worker[w].through \in Frontiers /\ cursor.at < worker[w].through
    BY <1>1, WindowEnds DEF BaseInv
<1>3. cursor.at \in Nat /\ worker[w].through \in Nat
    BY TopicTypes DEF BaseInv
<1>4. cursor.at # worker[w].through
    BY <1>2, <1>3
<1> QED
    BY <1>1, <1>2, <1>4

\* The frontier's row after each kind of step.
LEMMA RowAfter ==
    ASSUME BaseInv, BudgetAtCursor, [Next]_vars
    PROVE  /\ Quiet \/ Observes => Row' = Row
           /\ (\E b \in blocks : Retry(b)) => Row' = NoBudget
           /\ \A w \in Workers : Started(w) => Row' = Charged(w)
           /\ \A w \in Workers : \A row, n : Rewritten(w, row, n) => Row' = row
           /\ (\E w \in Workers : Publish(w)) => Row' = NoBudget
<1>t. budget \in [Frontiers -> BudgetRows] /\ cursor.at \in Frontiers
    BY TopicTypes DEF BaseInv, TypeOK
<1>1. Quiet \/ Observes => Row' = Row
    BY DEF Quiet, Observes, Row
<1>2. ASSUME NEW b \in blocks, Retry(b) PROVE Row' = NoBudget
    BY <1>t, <1>2 DEF Retry, Row, journal
<1>3. ASSUME NEW w \in Workers, Started(w) PROVE Row' = Charged(w)
    BY <1>t, <1>3 DEF Started, Row, journal
<1>4. ASSUME NEW w \in Workers, NEW row, NEW n, Rewritten(w, row, n) PROVE Row' = row
    BY <1>t, <1>4 DEF Rewritten, Row
<1>5. ASSUME NEW w \in Workers, Publish(w) PROVE Row' = NoBudget
    BY <1>t, <1>5, PublishFacts DEF Row, BudgetAtCursor
<1> QED
    BY <1>1, <1>2, <1>3, <1>4, <1>5

\* publish() takes the allowance with it, so that the next position starts
\* with none.
LEMMA BudgetStep ==
    ASSUME BaseInv, BudgetAtCursor, [Next]_vars
    PROVE  BudgetAtCursor'
<1>t. budget \in [Frontiers -> BudgetRows] /\ cursor.at \in Frontiers
    BY TopicTypes DEF BaseInv, TypeOK
<1>1. CASE Quiet \/ Observes
    BY <1>1 DEF Quiet, Observes, BudgetAtCursor, Frontiers
<1>g. ASSUME NEW row, budget' = [budget EXCEPT ![cursor.at] = row], UNCHANGED cursor
      PROVE  BudgetAtCursor'
    BY <1>t, <1>g DEF BudgetAtCursor, Frontiers
<1>2. ASSUME NEW b \in blocks, Retry(b) PROVE BudgetAtCursor'
    BY <1>g, <1>2 DEF Retry, journal
<1>3. ASSUME NEW w \in Workers, Started(w) PROVE BudgetAtCursor'
    BY <1>g, <1>3 DEF Started, journal
<1>4. ASSUME NEW w \in Workers, Rewrites(w) PROVE BudgetAtCursor'
    BY <1>g, <1>4 DEF Rewrites, Rewritten
<1>5. ASSUME NEW w \in Workers, Publish(w) PROVE BudgetAtCursor'
    BY <1>t, <1>5, PublishFacts DEF BudgetAtCursor, Frontiers
<1>6. TypeOK
    BY DEF BaseInv
<1> QED
    BY <1>1, <1>2, <1>3, <1>4, <1>5, <1>6, FrontierKinds

\* A block per attempt: the second observer finds the first one's.
LEMMA KeysStep ==
    ASSUME BaseInv, BlocksKeyed, [Next]_vars
    PROVE  BlocksKeyed'
<1>f. IsFiniteSet(blocks')
    BY BaseStep DEF BaseInv
<1>0. CASE UNCHANGED blocks
    BY <1>0 DEF BlocksKeyed
<1>1. CASE Observes
    <2>1. CASE BlocksObserved = blocks
        BY <1>0, <1>1, <2>1 DEF Observes
    <2>2. ASSUME NEW new, BlocksObserved = blocks \cup {new}, ~ Blocked,
                 new.after = cursor.at, new.attempt = Row.attempt, new.attempt > 0
          PROVE  BlocksKeyed'
        <3>1. blocks' = blocks \cup {new}
            BY <1>1, <2>2 DEF Observes
        <3>2. \A b \in blocks : ~ (b.after = new.after /\ b.attempt = new.attempt)
            BY <2>2 DEF Blocked
        <3> QED
            BY <1>f, <2>2, <3>1, <3>2 DEF BlocksKeyed
    <2> QED
        BY <2>1, <2>2, ObservedFacts DEF BaseInv, JournalInv
<1>2. ASSUME NEW b \in blocks, Retry(b) PROVE BlocksKeyed'
    <2>1. PICK new \in BlockRows :
              /\ blocks' = (blocks \ {b}) \cup {new}
              /\ new.after = b.after /\ new.attempt = b.attempt
        BY <1>2, RetryFacts DEF BaseInv
    <2>2. \A c \in blocks \ {b} : ~ (c.after = new.after /\ c.attempt = new.attempt)
        BY <2>1 DEF BlocksKeyed
    <2>3. \A c, d \in blocks' : c.after = d.after /\ c.attempt = d.attempt => c = d
        BY <2>1, <2>2 DEF BlocksKeyed
    <2>4. \A c \in blocks' : c.attempt > 0
        BY <2>1 DEF BlocksKeyed
    <2> QED
        BY <1>f, <2>3, <2>4 DEF BlocksKeyed
<1>3. ASSUME NEW w \in Workers, Started(w) \/ Rewrites(w) \/ Publish(w)
      PROVE  UNCHANGED blocks
    BY <1>3 DEF Started, Rewrites, Rewritten, Publish
<1>4. Quiet => UNCHANGED blocks
    BY DEF Quiet
<1>5. TypeOK
    BY DEF BaseInv
<1> QED
    BY <1>0, <1>1, <1>2, <1>3, <1>4, <1>5, FrontierKinds

\* A block that stands says that the frontier is spent.
LEMMA OpenBlockIsSpent ==
    ASSUME TypeOK, BlocksKeyed, BlocksStayRetryable, NEW b \in blocks, b.retry = 0
    PROVE  Spent /\ Reason(Row) = b.code /\ Row.attempt = b.attempt
<1>1. Retryable(b) /\ b.attempt > 0 /\ b.code \in Reasons
    BY TopicTypes DEF BlocksStayRetryable, BlocksKeyed
<1>2. b.code # ""
    BY <1>1 DEF Reasons, Codes, Recorded, Recoverable, Ceilings
<1> QED
    BY <1>1, <1>2 DEF Retryable, Spent

\* A block stays true of its frontier until it is retried.
LEMMA RetryableStep ==
    ASSUME BaseInv, FrontierInv, [Next]_vars
    PROVE  BlocksStayRetryable'
<1> USE DEF FrontierInv
<1>t. TypeOK /\ head \in Nat /\ cursor.at \in Nat
    BY TopicTypes DEF BaseInv
<1>g. ASSUME UNCHANGED cursor, Row'.attempt = Row.attempt,
             head' \in Nat, head' >= head,
             NEW b, Retryable(b), Reason(Row') = Reason(Row)
      PROVE  Retryable(b)'
    <2>1. cursor'.at < head'
        BY <1>t, <1>g DEF Retryable
    <2> QED
        BY <1>g, <2>1 DEF Retryable, Reason
<1>1. CASE Quiet
    <2>1. Row' = Row /\ UNCHANGED <<cursor, blocks>> /\ head' \in Nat /\ head' >= head
        BY <1>1, RowAfter DEF Quiet
    <2>2. \A b \in blocks : Retryable(b) => Retryable(b)'
        BY <1>g, <2>1
    <2> QED
        BY <2>1, <2>2 DEF BlocksStayRetryable
<1>2. CASE Observes
    <2>1. Row' = Row /\ UNCHANGED <<cursor, head>> /\ blocks' = BlocksObserved
        BY <1>2, RowAfter DEF Observes
    <2>2. \A b : Retryable(b) => Retryable(b)'
        BY <1>t, <1>g, <2>1
    <2>3. ASSUME NEW new, BlocksObserved = blocks \cup {new},
                 new.after = cursor.at, new.attempt = Row.attempt,
                 new.code = Reason(Row), cursor.at < head
          PROVE  BlocksStayRetryable'
        <3>1. Retryable(new)
            BY <2>3 DEF Retryable
        <3> QED
            BY <2>1, <2>2, <2>3, <3>1 DEF BlocksStayRetryable
    <2>4. CASE BlocksObserved = blocks
        BY <2>1, <2>2, <2>4 DEF BlocksStayRetryable
    <2> QED
        BY <2>3, <2>4, ObservedFacts DEF BaseInv, JournalInv
<1>3. ASSUME NEW b \in blocks, Retry(b) PROVE BlocksStayRetryable'
    <2>1. PICK new \in BlockRows :
              /\ blocks' = (blocks \ {b}) \cup {new} /\ new.retry > 0
              /\ b.retry = 0 /\ Retryable(b)
        BY <1>3, RetryFacts DEF BaseInv
    <2>2. ASSUME NEW c \in blocks, c.retry = 0 PROVE c = b
        BY <2>1, <2>2 DEF BlocksStayRetryable, BlocksKeyed, Retryable
    <2>3. \A c \in blocks' : c.retry # 0
        BY <2>1, <2>2
    <2> QED
        BY <2>3 DEF BlocksStayRetryable
<1>n. ASSUME \A b \in blocks : b.retry # 0, UNCHANGED blocks
      PROVE  BlocksStayRetryable'
    BY <1>n DEF BlocksStayRetryable
<1>4. ASSUME NEW w \in Workers, Started(w) PROVE BlocksStayRetryable'
    <2>1. ~ Spent /\ UNCHANGED blocks
        BY <1>4 DEF Started
    <2>2. \A b \in blocks : b.retry # 0
        BY <1>t, <2>1, OpenBlockIsSpent
    <2> QED
        BY <1>n, <2>1, <2>2
<1>5. ASSUME NEW w \in Workers, Rewrites(w) PROVE BlocksStayRetryable'
    <2>1. PICK row \in BudgetRows, n \in Nat : Rewritten(w, row, n)
        BY <1>5 DEF Rewrites
    <2>2. Row' = row /\ UNCHANGED <<cursor, head, blocks>> /\ row.attempt = Row.attempt
        BY <2>1, RowAfter DEF Rewritten
    <2>3. CASE worker[w].phase \in {"running", "failing"} /\ CursorUnmoved(w)
        BY <1>n, <2>1, <2>2, <2>3 DEF AttemptHeld, Rewritten
    <2>4. CASE Reason(Row) # "" => Reason(row) = Reason(Row)
        <3>1. ASSUME NEW b \in blocks, b.retry = 0 PROVE Retryable(b)'
            <4>1. Spent /\ Retryable(b)
                BY <1>t, <3>1, OpenBlockIsSpent DEF BlocksStayRetryable
            <4>2. Reason(Row') = Reason(Row)
                BY <2>2, <2>4, <4>1 DEF Spent
            <4> QED
                BY <1>g, <1>t, <2>2, <4>1, <4>2
        <3> QED
            BY <2>2, <3>1 DEF BlocksStayRetryable
    <2> QED
        BY <2>1, <2>3, <2>4 DEF Rewritten
<1>6. ASSUME NEW w \in Workers, Publish(w) PROVE BlocksStayRetryable'
    <2>1. /\ worker[w].phase = "running" /\ Fenced(w) /\ CursorUnmoved(w)
          /\ UNCHANGED blocks
        BY <1>6, PublishFacts
    <2> QED
        BY <1>n, <2>1 DEF AttemptHeld
<1> QED
    BY <1>t, <1>1, <1>2, <1>3, <1>4, <1>5, <1>6, FrontierKinds

\* A worker is at an attempt of the running term and of the cursor's position.
AtAttempt(v) ==
    worker[v].phase \in {"running", "failing"} /\ Fenced(v) /\ CursorUnmoved(v)

\* A worker that is at an attempt after the step has just begun it, or was at it
\* before: no other step makes an old worker's attempt a current one.
LEMMA AtAttemptBefore ==
    ASSUME BaseInv, FrontierInv, [Next]_vars, NEW v \in Workers, AtAttempt(v)'
    PROVE  /\ term' = term
           /\ \/ Started(v)
              \/ /\ worker[v].phase \in {"running", "failing"} /\ Fenced(v)
                 /\ worker'[v].attempt = worker[v].attempt
                 /\ UNCHANGED cursor => CursorUnmoved(v)
<1>t. /\ TypeOK /\ WorkersPlaced /\ IsFiniteSet(blocks) /\ OneWorkerPerTerm
      /\ worker \in [Workers -> WorkerRows]
    BY DEF BaseInv, FrontierInv, TypeOK
<1>n. /\ term \in Nat /\ worker[v].term \in Nat
    BY <1>t, TopicTypes
<1>a. /\ worker'[v].phase \in {"running", "failing"} /\ worker'[v].term = term'
      /\ cursor' = [at |-> worker'[v].after, gen |-> worker'[v].gen]
    BY DEF AtAttempt, Fenced, CursorUnmoved
<1>1. term' = term
    <2>1. CASE EndTerm
        <3>1. UNCHANGED worker /\ term' = term + 1
            BY <2>1 DEF EndTerm
        <3>2. worker[v].term <= term
            BY <1>t, <1>a, <3>1 DEF WorkersPlaced
        <3> QED
            BY <1>n, <1>a, <3>1, <3>2
    <2> QED
        BY <1>t, <2>1, TermAndReader
<1>2. CASE UNCHANGED worker
    BY <1>1, <1>2, <1>a DEF Fenced, CursorUnmoved
<1>3. ASSUME NEW w \in Workers, NEW dream \in BOOLEAN, Dispatch(w, dream)
      PROVE  UNCHANGED worker \/ worker'[v] = worker[v]
    <2>1. PICK row \in WorkerRows :
              worker' = [worker EXCEPT ![w] = row] /\ row.phase = "assigned"
        BY <1>t, <1>3, DispatchRow
    <2>2. v # w
        BY <1>t, <1>a, <2>1
    <2> QED
        BY <1>t, <2>1, <2>2
<1>4. ASSUME NEW w \in Workers, Started(w) PROVE v = w \/ worker'[v] = worker[v]
    BY <1>t, <1>4, StartedRow
<1>5. ASSUME NEW w \in Workers, NEW row, Moved(w, row)
      PROVE  /\ worker[v].phase \in {"running", "failing"} /\ Fenced(v)
             /\ worker'[v].attempt = worker[v].attempt
             /\ UNCHANGED cursor => CursorUnmoved(v)
    <2>1. CASE v = w
        <3>1. worker'[v] = row
            BY <1>t, <1>5, <2>1 DEF Moved
        <3> QED
            BY <1>1, <1>5, <1>a, <2>1, <3>1 DEF Moved, Fenced, CursorUnmoved
    <2>2. CASE v # w
        <3>1. worker'[v] = worker[v]
            BY <1>t, <1>5, <2>2 DEF Moved
        <3> QED
            BY <1>1, <1>a, <3>1 DEF Fenced, CursorUnmoved
    <2> QED
        BY <2>1, <2>2
<1>6. ASSUME worker'[v] = worker[v]
      PROVE  /\ worker[v].phase \in {"running", "failing"} /\ Fenced(v)
             /\ worker'[v].attempt = worker[v].attempt
             /\ UNCHANGED cursor => CursorUnmoved(v)
    BY <1>1, <1>6, <1>a DEF Fenced, CursorUnmoved
<1> QED
    BY <1>t, <1>1, <1>2, <1>3, <1>4, <1>5, <1>6, WorkerKinds

\* No one observes a block while a worker is at the attempt: the slot is taken,
\* the worker itself has not failed, and the reader finds the lease alive.
LEMMA ObserverWaits ==
    ASSUME BaseInv, FrontierInv, NEW v \in Workers, AtAttempt(v)
    PROVE  ~ Observes
<1> USE DEF FrontierInv
<1>1. /\ worker[v].phase \in {"running", "failing"} /\ worker[v].term = term
      /\ ~ Row.finished /\ Row.term = term
    BY DEF AtAttempt, AttemptHeld, Fenced
<1>2. ~ SlotFree
    BY <1>1 DEF SlotFree
<1>3. ASSUME NEW w \in Workers, worker[w].phase = "failed", Fenced(w) PROVE FALSE
    BY <1>1, <1>3 DEF OneWorkerPerTerm, Fenced
<1>4. ~ (reader # NoReader /\ MayObserve)
    BY <1>1 DEF MayObserve, ReaderInspected
<1> QED
    BY <1>2, <1>3, <1>4 DEF Observes

\* The worker of the running term keeps the frontier's attempt to itself.
LEMMA AttemptStep ==
    ASSUME BaseInv, FrontierInv, [Next]_vars
    PROVE  AttemptHeld'
<1> USE DEF FrontierInv
<1>t. TypeOK /\ IsFiniteSet(blocks) /\ OneWorkerPerTerm
    BY DEF BaseInv
<1>1. SUFFICES ASSUME NEW v \in Workers, AtAttempt(v)'
               PROVE  /\ worker'[v].attempt > 0 /\ Row'.attempt = worker'[v].attempt
                      /\ ~ Row'.finished /\ Row'.term = term'
                      /\ \A b \in blocks' : b.retry # 0
    BY DEF AttemptHeld, AtAttempt, Current
<1>2. term' = term
    BY <1>1, AtAttemptBefore
<1>3. CASE Started(v)
    <2>1. Row' = Charged(v) /\ UNCHANGED blocks /\ ~ Spent /\ worker[v].term = term
        BY <1>3, RowAfter DEF Started, Fenced
    <2>2. PICK row \in WorkerRows :
              worker' = [worker EXCEPT ![v] = row] /\ row.attempt = FreshAttempt
        BY <1>t, <1>3, StartedRow
    <2>3. worker'[v].attempt = FreshAttempt
        BY <1>t, <2>2 DEF TypeOK
    <2>4. FreshAttempt > 0
        BY <1>t, FreshFacts
    <2>5. \A b \in blocks : b.retry # 0
        BY <1>t, <2>1, OpenBlockIsSpent
    <2> QED
        BY <1>2, <1>t, <2>1, <2>3, <2>4, <2>5, ChargedRow
<1>4. CASE /\ worker[v].phase \in {"running", "failing"} /\ Fenced(v)
           /\ worker'[v].attempt = worker[v].attempt
           /\ UNCHANGED cursor => CursorUnmoved(v)
           /\ ~ Started(v)
    <2>o. ASSUME NEW w \in Workers, worker[w].phase # "idle", Fenced(w) PROVE w = v
        BY <1>4, <1>t, <2>o DEF OneWorkerPerTerm, Fenced
    <2>p. ASSUME NEW w \in Workers, Publish(w) PROVE FALSE
        <3>1. w = v
            BY <2>o, <2>p DEF Publish
        <3>2. /\ worker[v].phase = "running" /\ CursorUnmoved(v) /\ TypeOK
              /\ cursor' = [at |-> worker[v].through, gen |-> cursor.gen + 1]
            BY <2>p, <3>1, <1>t DEF Publish
        <3>3. \/ worker' = [worker EXCEPT ![v] = Claim(v, "target", worker[v].round, target)]
              \/ NextRound(v)
            BY <2>p, <3>1 DEF Publish
        <3>r. /\ Claim(v, "target", worker[v].round, target).phase = "target"
              /\ Claim(v, "assigned", 1, NoTarget).phase = "assigned"
              /\ Dead(v).phase = "dead" /\ Idle.phase = "idle"
            BY DEF Claim, Dead, Idle
        <3>w. worker \in [Workers -> WorkerRows]
            BY <1>t DEF TypeOK
        <3>4. worker'[v].phase \notin {"running", "failing"}
            <4>1. CASE NextRound(v)
                BY <3>r, <3>w, <4>1 DEF NextRound
            <4> QED
                BY <3>3, <3>r, <3>w, <4>1
        <3> QED
            BY <1>1, <3>4 DEF AtAttempt
    <2>q. ASSUME NEW w \in Workers, Started(w) PROVE FALSE
        BY <1>4, <2>o, <2>q DEF Started
    <2>h. ASSUME UNCHANGED cursor
          PROVE  /\ AtAttempt(v) /\ worker[v].attempt > 0 /\ Row.attempt = worker[v].attempt
                 /\ ~ Row.finished /\ Row.term = term
                 /\ \A b \in blocks : b.retry # 0
        BY <1>4, <2>h DEF AttemptHeld, AtAttempt, Current
    <2>1. CASE Quiet
        <3>1. Row' = Row /\ UNCHANGED <<cursor, blocks>>
            BY <2>1, RowAfter DEF Quiet
        <3> QED
            BY <1>2, <1>4, <2>h, <3>1
    <2>2. CASE Observes
        <3>1. UNCHANGED cursor
            BY <2>2 DEF Observes
        <3> QED
            BY <2>2, <2>h, <3>1, ObserverWaits
    <2>3. ASSUME NEW b \in blocks, Retry(b) PROVE FALSE
        <3>1. UNCHANGED cursor /\ b.retry = 0
            BY <2>3 DEF Retry, journal
        <3> QED
            BY <2>h, <3>1
    <2>4. ASSUME NEW w \in Workers, Rewrites(w)
          PROVE  /\ worker'[v].attempt > 0 /\ Row'.attempt = worker'[v].attempt
                 /\ ~ Row'.finished /\ Row'.term = term'
                 /\ \A b \in blocks' : b.retry # 0
        <3>1. PICK row \in BudgetRows, n \in Nat : Rewritten(w, row, n)
            BY <2>4 DEF Rewrites
        <3>2. /\ Row' = row /\ UNCHANGED <<cursor, blocks>>
              /\ row.attempt = Row.attempt /\ row.term = Row.term
              /\ \/ row.finished = Row.finished
                 \/ worker'[w].phase \notin {"running", "failing"}
              /\ worker[w].phase # "idle" /\ Fenced(w)
            BY <3>1, RowAfter DEF Rewritten
        <3>3. w = v
            BY <2>o, <3>2
        <3>4. row.finished = Row.finished
            BY <1>1, <3>2, <3>3 DEF AtAttempt
        <3> QED
            BY <1>2, <1>4, <2>h, <3>2, <3>4
    <2> QED
        BY <1>t, <2>1, <2>2, <2>3, <2>4, <2>p, <2>q, FrontierKinds
<1> QED
    BY <1>1, <1>3, <1>4, AtAttemptBefore

\* A reader that found an attempt open has inspected the lease it runs under,
\* as long as that attempt is the frontier's.
LEMMA ReaderStep ==
    ASSUME BaseInv, FrontierInv, [Next]_vars
    PROVE  ReaderInspected'
<1> USE DEF FrontierInv
<1>t. TypeOK /\ IsFiniteSet(blocks)
    BY DEF BaseInv
<1>1. CASE reader' = NoReader
    BY <1>1 DEF ReaderInspected
<1>2. CASE ReadStatus
    <2>1. /\ reader' = [attempt |-> Row.attempt, lockedLease |-> ~ Row.finished]
          /\ Row.attempt > 0 /\ UNCHANGED <<budget, cursor>>
        BY <1>2 DEF ReadStatus, Spent, journal
    <2> QED
        BY <2>1 DEF ReaderInspected, Row
<1>3. CASE UNCHANGED reader /\ reader # NoReader
    <2>r. reader.attempt > 0 /\ reader.attempt \in Nat
        BY <1>3, <1>t, TopicTypes DEF ReaderInspected
    <2>g. ASSUME Row'.attempt = reader.attempt /\ ~ Row'.finished =>
                     Row.attempt = reader.attempt /\ ~ Row.finished
          PROVE  ReaderInspected'
        BY <1>3, <2>g, <2>r DEF ReaderInspected
    <2>n. ASSUME Row' = NoBudget PROVE ReaderInspected'
        <3>1. Row'.attempt # reader.attempt
            BY <2>n, <2>r, EmptyRows
        <3> QED
            BY <2>g, <3>1
    <2>1. CASE Quiet \/ Observes
        BY <2>1, <2>g, RowAfter
    <2>2. ASSUME NEW b \in blocks, Retry(b) PROVE ReaderInspected'
        BY <2>2, <2>n, RowAfter
    <2>3. ASSUME NEW w \in Workers, Started(w) PROVE ReaderInspected'
        <3>1. Row'.attempt = FreshAttempt
            BY <1>t, <2>3, RowAfter, ChargedRow
        <3>2. FreshAttempt # reader.attempt
            BY <1>t, FreshFacts
        <3> QED
            BY <2>g, <3>1, <3>2
    <2>4. ASSUME NEW w \in Workers, Rewrites(w) PROVE ReaderInspected'
        <3>1. PICK row \in BudgetRows, n \in Nat : Rewritten(w, row, n)
            BY <2>4 DEF Rewrites
        <3>2. /\ Row' = row /\ row.attempt = Row.attempt
              /\ row.finished = Row.finished \/ row.finished
            BY <3>1, RowAfter DEF Rewritten
        <3> QED
            BY <2>g, <3>2
    <2>5. ASSUME NEW w \in Workers, Publish(w) PROVE ReaderInspected'
        BY <2>5, <2>n, RowAfter
    <2> QED
        BY <1>t, <2>1, <2>2, <2>3, <2>4, <2>5, FrontierKinds
<1> QED
    BY <1>t, <1>1, <1>2, <1>3, TermAndReader

\* The frontier's invariant is preserved.
LEMMA FrontierStep ==
    ASSUME BaseInv, FrontierInv, [Next]_vars
    PROVE  FrontierInv'
<1>1. /\ TypeOK /\ WorkersPlaced /\ IsFiniteSet(blocks) /\ OneWorkerPerTerm
      /\ BudgetAtCursor /\ BlocksKeyed
    BY DEF BaseInv, FrontierInv
<1>2. term' = term \/ (term' = term + 1 /\ UNCHANGED worker)
    BY <1>1, TermAndReader DEF EndTerm
<1>3. OneWorkerPerTerm'
    BY <1>1, <1>2, OneWorkerStep
<1> QED
    BY <1>1, <1>3, BudgetStep, KeysStep, RetryableStep, AttemptStep, ReaderStep
       DEF FrontierInv

--------------------------------------------------------------------------------
(* The charges.                                                            *)

\* Blocks of the position that were retried are a finite number.
LEMMA RetriedFinite ==
    ASSUME TypeOK, IsFiniteSet(blocks)
    PROVE  /\ IsFiniteSet(Retried) /\ Cardinality(Retried) \in Nat
           /\ MaxCharges * Cardinality(Retried) \in Nat
<1>1. Retried \subseteq blocks
    BY DEF Retried
<1>2. IsFiniteSet(Retried)
    BY <1>1, FS_Subset
<1>3. Cardinality(Retried) \in Nat /\ MaxCharges \in Nat
    BY <1>2, FS_CardinalityType, LimitFacts
<1>4. MaxCharges * Cardinality(Retried) \in Nat
    BY <1>3
<1> QED
    BY <1>2, <1>3, <1>4

\* The allowance in use is never passed, and only a retry grants a new one.
LEMMA ChargesStep ==
    ASSUME BaseInv, FrontierInv, ChargesCounted, [Next]_vars
    PROVE  ChargesCounted'
<1>t. TypeOK /\ IsFiniteSet(blocks) /\ BudgetAtCursor /\ BlocksKeyed
    BY DEF BaseInv, FrontierInv
<1>n. /\ Row.charges \in Nat /\ spent \in Nat /\ MaxCharges \in Nat
      /\ MaxCharges * Cardinality(Retried) \in Nat /\ Cardinality(Retried) \in Nat
    BY <1>t, TopicTypes, RetriedFinite, LimitFacts DEF Row
<1>c. /\ Row.charges <= MaxCharges
      /\ spent <= Row.charges + MaxCharges * Cardinality(Retried)
    BY DEF ChargesCounted
<1>0. CASE Row'.charges = Row.charges /\ UNCHANGED spent /\ Retried' = Retried
    BY <1>0, <1>c DEF ChargesCounted
<1>s. ASSUME UNCHANGED <<cursor, blocks>> PROVE Retried' = Retried
    BY <1>s DEF Retried
<1>1. CASE Quiet
    BY <1>0, <1>1, <1>s, <1>t, RowAfter DEF Quiet
<1>2. CASE Observes
    <2>1. Row' = Row /\ UNCHANGED <<cursor, spent>> /\ blocks' = BlocksObserved
        BY <1>2, <1>t, RowAfter DEF Observes
    <2>2. ASSUME NEW new, BlocksObserved = blocks \cup {new}, new.retry = 0
          PROVE  Retried' = Retried
        <3>1. ~ (new.retry > 0)
            BY <2>2
        <3> QED
            BY <2>1, <2>2, <3>1 DEF Retried
    <2>3. ASSUME BlocksObserved = blocks PROVE Retried' = Retried
        BY <1>s, <2>1, <2>3
    <2>4. Retried' = Retried
        BY <2>2, <2>3, ObservedFacts DEF BaseInv, JournalInv
    <2> QED
        BY <1>0, <2>1, <2>4
<1>3. ASSUME NEW b \in blocks, Retry(b) PROVE ChargesCounted'
    <2>1. PICK new \in BlockRows :
              /\ blocks' = (blocks \ {b}) \cup {new}
              /\ new.after = b.after /\ new.attempt = b.attempt /\ new.retry > 0
              /\ b.retry = 0 /\ b.after = cursor.at
              /\ UNCHANGED <<cursor, spent>>
        BY <1>3, RetryFacts DEF BaseInv
    <2>2. b \notin Retried /\ ~ (b.retry > 0) /\ b # new
        BY <2>1 DEF Retried
    <2>3. Retried' = Retried \cup {new}
        BY <2>1, <2>2 DEF Retried
    <2>4. new \notin Retried
        BY <2>1, <2>2, <1>t DEF Retried, BlocksKeyed
    <2>5. Cardinality(Retried') = Cardinality(Retried) + 1
        BY <1>t, <2>3, <2>4, RetriedFinite, FS_AddElement
    <2>6. Row'.charges = 0
        BY <1>3, <1>t, RowAfter, EmptyRows
    <2> DEFINE k == Cardinality(Retried)
    <2>7. k \in Nat
        BY <1>n
    <2> HIDE DEF k
    <2>8. MaxCharges * (k + 1) = MaxCharges * k + MaxCharges
        BY <1>n, <2>7
    <2>9. Cardinality(Retried') = k + 1 /\ spent <= Row.charges + MaxCharges * k
        BY <2>5, <1>c DEF k
    <2>10. MaxCharges * k \in Nat
        BY <1>n, <2>7
    <2>11. spent <= 0 + MaxCharges * (k + 1)
        BY <1>n, <1>c, <2>8, <2>9, <2>10
    <2> QED
        BY <1>n, <2>1, <2>6, <2>9, <2>11 DEF ChargesCounted
<1>4. ASSUME NEW w \in Workers, Started(w) PROVE ChargesCounted'
    <2>1. Row'.charges = Row.charges /\ UNCHANGED <<cursor, blocks, spent>>
        BY <1>4, <1>t, RowAfter, ChargedRow DEF Started, journal, history
    <2> QED
        BY <1>0, <1>s, <2>1
<1>5. ASSUME NEW w \in Workers, Rewrites(w) PROVE ChargesCounted'
    <2>1. PICK row \in BudgetRows, n \in Nat : Rewritten(w, row, n)
        BY <1>5 DEF Rewrites
    <2>2. /\ Row'.charges = Row.charges + n /\ spent' = spent + n
          /\ n > 0 => Row'.charges <= MaxCharges
          /\ UNCHANGED <<cursor, blocks>>
        BY <1>t, <2>1, RowAfter DEF Rewritten
    <2>3. Retried' = Retried
        BY <1>s, <2>2
    <2>4. /\ Row'.charges <= MaxCharges
          /\ spent' <= Row'.charges + MaxCharges * Cardinality(Retried)
        BY <1>n, <1>c, <2>2
    <2> QED
        BY <2>3, <2>4 DEF ChargesCounted
<1>6. ASSUME NEW w \in Workers, Publish(w) PROVE ChargesCounted'
    <2>1. Row'.charges = 0 /\ spent' = 0
        BY <1>6, <1>t, RowAfter, EmptyRows, PublishFacts
    <2>2. MaxCharges * Cardinality(Retried') \in Nat
        <3>1. TypeOK' /\ IsFiniteSet(blocks')
            BY BaseStep DEF BaseInv
        <3>2. Retried' \subseteq blocks'
            BY DEF Retried
        <3>3. IsFiniteSet(Retried')
            BY <3>1, <3>2, FS_Subset
        <3>4. Cardinality(Retried') \in Nat
            BY <3>3, FS_CardinalityType
        <3> QED
            BY <1>n, <3>4
    <2>3. 0 <= 0 + MaxCharges * Cardinality(Retried')
        BY <2>2
    <2> QED
        BY <1>n, <2>1, <2>3 DEF ChargesCounted
<1> QED
    BY <1>t, <1>1, <1>2, <1>3, <1>4, <1>5, <1>6, FrontierKinds

--------------------------------------------------------------------------------
(* The theorems.                                                           *)

\* The inductive invariant by its parts.
LEMMA TopicParts ==
    TopicInv <=> BaseInv /\ FrontierInv /\ ChargesCounted
BY DEF TopicInv, BaseInv, JournalInv, FrontierInv, BlocksKeyed

\* A scope starts with nothing of all this.
LEMMA InitTopic ==
    Init => TopicInv
<1> SUFFICES ASSUME Init PROVE TopicInv
    OBVIOUS
<1> USE DEF Init
<1>l. MaxHead \in Nat /\ 0 \in Frontiers /\ MaxCharges \in Nat
    BY LimitFacts DEF Frontiers
<1>e. /\ NoPending \in PendingRows /\ NoTarget \in TargetRows
      /\ NoBudget \in BudgetRows /\ Idle \in WorkerRows
      /\ Idle.phase = "idle" /\ Idle.claimed = 0
      /\ NoBudget.charges = 0 /\ NoBudget.attempt = 0
      /\ NoTarget.gen = 0 /\ NoTarget.through = 0 /\ NoPending.through = 0
    BY EmptyRows
<1>1. TypeOK
    BY <1>l, <1>e, AbsentFacts DEF TypeOK, NoReader
<1>a. Absent.requested = 0 /\ Absent.handled = 0
    BY DEF Absent
<1>2. JournalInv
    BY <1>l, <1>e, <1>a DEF JournalInv, RequestsAsked, TargetCovers, RequestsCovered,
                            UnreadIsRemembered
<1>3. WorkersPlaced
    BY <1>l, <1>e, <1>a DEF WorkersPlaced
<1>4. IsFiniteSet(blocks)
    BY FS_EmptySet
<1>5. FrontierInv
    <2>1. OneWorkerPerTerm /\ BudgetAtCursor /\ AttemptHeld
        BY <1>e DEF OneWorkerPerTerm, BudgetAtCursor, AttemptHeld
    <2>2. BlocksKeyed /\ BlocksStayRetryable /\ ReaderInspected
        BY <1>4 DEF BlocksKeyed, BlocksStayRetryable, ReaderInspected
    <2> QED
        BY <2>1, <2>2 DEF FrontierInv
<1>6. ChargesCounted
    <2>1. Row.charges = 0
        BY <1>l, <1>e DEF Row
    <2>2. MaxCharges * Cardinality(Retried) \in Nat
        BY <1>1, <1>4, RetriedFinite
    <2>3. 0 <= 0 + MaxCharges * Cardinality(Retried) /\ 0 <= MaxCharges
        BY <1>l, <2>2
    <2> QED
        BY <2>1, <2>3 DEF ChargesCounted
<1> QED
    BY <1>1, <1>2, <1>3, <1>4, <1>5, <1>6, TopicParts DEF BaseInv

\* Every step of a caller, the supervisor or a worker keeps it.
LEMMA NextTopic ==
    TopicInv /\ [Next]_vars => TopicInv'
<1> SUFFICES ASSUME TopicInv, [Next]_vars PROVE TopicInv'
    OBVIOUS
<1>1. BaseInv /\ FrontierInv /\ ChargesCounted
    BY TopicParts
<1>2. BaseInv'
    BY <1>1, BaseStep DEF BaseInv
<1>3. FrontierInv' /\ ChargesCounted'
    BY <1>1, FrontierStep, ChargesStep
<1>4. TopicInv' <=> (BaseInv /\ FrontierInv /\ ChargesCounted)'
    BY DEF TopicInv, BaseInv, JournalInv, FrontierInv, BlocksKeyed
<1> QED
    BY <1>2, <1>3, <1>4

\* The inductive invariant holds in every reachable state, with any number of
\* workers, terms, retries and journal rows.
THEOREM TopicInvariant == Spec => []TopicInv
BY InitTopic, NextTopic, PTL DEF Spec

\* The rows of Topic Memory processing keep their shape.
THEOREM TypeCorrect == Spec => []TypeOK
<1>1. TopicInv => TypeOK
    BY DEF TopicInv
<1> QED
    BY <1>1, TopicInvariant, PTL

\* A handled request has been read to the head it was accepted at:
\* _finish_target() acknowledges the target's request, never the newest.
THEOREM RequestsAreCovered == Spec => []RequestsCovered
<1>1. TopicInv => RequestsCovered
    BY DEF TopicInv
<1> QED
    BY <1>1, TopicInvariant, PTL

\* Unread journal rows stay dirty and pending, whatever arrives while a target
\* is frozen (the covered test and delete_if_covered() in _finish_target()).
THEOREM UnreadStaysKnown == Spec => []UnreadIsRemembered
<1>1. TopicInv => UnreadIsRemembered
    BY DEF TopicInv
<1> QED
    BY <1>1, TopicInvariant, PTL

\* The operator's retry_topic_memory_block() of a block that stands never meets
\* a conflict: no attempt passes, replaces or relabels the frontier under it.
THEOREM BlocksCanBeRetried == Spec => []BlocksStayRetryable
<1>1. TopicInv => BlocksStayRetryable
    BY DEF TopicInv
<1> QED
    BY <1>1, TopicInvariant, PTL

\* The provider is charged one allowance for a position, and one more for every
\* accepted retry, however many workers and terms reserve() for it.
THEOREM ProviderChargesBounded == Spec => []ChargesBounded
<1>1. TopicInv => ChargesBounded
    <2> SUFFICES ASSUME TopicInv PROVE ChargesBounded
        OBVIOUS
    <2>1. TypeOK /\ IsFiniteSet(blocks) /\ ChargesCounted
        BY DEF TopicInv, BlocksKeyed
    <2> DEFINE k == Cardinality(Retried)
    <2>2. /\ k \in Nat /\ Row.charges \in Nat /\ spent \in Nat /\ MaxCharges \in Nat
          /\ Row.charges <= MaxCharges /\ spent <= Row.charges + MaxCharges * k
        BY <2>1, RetriedFinite, TopicTypes, LimitFacts DEF Row, ChargesCounted
    <2>3. ChargesBounded <=> spent <= MaxCharges * (1 + k)
        BY DEF ChargesBounded, Retried
    <2> HIDE DEF k
    <2>4. MaxCharges * (1 + k) = MaxCharges + MaxCharges * k /\ MaxCharges * k \in Nat
        BY <2>2
    <2> QED
        BY <2>2, <2>3, <2>4
<1> QED
    BY <1>1, TopicInvariant, PTL
================================================================================
