------------------------ MODULE SourceIncubationProofs -------------------------
(***************************************************************************)
(* Proofs about SourceIncubation, for every set of scopes, workers and     *)
(* direct callers, every window limit, and every bound.                    *)
(***************************************************************************)
EXTENDS SourceIncubation, ProcessingIntentsProofs, SequenceTheorems, TLAPS

Working(w) == worker[w].phase = "working"

\* The cursor never passes the journal head.
CursorBehindHead == \A s \in Scopes : cursor[s].at <= head[s]

\* A frozen window is not empty and lies below the head it was read with; if
\* the cursor's generation is still the one read, so is its position.
WindowsFresh ==
    \A w \in Flushes : Working(w) =>
        LET s == worker[w].scope
        IN  /\ worker[w].after < worker[w].through
            /\ worker[w].through <= worker[w].high
            /\ worker[w].high <= head[s]
            /\ worker[w].generation <= cursor[s].gen
            /\ worker[w].generation = cursor[s].gen
                  => worker[w].after = cursor[s].at

\* A row that is not registered holds nothing.
AbsentRowsEmpty ==
    \A s \in Scopes : ~ Registered(intent[s]) => intent[s] = Absent

\* A worker's dirty snapshot is not newer than the row, and older when rows
\* were appended after it read the journal.
SnapshotsHonest ==
    \A w \in Flushes : Working(w) =>
        LET s == worker[w].scope
        IN  /\ worker[w].dirty <= intent[s].dirty
            /\ worker[w].high < head[s] => /\ worker[w].dirty < intent[s].dirty
                                           /\ s \notin legacy

\* Every accepted request has its entry, not above today's head; a claim was
\* accepted before its worker read the journal; a free slot claims nothing.
RequestsRecorded ==
    /\ \A s \in Scopes : /\ Len(asked[s]) = intent[s].requested
                         /\ \A g \in 1..Len(asked[s]) : asked[s][g] <= head[s]
    /\ \A w \in Flushes :
          LET s == worker[w].scope
          IN  /\ worker[w].phase = "idle" => worker[w].claimed = 0
              /\ worker[w].claimed <= intent[s].requested
              /\ Working(w) /\ worker[w].claimed > 0
                    => asked[s][worker[w].claimed] <= worker[w].high

--------------------------------------------------------------------------------
(* Windows, slots and acknowledgements.                                    *)

\* A window ends after its start and at or before the high watermark.
LEMMA WindowEndFacts ==
    ASSUME NEW a \in Nat, NEW h \in Nat, a < h
    PROVE  /\ WindowEnd(a, h) \in Nat
           /\ a < WindowEnd(a, h)
           /\ WindowEnd(a, h) <= h
BY BoundsAssumption DEF WindowEnd

\* A free slot is a well-formed worker record.
LEMMA IdleFacts ==
    /\ Idle \in WorkerStates
    /\ Idle.phase = "idle"
    /\ Idle.claimed = 0
<1>1. (CHOOSE s \in Scopes : TRUE) \in Scopes
    BY SetsAssumption
<1> QED
    BY <1>1 DEF Idle, WorkerStates

\* _dispatch() hands out a well-formed assignment.
LEMMA AssignmentFacts ==
    ASSUME TypeOK, NEW s \in Scopes
    PROVE  Assignment(s) \in WorkerStates
<1>1. intent[s].requested \in Nat
    BY DEF TypeOK, IntentRows
<1> QED
    BY <1>1 DEF TypeOK, Assignment, WorkerStates

\* The first transaction of flush() freezes a well-formed window.
LEMMA SnapshotFacts ==
    ASSUME TypeOK, NEW w \in Flushes, NEW s \in Scopes, head[s] > cursor[s].at
    PROVE  Snapshot(w, s) \in WorkerStates
<1>1. /\ worker[w] \in WorkerStates
      /\ cursor[s].at \in Nat /\ cursor[s].gen \in Nat
      /\ head[s] \in Nat
      /\ intent[s].dirty \in Nat
    BY BoundsAssumption DEF TypeOK, IntentRows
<1>2. WindowEnd(cursor[s].at, head[s]) \in Nat
    BY <1>1, WindowEndFacts
<1> QED
    BY <1>1, <1>2 DEF Snapshot, WorkerStates

\* complete() after guard() acknowledges exactly the claim.
LEMMA CompleteFacts ==
    ASSUME TypeOK, NEW w \in Flushes, NEW c \in Nat, NEW seen \in Nat,
           Guard(w), Complete(w, c, seen)
    PROVE  LET s == worker[w].scope
               row == Acknowledge(intent[s], worker[w].claimed, c)
           IN  /\ s \in Scopes
               /\ intent' = [intent EXCEPT ![s] = row]
               /\ saw' = [saw EXCEPT ![s] = seen]
               /\ row \in IntentRows
               /\ row.seq = intent[s].seq
               /\ row.dirty = intent[s].dirty
               /\ row.clean = IF c > intent[s].clean THEN c ELSE intent[s].clean
               /\ row.requested = intent[s].requested
               /\ row.handled = worker[w].claimed
<1> DEFINE s == worker[w].scope
<1>1. s \in Scopes /\ intent[s] \in IntentRows /\ worker[w].claimed \in Nat
    BY DEF TypeOK, WorkerStates
<1>2. /\ AcknowledgeAllowed(intent[s], worker[w].claimed, c)
      /\ intent[s].handled < worker[w].claimed
      /\ intent' = [intent EXCEPT ![s] =
                       Acknowledge(intent[s], worker[w].claimed, c)]
      /\ saw' = [saw EXCEPT ![s] = seen]
    BY DEF Guard, Complete
<1> QED
    BY <1>1, <1>2, AcknowledgeFacts

--------------------------------------------------------------------------------
(* Types.                                                                  *)

RowInv == TypeOK /\ AbsentRowsEmpty

\* The initial journals, and rows that do not exist yet.
LEMMA InitRowInv == Init => RowInv
<1> SUFFICES ASSUME Init PROVE RowInv
    OBVIOUS
<1>1. /\ term \in Nat /\ sequence \in Nat
      /\ head \in [Scopes -> 0..MaxHead]
      /\ cursor \in [Scopes -> [at : Nat, gen : Nat]]
      /\ unreconciled \subseteq Scopes /\ legacy \subseteq Scopes
      /\ emitted \in [Scopes -> [Positions -> Nat]]
      /\ saw \in [Scopes -> Nat]
    BY BoundsAssumption DEF Init
<1>2. asked \in [Scopes -> Seq(Nat)]
    BY DEF Init
<1>3. worker \in [Flushes -> WorkerStates]
    BY IdleFacts DEF Init
<1>4. intent \in [Scopes -> IntentRows] /\ AbsentRowsEmpty
    BY AbsentFacts DEF Init, AbsentRowsEmpty
<1> QED
    BY <1>1, <1>2, <1>3, <1>4 DEF RowInv, TypeOK

\* An acknowledgement keeps the table well-formed.
LEMMA RowAfterComplete ==
    ASSUME RowInv, NEW w \in Flushes, NEW c \in Nat, NEW seen \in Nat,
           Guard(w), Complete(w, c, seen)
    PROVE  /\ intent' \in [Scopes -> IntentRows]
           /\ saw' \in [Scopes -> Nat]
           /\ AbsentRowsEmpty'
<1> DEFINE s == worker[w].scope
           row == Acknowledge(intent[s], worker[w].claimed, c)
<1>1. /\ s \in Scopes
      /\ intent' = [intent EXCEPT ![s] = row]
      /\ saw' = [saw EXCEPT ![s] = seen]
      /\ row \in IntentRows
      /\ row.seq = intent[s].seq
    BY CompleteFacts DEF RowInv
<1>2. Registered(intent[s])
    BY DEF Complete, AcknowledgeAllowed
<1> HIDE DEF s, row
<1>3. Registered(row)
    BY <1>1, <1>2 DEF Registered
<1> QED
    BY <1>1, <1>3 DEF RowInv, TypeOK, AbsentRowsEmpty

\* No transaction leaves a row that its CHECK constraints refuse.
LEMMA NextRowInv == RowInv /\ [Next]_vars => RowInv'
<1> SUFFICES ASSUME RowInv, [Next]_vars
             PROVE  RowInv'
    OBVIOUS
<1> USE DEF RowInv, AbsentRowsEmpty
<1>1. ASSUME NEW s \in Scopes, NEW n \in Positions, AddSources(s, n)
      PROVE  RowInv'
    <2>1. intent[s] \in IntentRows /\ sequence \in Nat /\ n \in Nat
        BY BoundsAssumption DEF TypeOK, Positions
    <2>2. SequenceAfter(intent[s], sequence) \in Nat
        BY <2>1, SequenceAfterFacts
    <2>3. /\ MarkDirty(intent[s], sequence, n) \in IntentRows
          /\ Registered(MarkDirty(intent[s], sequence, n))
        BY <2>1, MarkDirtyFacts
    <2>4. head' \in [Scopes -> 0..MaxHead]
        BY <1>1, <2>1, BoundsAssumption DEF TypeOK, AddSources
    <2> QED
        BY <1>1, <2>2, <2>3, <2>4 DEF TypeOK, AddSources
<1>2. ASSUME NEW s \in Scopes, RequestFlush(s) PROVE RowInv'
    <2>1. /\ intent[s] \in IntentRows /\ sequence \in Nat
          /\ head[s] \in Nat /\ asked[s] \in Seq(Nat)
        BY BoundsAssumption DEF TypeOK
    <2>2. SequenceAfter(intent[s], sequence) \in Nat
        BY <2>1, SequenceAfterFacts
    <2>3. /\ AcceptRequest(intent[s], sequence) \in IntentRows
          /\ Registered(AcceptRequest(intent[s], sequence))
        BY <2>1, AcceptRequestFacts
    <2>4. Append(asked[s], head[s]) \in Seq(Nat)
        BY <2>1, AppendProperties
    <2> QED
        BY <1>2, <2>2, <2>3, <2>4 DEF TypeOK, RequestFlush
<1>3. ASSUME NEW s \in Scopes, AutoAdmit(s) PROVE RowInv'
    <2>1. /\ intent[s] \in IntentRows
          /\ head[s] \in Nat /\ asked[s] \in Seq(Nat)
        BY BoundsAssumption DEF TypeOK
    <2>2. /\ Admit(intent[s], intent[s].lastScan + 1) \in IntentRows
          /\ Registered(Admit(intent[s], intent[s].lastScan + 1))
        BY <1>3, <2>1, AdmitNextFacts DEF AutoAdmit, Registered
    <2>3. Append(asked[s], head[s]) \in Seq(Nat)
        BY <2>1, AppendProperties
    <2> QED
        BY <1>3, <2>2, <2>3 DEF TypeOK, AutoAdmit
<1>4. ASSUME NEW s \in Scopes, Reconcile(s) PROVE RowInv'
    <2>1. intent[s] \in IntentRows /\ sequence \in Nat
        BY DEF TypeOK
    <2>2. SequenceAfter(intent[s], sequence) \in Nat
        BY <2>1, SequenceAfterFacts
    <2>3. /\ MarkDirty(intent[s], sequence, 1) \in IntentRows
          /\ Registered(MarkDirty(intent[s], sequence, 1))
        BY <2>1, MarkDirtyFacts
    <2> QED
        BY <1>4, <2>2, <2>3 DEF TypeOK, Reconcile
<1>5. ASSUME NEW w \in Workers, NEW s \in Scopes, Dispatch(w, s) PROVE RowInv'
    BY <1>5, AssignmentFacts DEF TypeOK, Dispatch
<1>6. CASE ChangeTerm
    BY <1>6 DEF TypeOK, ChangeTerm
<1>7. ASSUME NEW w \in Workers, Start(w) PROVE RowInv'
    <2> DEFINE s == worker[w].scope
    <2>1. w \in Flushes
        BY DEF Flushes
    <2>2. s \in Scopes
        BY <2>1 DEF TypeOK, WorkerStates
    <2>3. intent[s].dirty \in Nat /\ head[s] \in Nat
        BY <2>2, BoundsAssumption DEF TypeOK, IntentRows
    <2>4. CASE head[s] > cursor[s].at
        BY <1>7, <2>1, <2>2, <2>4, SnapshotFacts DEF TypeOK, Start
    <2>5. CASE ~ (head[s] > cursor[s].at)
        <3>1. /\ Guard(w) /\ Complete(w, intent[s].dirty, head[s])
              /\ worker' = [worker EXCEPT ![w] = Idle]
              /\ UNCHANGED <<term, head, cursor, sequence, unreconciled, legacy,
                             emitted, asked>>
            BY <1>7, <2>5 DEF Start
        <3> HIDE DEF s
        <3> QED
            BY <2>1, <2>3, <3>1, RowAfterComplete, IdleFacts DEF TypeOK
    <2> QED
        BY <2>4, <2>5
<1>8. ASSUME NEW w \in Callers, NEW s \in Scopes, StartDirect(w, s) PROVE RowInv'
    BY <1>8, SnapshotFacts DEF TypeOK, StartDirect, Flushes
<1>9. ASSUME NEW w \in Flushes, Commit(w) PROVE RowInv'
    <2> DEFINE s == worker[w].scope
    <2>1. worker[w] \in WorkerStates
        BY DEF TypeOK
    <2>2. /\ s \in Scopes /\ worker[w].through \in Nat /\ worker[w].high \in Nat
          /\ worker[w].generation \in Nat /\ CleanTo(w) \in Nat
        BY <2>1 DEF WorkerStates, CleanTo
    <2>3. cursor' \in [Scopes -> [at : Nat, gen : Nat]]
        BY <1>9, <2>2 DEF TypeOK, Commit
    <2>4. emitted' \in [Scopes -> [Positions -> Nat]]
        <3> DEFINE row == [p \in Positions |->
                              IF worker[w].after < p /\ p <= worker[w].through
                              THEN emitted[s][p] + 1 ELSE emitted[s][p]]
        <3>1. emitted' = [emitted EXCEPT ![s] = row]
            BY <1>9 DEF Commit
        <3>2. emitted \in [Scopes -> [Positions -> Nat]]
            BY DEF TypeOK
        <3>3. row \in [Positions -> Nat]
            BY <2>2, <3>2
        <3> HIDE DEF row
        <3> QED
            BY <2>2, <3>1, <3>2, <3>3
    <2>5. worker' \in [Flushes -> WorkerStates]
        BY <1>9, IdleFacts DEF TypeOK, Commit
    <2>6. /\ intent' \in [Scopes -> IntentRows] /\ saw' \in [Scopes -> Nat]
          /\ AbsentRowsEmpty'
        <3>1. CASE worker[w].claimed = 0
            BY <1>9, <3>1 DEF TypeOK, Commit
        <3>2. CASE worker[w].claimed # 0
            <4>1. Guard(w) /\ Complete(w, CleanTo(w), worker[w].high)
                BY <1>9, <3>2 DEF Commit
            <4> QED
                BY <2>2, <4>1, RowAfterComplete
        <3> QED
            BY <3>1, <3>2
    <2>7. UNCHANGED <<term, head, sequence, unreconciled, legacy, asked>>
        BY <1>9 DEF Commit
    <2> QED
        BY <2>3, <2>4, <2>5, <2>6, <2>7 DEF TypeOK
<1>10. ASSUME NEW w \in Flushes, Refused(w) PROVE RowInv'
    BY <1>10, IdleFacts DEF TypeOK, Refused
<1>11. ASSUME NEW w \in Flushes, Fail(w) PROVE RowInv'
    BY <1>11, IdleFacts DEF TypeOK, Fail
<1>12. CASE UNCHANGED vars
    BY <1>12 DEF TypeOK, vars
<1> QED
    BY <1>1, <1>2, <1>3, <1>4, <1>5, <1>6, <1>7, <1>8, <1>9, <1>10, <1>11, <1>12
    DEF Next

\* Every row keeps its shape and its CHECK constraints, for every interleaving
\* of appends, requests, terms, workers and direct flushes.
THEOREM TypeCorrect == Spec => []TypeOK
<1>1. RowInv => TypeOK
    BY DEF RowInv
<1> QED
    BY <1>1, InitRowInv, NextRowInv, PTL DEF Spec

--------------------------------------------------------------------------------
(* The journal: cursors, windows and what was published.                   *)

JournalInv == CursorBehindHead /\ WindowsFresh /\ ExactlyOnce

\* A slot that is released, or assigned but not started, holds no window.
LEMMA JournalSlotFree ==
    ASSUME TypeOK, JournalInv, NEW w \in Flushes, NEW x,
           x.phase # "working",
           worker' = [worker EXCEPT ![w] = x],
           UNCHANGED <<head, cursor, emitted>>
    PROVE  JournalInv'
<1>1. CursorBehindHead' /\ ExactlyOnce'
    BY DEF JournalInv, CursorBehindHead, ExactlyOnce
<1>2. ASSUME NEW v \in Flushes, Working(v)'
      PROVE  Working(v) /\ worker'[v] = worker[v]
    BY <1>2 DEF TypeOK, Working
<1>3. WindowsFresh'
    BY <1>2 DEF JournalInv, WindowsFresh, Working
<1> QED
    BY <1>1, <1>3 DEF JournalInv

\* A window read in the same transaction as the cursor is fresh.
LEMMA JournalSlotFrozen ==
    ASSUME TypeOK, JournalInv, NEW w \in Flushes, NEW s \in Scopes,
           head[s] > cursor[s].at,
           worker' = [worker EXCEPT ![w] = Snapshot(w, s)],
           UNCHANGED <<head, cursor, emitted>>
    PROVE  JournalInv'
<1>1. CursorBehindHead' /\ ExactlyOnce'
    BY DEF JournalInv, CursorBehindHead, ExactlyOnce
<1>2. head[s] \in Nat /\ cursor[s].at \in Nat /\ cursor[s].gen \in Nat
    BY BoundsAssumption DEF TypeOK
<1>3. /\ cursor[s].at < WindowEnd(cursor[s].at, head[s])
      /\ WindowEnd(cursor[s].at, head[s]) <= head[s]
    BY <1>2, WindowEndFacts
<1>4. WindowsFresh'
    <2> SUFFICES ASSUME NEW v \in Flushes, Working(v)'
                 PROVE  LET q == worker'[v].scope
                        IN  /\ worker'[v].after < worker'[v].through
                            /\ worker'[v].through <= worker'[v].high
                            /\ worker'[v].high <= head[q]
                            /\ worker'[v].generation <= cursor[q].gen
                            /\ worker'[v].generation = cursor[q].gen
                                  => worker'[v].after = cursor[q].at
        BY DEF WindowsFresh
    <2>1. CASE v = w
        <3>1. worker'[v] = Snapshot(w, s)
            BY <2>1 DEF TypeOK
        <3> QED
            BY <1>2, <1>3, <3>1 DEF Snapshot
    <2>2. CASE v # w
        <3>1. worker'[v] = worker[v] /\ Working(v)
            BY <2>2 DEF TypeOK, Working
        <3> QED
            BY <3>1 DEF JournalInv, WindowsFresh
    <2> QED
        BY <2>1, <2>2
<1> QED
    BY <1>1, <1>4 DEF JournalInv

\* What the last transaction of flush() does to the journal's consumer: with
\* the cursor's generation unmoved, the window starts where the cursor is.
LEMMA CommitFacts ==
    ASSUME TypeOK, JournalInv, NEW w \in Flushes, Commit(w)
    PROVE  LET s == worker[w].scope
           IN  /\ s \in Scopes
               /\ worker[w].after = cursor[s].at
               /\ cursor[s].at < worker[w].through
               /\ worker[w].through <= worker[w].high
               /\ worker[w].high <= head[s]
               /\ cursor' = [cursor EXCEPT ![s] =
                                [at |-> worker[w].through,
                                 gen |-> cursor[s].gen + 1]]
               /\ emitted' = [emitted EXCEPT ![s] =
                                 [p \in Positions |->
                                    IF cursor[s].at < p /\ p <= worker[w].through
                                    THEN emitted[s][p] + 1 ELSE emitted[s][p]]]
               /\ worker' = [worker EXCEPT ![w] = Idle]
               /\ head' = head
<1> DEFINE s == worker[w].scope
<1>1. s \in Scopes
    BY DEF TypeOK, WorkerStates
<1>2. Working(w) /\ worker[w].generation = cursor[s].gen
    BY DEF Commit, CursorUnmoved, Working
<1>3. /\ worker[w].after = cursor[s].at
      /\ worker[w].after < worker[w].through
      /\ worker[w].through <= worker[w].high
      /\ worker[w].high <= head[s]
    BY <1>2 DEF JournalInv, WindowsFresh
<1>4. /\ cursor' = [cursor EXCEPT ![s] = [at |-> worker[w].through,
                                          gen |-> cursor[s].gen + 1]]
      /\ worker' = [worker EXCEPT ![w] = Idle]
      /\ head' = head
    BY <1>2 DEF Commit
<1>5. emitted' = [emitted EXCEPT ![s] =
                     [p \in Positions |->
                        IF cursor[s].at < p /\ p <= worker[w].through
                        THEN emitted[s][p] + 1 ELSE emitted[s][p]]]
    BY <1>3 DEF Commit
<1> QED
    BY <1>1, <1>3, <1>4, <1>5

\* A published window extends the consumed prefix, and every other window of
\* the scope has become stale.
LEMMA CommitJournalInv ==
    ASSUME TypeOK, JournalInv, NEW w \in Flushes, Commit(w)
    PROVE  JournalInv'
<1> DEFINE s == worker[w].scope
<1>1. /\ s \in Scopes
      /\ cursor[s].at < worker[w].through
      /\ worker[w].through <= worker[w].high
      /\ worker[w].high <= head[s]
      /\ cursor' = [cursor EXCEPT ![s] = [at |-> worker[w].through,
                                          gen |-> cursor[s].gen + 1]]
      /\ emitted' = [emitted EXCEPT ![s] =
                        [p \in Positions |->
                           IF cursor[s].at < p /\ p <= worker[w].through
                           THEN emitted[s][p] + 1 ELSE emitted[s][p]]]
      /\ worker' = [worker EXCEPT ![w] = Idle]
      /\ head' = head
    BY CommitFacts
<1>2. /\ worker[w].through \in Nat /\ worker[w].high \in Nat /\ head[s] \in Nat
      /\ cursor[s].at \in Nat /\ cursor[s].gen \in Nat
    BY <1>1, BoundsAssumption DEF TypeOK, WorkerStates
<1> HIDE DEF s
<1>3. /\ cursor'[s].at = worker[w].through
      /\ cursor'[s].gen = cursor[s].gen + 1
      /\ \A q \in Scopes : q # s => cursor'[q] = cursor[q]
    BY <1>1 DEF TypeOK
<1>4. CursorBehindHead'
    BY <1>1, <1>2, <1>3 DEF JournalInv, CursorBehindHead
<1>5. ExactlyOnce'
    <2> SUFFICES ASSUME NEW q \in Scopes, NEW p \in Positions
                 PROVE  emitted'[q][p] = IF p <= cursor'[q].at THEN 1 ELSE 0
        BY DEF ExactlyOnce
    <2>1. emitted[q][p] = IF p <= cursor[q].at THEN 1 ELSE 0
        BY DEF JournalInv, ExactlyOnce
    <2>2. CASE q # s
        BY <1>1, <1>3, <2>1, <2>2 DEF TypeOK
    <2>3. CASE q = s
        <3>1. emitted'[s][p] = IF cursor[s].at < p /\ p <= worker[w].through
                               THEN emitted[s][p] + 1 ELSE emitted[s][p]
            BY <1>1 DEF TypeOK
        <3>2. p \in Nat
            BY BoundsAssumption DEF Positions
        <3> QED
            BY <1>1, <1>2, <1>3, <2>1, <2>3, <3>1, <3>2
    <2> QED
        BY <2>2, <2>3
<1>6. WindowsFresh'
    <2> SUFFICES ASSUME NEW v \in Flushes, Working(v)'
                 PROVE  LET q == worker'[v].scope
                        IN  /\ worker'[v].after < worker'[v].through
                            /\ worker'[v].through <= worker'[v].high
                            /\ worker'[v].high <= head'[q]
                            /\ worker'[v].generation <= cursor'[q].gen
                            /\ worker'[v].generation = cursor'[q].gen
                                  => worker'[v].after = cursor'[q].at
        BY DEF WindowsFresh
    <2> DEFINE q == worker[v].scope
    <2>1. v # w /\ worker'[v] = worker[v] /\ Working(v)
        BY <1>1, IdleFacts DEF TypeOK, Working
    <2>2. /\ worker[v].after < worker[v].through
          /\ worker[v].through <= worker[v].high
          /\ worker[v].high <= head[q]
          /\ worker[v].generation <= cursor[q].gen
          /\ worker[v].generation = cursor[q].gen
                => worker[v].after = cursor[q].at
        BY <2>1 DEF JournalInv, WindowsFresh
    <2>3. q \in Scopes /\ worker[v].generation \in Nat
        BY DEF TypeOK, WorkerStates
    <2> HIDE DEF q
    <2>4. CASE q = s
        <3>1. worker[v].generation <= cursor'[q].gen
              /\ worker[v].generation # cursor'[q].gen
            BY <1>2, <1>3, <2>2, <2>3, <2>4
        <3> QED
            BY <1>1, <2>1, <2>2, <3>1 DEF q
    <2>5. CASE q # s
        <3>1. cursor'[q] = cursor[q]
            BY <1>3, <2>3, <2>5
        <3> QED
            BY <1>1, <2>1, <2>2, <3>1 DEF q
    <2> QED
        BY <2>4, <2>5
<1> QED
    BY <1>4, <1>5, <1>6 DEF JournalInv

\* Every step keeps the journal's invariant.
LEMMA NextJournalInv == TypeOK /\ JournalInv /\ [Next]_vars => JournalInv'
<1> SUFFICES ASSUME TypeOK, JournalInv, [Next]_vars
             PROVE  JournalInv'
    OBVIOUS
<1>1. ASSUME NEW s \in Scopes, NEW n \in Positions, AddSources(s, n)
      PROVE  JournalInv'
    <2>1. UNCHANGED <<cursor, worker, emitted>>
        BY <1>1 DEF AddSources
    <2>2. \A q \in Scopes : head[q] \in Nat /\ head'[q] \in Nat /\ head[q] <= head'[q]
        <3>1. head \in [Scopes -> 0..MaxHead] /\ n \in Nat /\ MaxHead \in Nat
            BY BoundsAssumption DEF TypeOK, Positions
        <3>2. head' = [head EXCEPT ![s] = head[s] + n]
            BY <1>1 DEF AddSources
        <3> QED
            BY <3>1, <3>2
    <2>3. ExactlyOnce'
        BY <2>1 DEF JournalInv, ExactlyOnce
    <2>6. CursorBehindHead'
        <3>1. \A q \in Scopes : cursor[q].at \in Nat
            BY DEF TypeOK
        <3> QED
            BY <2>1, <2>2, <3>1 DEF JournalInv, CursorBehindHead
    <2>4. \A v \in Flushes : worker[v].scope \in Scopes /\ worker[v].high \in Nat
        BY DEF TypeOK, WorkerStates
    <2>5. WindowsFresh'
        BY <2>1, <2>2, <2>4 DEF JournalInv, WindowsFresh, Working
    <2> QED
        BY <2>3, <2>5, <2>6 DEF JournalInv
<1>2. CASE \/ \E s \in Scopes : RequestFlush(s) \/ AutoAdmit(s) \/ Reconcile(s)
           \/ ChangeTerm
           \/ UNCHANGED vars
    <2>1. UNCHANGED <<head, cursor, worker, emitted>>
        BY <1>2 DEF RequestFlush, AutoAdmit, Reconcile, ChangeTerm, vars
    <2> QED
        BY <2>1 DEF JournalInv, CursorBehindHead, WindowsFresh, Working, ExactlyOnce
<1>3. ASSUME NEW w \in Workers, NEW s \in Scopes, Dispatch(w, s)
      PROVE  JournalInv'
    <2>1. w \in Flushes /\ Assignment(s).phase # "working"
        BY DEF Flushes, Assignment
    <2>2. /\ worker' = [worker EXCEPT ![w] = Assignment(s)]
          /\ UNCHANGED <<head, cursor, emitted>>
        BY <1>3 DEF Dispatch
    <2> QED
        BY <2>1, <2>2, JournalSlotFree
<1>4. ASSUME NEW w \in Workers, Start(w) PROVE JournalInv'
    <2> DEFINE s == worker[w].scope
    <2>1. w \in Flushes
        BY DEF Flushes
    <2>2. s \in Scopes /\ UNCHANGED <<head, cursor, emitted>>
        BY <1>4, <2>1 DEF TypeOK, WorkerStates, Start
    <2>3. CASE head[s] > cursor[s].at
        <3>1. worker' = [worker EXCEPT ![w] = Snapshot(w, s)]
            BY <1>4, <2>3 DEF Start
        <3> QED
            BY <2>1, <2>2, <2>3, <3>1, JournalSlotFrozen
    <2>4. CASE ~ (head[s] > cursor[s].at)
        <3>1. worker' = [worker EXCEPT ![w] = Idle]
            BY <1>4, <2>4 DEF Start
        <3> QED
            BY <2>1, <2>2, <3>1, IdleFacts, JournalSlotFree
    <2> QED
        BY <2>3, <2>4
<1>5. ASSUME NEW w \in Callers, NEW s \in Scopes, StartDirect(w, s)
      PROVE  JournalInv'
    <2>1. /\ w \in Flushes
          /\ head[s] > cursor[s].at
          /\ worker' = [worker EXCEPT ![w] = Snapshot(w, s)]
          /\ UNCHANGED <<head, cursor, emitted>>
        BY <1>5 DEF Flushes, StartDirect
    <2> QED
        BY <2>1, JournalSlotFrozen
<1>6. ASSUME NEW w \in Flushes, Commit(w) PROVE JournalInv'
    BY <1>6, CommitJournalInv
<1>7. ASSUME NEW w \in Flushes, Refused(w) \/ Fail(w) PROVE JournalInv'
    <2>1. /\ worker' = [worker EXCEPT ![w] = Idle]
          /\ UNCHANGED <<head, cursor, emitted>>
        BY <1>7 DEF Refused, Fail
    <2> QED
        BY <2>1, IdleFacts, JournalSlotFree
<1> QED
    BY <1>1, <1>2, <1>3, <1>4, <1>5, <1>6, <1>7 DEF Next

\* Nothing is consumed, and nothing was published, at the start.
LEMMA InitJournalInv == Init => JournalInv
<1> SUFFICES ASSUME Init PROVE JournalInv
    OBVIOUS
<1>1. CursorBehindHead
    BY BoundsAssumption DEF Init, CursorBehindHead
<1>2. ExactlyOnce
    BY BoundsAssumption DEF Init, ExactlyOnce, Positions
<1>3. WindowsFresh
    BY IdleFacts DEF Init, WindowsFresh, Working
<1> QED
    BY <1>1, <1>2, <1>3 DEF JournalInv

\* The published windows cover exactly the consumed prefix of the journal,
\* each position once, whatever stale workers and direct flushes do.
THEOREM WindowsAreExact == Spec => []ExactlyOnce
<1>1. Init => RowInv /\ JournalInv
    BY InitRowInv, InitJournalInv
<1>2. RowInv /\ JournalInv /\ [Next]_vars => (RowInv /\ JournalInv)'
    BY NextRowInv, NextJournalInv DEF RowInv
<1>3. RowInv /\ JournalInv => ExactlyOnce
    BY DEF JournalInv
<1> QED
    BY <1>1, <1>2, <1>3, PTL DEF Spec

--------------------------------------------------------------------------------
(* Dirtiness: no appended row is acknowledged away.                        *)

DirtInv == SnapshotsHonest /\ NoLostInput

\* Steps that leave cursors, dirtiness and the journals alone, and a slot
\* that ends up without a window.
LEMMA DirtSlotFree ==
    ASSUME TypeOK, DirtInv, NEW w \in Flushes, NEW x,
           x.phase # "working",
           worker' = [worker EXCEPT ![w] = x],
           UNCHANGED <<head, cursor, legacy, intent>>
    PROVE  DirtInv'
<1>1. NoLostInput'
    BY DEF DirtInv, NoLostInput
<1>2. ASSUME NEW v \in Flushes, Working(v)'
      PROVE  Working(v) /\ worker'[v] = worker[v]
    BY <1>2 DEF TypeOK, Working
<1>3. SnapshotsHonest'
    BY <1>2 DEF DirtInv, SnapshotsHonest, Working
<1> QED
    BY <1>1, <1>3 DEF DirtInv

\* A snapshot taken with the intent row locked is honest.
LEMMA DirtSlotFrozen ==
    ASSUME TypeOK, DirtInv, NEW w \in Flushes, NEW s \in Scopes,
           worker' = [worker EXCEPT ![w] = Snapshot(w, s)],
           UNCHANGED <<head, cursor, legacy, intent>>
    PROVE  DirtInv'
<1>1. NoLostInput'
    BY DEF DirtInv, NoLostInput
<1>2. head[s] \in Nat /\ intent[s].dirty \in Nat
    BY BoundsAssumption DEF TypeOK, IntentRows
<1>3. SnapshotsHonest'
    <2> SUFFICES ASSUME NEW v \in Flushes, Working(v)'
                 PROVE  LET q == worker'[v].scope
                        IN  /\ worker'[v].dirty <= intent[q].dirty
                            /\ worker'[v].high < head[q]
                                  => /\ worker'[v].dirty < intent[q].dirty
                                     /\ q \notin legacy
        BY DEF SnapshotsHonest
    <2>1. CASE v = w
        <3>1. worker'[v] = Snapshot(w, s)
            BY <2>1 DEF TypeOK
        <3> QED
            BY <1>2, <3>1 DEF Snapshot
    <2>2. CASE v # w
        <3>1. worker'[v] = worker[v] /\ Working(v)
            BY <2>2 DEF TypeOK, Working
        <3> QED
            BY <3>1 DEF DirtInv, SnapshotsHonest
    <2> QED
        BY <2>1, <2>2
<1> QED
    BY <1>1, <1>3 DEF DirtInv

\* Marking a scope dirty keeps every older snapshot honest, whether or not
\* rows were appended with the mark.
LEMMA DirtMarked ==
    ASSUME RowInv, DirtInv, NEW s \in Scopes, NEW n \in Nat \ {0},
           intent' = [intent EXCEPT ![s] = MarkDirty(@, sequence, n)],
           legacy' = legacy \ {s},
           \A q \in Scopes : q # s => head'[q] = head[q],
           UNCHANGED <<cursor, worker>>
    PROVE  DirtInv'
<1> DEFINE row == MarkDirty(intent[s], sequence, n)
<1>1. intent[s] \in IntentRows /\ sequence \in Nat
    BY DEF RowInv, TypeOK
<1>2. ~ Registered(intent[s]) => intent[s] = Absent
    BY DEF RowInv, AbsentRowsEmpty
<1>3. row.dirty = intent[s].dirty + n /\ row.clean = intent[s].clean
    BY <1>1, <1>2, MarkDirtyFacts
<1>4. /\ intent[s].dirty \in Nat /\ intent[s].clean \in Nat
      /\ intent[s].clean <= intent[s].dirty
    BY <1>1 DEF IntentRows
<1>5. intent'[s] = row /\ \A q \in Scopes : q # s => intent'[q] = intent[q]
    BY DEF RowInv, TypeOK
<1> HIDE DEF row
<1>6. NoLostInput'
    <2> SUFFICES ASSUME NEW q \in Scopes, cursor'[q].at < head'[q]
                 PROVE  Dirty(intent'[q]) \/ q \in legacy'
        BY DEF NoLostInput
    <2>1. CASE q = s
        BY <1>3, <1>4, <1>5, <2>1 DEF Dirty
    <2>2. CASE q # s
        BY <1>5, <2>2 DEF DirtInv, NoLostInput
    <2> QED
        BY <2>1, <2>2
<1>7. SnapshotsHonest'
    <2> SUFFICES ASSUME NEW v \in Flushes, Working(v)'
                 PROVE  LET q == worker'[v].scope
                        IN  /\ worker'[v].dirty <= intent'[q].dirty
                            /\ worker'[v].high < head'[q]
                                  => /\ worker'[v].dirty < intent'[q].dirty
                                     /\ q \notin legacy'
        BY DEF SnapshotsHonest
    <2> DEFINE q == worker[v].scope
    <2>1. Working(v) /\ worker'[v] = worker[v]
        BY DEF Working
    <2>2. q \in Scopes /\ worker[v].dirty \in Nat
        BY DEF RowInv, TypeOK, WorkerStates
    <2>3. /\ worker[v].dirty <= intent[q].dirty
          /\ worker[v].high < head[q] => /\ worker[v].dirty < intent[q].dirty
                                         /\ q \notin legacy
        BY <2>1 DEF DirtInv, SnapshotsHonest
    <2> HIDE DEF q
    <2>4. CASE q = s
        <3>1. worker[v].dirty < intent'[q].dirty /\ q \notin legacy'
            BY <1>3, <1>4, <1>5, <2>2, <2>3, <2>4
        <3>2. intent'[q].dirty \in Nat
            BY <1>3, <1>4, <1>5, <2>4
        <3> QED
            BY <2>1, <2>2, <3>1, <3>2 DEF q
    <2>5. CASE q # s
        <3>1. /\ intent'[q] = intent[q] /\ head'[q] = head[q]
              /\ q \notin legacy => q \notin legacy'
            BY <1>5, <2>2, <2>5
        <3> QED
            BY <2>1, <2>3, <3>1 DEF q
    <2> QED
        BY <2>4, <2>5
<1> QED
    BY <1>6, <1>7 DEF DirtInv

\* Accepting a request moves neither dirty nor clean.
LEMMA DirtUnmoved ==
    ASSUME TypeOK, DirtInv,
           \A s \in Scopes : /\ intent'[s].dirty = intent[s].dirty
                             /\ intent'[s].clean = intent[s].clean,
           UNCHANGED <<head, cursor, legacy, worker>>
    PROVE  DirtInv'
<1>1. NoLostInput'
    BY DEF DirtInv, NoLostInput, Dirty
<1>2. \A v \in Flushes : worker[v].scope \in Scopes
    BY DEF TypeOK, WorkerStates
<1>3. SnapshotsHonest'
    BY <1>2 DEF DirtInv, SnapshotsHonest, Working
<1> QED
    BY <1>1, <1>3 DEF DirtInv

\* A committed window is clean only up to the rows its worker saw.
LEMMA CommitDirtInv ==
    ASSUME RowInv, JournalInv, DirtInv, NEW w \in Flushes, Commit(w)
    PROVE  DirtInv'
<1> DEFINE s == worker[w].scope
<1>1. /\ s \in Scopes
      /\ cursor[s].at < worker[w].through
      /\ worker[w].through <= worker[w].high
      /\ worker[w].high <= head[s]
      /\ cursor' = [cursor EXCEPT ![s] = [at |-> worker[w].through,
                                          gen |-> cursor[s].gen + 1]]
      /\ worker' = [worker EXCEPT ![w] = Idle]
      /\ head' = head
    BY CommitFacts DEF RowInv
<1>2. legacy' = legacy /\ Working(w)
    BY DEF Commit, Working
<1>3. /\ worker[w].through \in Nat /\ worker[w].high \in Nat
      /\ worker[w].dirty \in Nat
      /\ cursor[s].at \in Nat /\ head[s] \in Nat
    BY <1>1, BoundsAssumption DEF RowInv, TypeOK, WorkerStates
<1>4. /\ intent[s].dirty \in Nat /\ intent[s].clean \in Nat
      /\ CleanTo(w) \in Nat
    BY <1>1, <1>3 DEF RowInv, TypeOK, IntentRows, CleanTo
<1>5. /\ \A q \in Scopes : q # s => intent'[q] = intent[q]
      /\ intent'[s].dirty = intent[s].dirty
      /\ \/ intent'[s].clean = intent[s].clean
         \/ intent'[s].clean = CleanTo(w)
    <2>1. CASE worker[w].claimed = 0
        BY <2>1 DEF Commit
    <2>2. CASE worker[w].claimed # 0
        <3>1. Guard(w) /\ Complete(w, CleanTo(w), worker[w].high)
            BY <2>2 DEF Commit
        <3> DEFINE row == Acknowledge(intent[s], worker[w].claimed, CleanTo(w))
        <3>2. /\ intent' = [intent EXCEPT ![s] = row]
              /\ row.dirty = intent[s].dirty
              /\ row.clean = IF CleanTo(w) > intent[s].clean
                             THEN CleanTo(w) ELSE intent[s].clean
            BY <1>3, <1>4, <3>1, CompleteFacts DEF RowInv
        <3> HIDE DEF row
        <3>3. intent \in [Scopes -> IntentRows]
            BY DEF RowInv, TypeOK
        <3> HIDE DEF s
        <3> QED
            BY <1>1, <3>2, <3>3
    <2> QED
        BY <2>1, <2>2
<1>6. /\ worker[w].dirty <= intent[s].dirty
      /\ worker[w].high < head[s] => /\ worker[w].dirty < intent[s].dirty
                                     /\ s \notin legacy
    BY <1>2 DEF DirtInv, SnapshotsHonest
<1>7. cursor'[s].at = worker[w].through
      /\ \A q \in Scopes : q # s => cursor'[q] = cursor[q]
    BY <1>1 DEF RowInv, TypeOK
<1>8. cursor[s].at < head[s] => Dirty(intent[s]) \/ s \in legacy
    BY <1>1 DEF DirtInv, NoLostInput
<1>9. ASSUME worker[w].through < head[s]
      PROVE  Dirty(intent'[s]) \/ s \in legacy
    <2>1. Dirty(intent[s]) \/ s \in legacy
        BY <1>1, <1>3, <1>8, <1>9
    <2>2. CASE worker[w].through < worker[w].high
        <3>1. CleanTo(w) = 0
            BY <2>2 DEF CleanTo
        <3> QED
            BY <1>4, <1>5, <2>1, <3>1 DEF Dirty
    <2>3. CASE ~ (worker[w].through < worker[w].high)
        <3>1. CleanTo(w) = worker[w].dirty /\ worker[w].high < head[s]
            BY <1>1, <1>3, <1>9, <2>3 DEF CleanTo
        <3> QED
            BY <1>3, <1>4, <1>5, <1>6, <2>1, <3>1 DEF Dirty
    <2> QED
        BY <2>2, <2>3
<1>10. NoLostInput'
    <2> SUFFICES ASSUME NEW q \in Scopes, cursor'[q].at < head'[q]
                 PROVE  Dirty(intent'[q]) \/ q \in legacy'
        BY DEF NoLostInput
    <2>1. CASE q = s
        BY <1>1, <1>2, <1>7, <1>9, <2>1
    <2>2. CASE q # s
        BY <1>1, <1>2, <1>5, <1>7, <2>2 DEF DirtInv, NoLostInput
    <2> QED
        BY <2>1, <2>2
<1>11. SnapshotsHonest'
    <2> SUFFICES ASSUME NEW v \in Flushes, Working(v)'
                 PROVE  LET q == worker'[v].scope
                        IN  /\ worker'[v].dirty <= intent'[q].dirty
                            /\ worker'[v].high < head'[q]
                                  => /\ worker'[v].dirty < intent'[q].dirty
                                     /\ q \notin legacy'
        BY DEF SnapshotsHonest
    <2>1. Working(v) /\ worker'[v] = worker[v]
        BY <1>1, IdleFacts DEF RowInv, TypeOK, Working
    <2>2. worker[v].scope \in Scopes
        BY DEF RowInv, TypeOK, WorkerStates
    <2>3. intent'[worker[v].scope].dirty = intent[worker[v].scope].dirty
        BY <1>5, <2>2
    <2> QED
        BY <1>1, <1>2, <2>1, <2>3 DEF DirtInv, SnapshotsHonest
<1> QED
    BY <1>10, <1>11 DEF DirtInv

\* Every step keeps dirtiness honest.
LEMMA NextDirtInv ==
    RowInv /\ JournalInv /\ DirtInv /\ [Next]_vars => DirtInv'
<1> SUFFICES ASSUME RowInv, JournalInv, DirtInv, [Next]_vars
             PROVE  DirtInv'
    OBVIOUS
<1>t. TypeOK
    BY DEF RowInv
<1>1. ASSUME NEW s \in Scopes, NEW n \in Positions, AddSources(s, n)
      PROVE  DirtInv'
    <2>1. n \in Nat \ {0}
        BY BoundsAssumption DEF Positions
    <2>2. /\ intent' = [intent EXCEPT ![s] = MarkDirty(@, sequence, n)]
          /\ legacy' = legacy \ {s}
          /\ UNCHANGED <<cursor, worker>>
          /\ \A q \in Scopes : q # s => head'[q] = head[q]
        BY <1>1, <1>t DEF TypeOK, AddSources
    <2> QED
        BY <2>1, <2>2, DirtMarked
<1>2. ASSUME NEW s \in Scopes, RequestFlush(s) PROVE DirtInv'
    <2>1. intent[s] \in IntentRows /\ sequence \in Nat
        BY <1>t DEF TypeOK
    <2>2. ~ Registered(intent[s]) => intent[s] = Absent
        BY DEF RowInv, AbsentRowsEmpty
    <2>3. /\ AcceptRequest(intent[s], sequence).dirty = intent[s].dirty
          /\ AcceptRequest(intent[s], sequence).clean = intent[s].clean
        BY <2>1, <2>2, AcceptRequestFacts
    <2>4. /\ intent' = [intent EXCEPT ![s] = AcceptRequest(intent[s], sequence)]
          /\ UNCHANGED <<head, cursor, legacy, worker>>
        BY <1>2 DEF RequestFlush
    <2>5. \A q \in Scopes : /\ intent'[q].dirty = intent[q].dirty
                            /\ intent'[q].clean = intent[q].clean
        BY <1>t, <2>3, <2>4 DEF TypeOK
    <2> QED
        BY <1>t, <2>4, <2>5, DirtUnmoved
<1>3. ASSUME NEW s \in Scopes, AutoAdmit(s) PROVE DirtInv'
    <2> DEFINE row == Admit(intent[s], intent[s].lastScan + 1)
    <2>1. intent[s] \in IntentRows
        BY <1>t DEF TypeOK
    <2>2. row.dirty = intent[s].dirty /\ row.clean = intent[s].clean
        BY <1>3, <2>1, AdmitNextFacts DEF AutoAdmit
    <2>3. /\ intent' = [intent EXCEPT ![s] = row]
          /\ UNCHANGED <<head, cursor, legacy, worker>>
        BY <1>3 DEF AutoAdmit
    <2> HIDE DEF row
    <2>4. \A q \in Scopes : /\ intent'[q].dirty = intent[q].dirty
                            /\ intent'[q].clean = intent[q].clean
        BY <1>t, <2>2, <2>3 DEF TypeOK
    <2> QED
        BY <1>t, <2>3, <2>4, DirtUnmoved
<1>4. ASSUME NEW s \in Scopes, Reconcile(s) PROVE DirtInv'
    <2>1. UNCHANGED <<head, cursor, worker>>
        BY <1>4 DEF Reconcile
    <2>2. CASE head[s] > cursor[s].at /\ ~ Dirty(intent[s])
        <3>1. /\ intent' = [intent EXCEPT ![s] = MarkDirty(@, sequence, 1)]
              /\ legacy' = legacy \ {s}
            BY <1>4, <2>2 DEF Reconcile
        <3>2. /\ 1 \in Nat \ {0}
              /\ \A q \in Scopes : q # s => head'[q] = head[q]
            BY <2>1
        <3> QED
            BY <2>1, <3>1, <3>2, DirtMarked
    <2>3. CASE ~ (head[s] > cursor[s].at /\ ~ Dirty(intent[s]))
        <3>1. UNCHANGED <<intent, legacy>>
            BY <1>4, <2>3 DEF Reconcile
        <3> QED
            BY <1>t, <2>1, <3>1, DirtUnmoved
    <2> QED
        BY <2>2, <2>3
<1>5. ASSUME NEW w \in Workers, NEW s \in Scopes, Dispatch(w, s)
      PROVE  DirtInv'
    <2>1. w \in Flushes /\ Assignment(s).phase # "working"
        BY DEF Flushes, Assignment
    <2>2. /\ worker' = [worker EXCEPT ![w] = Assignment(s)]
          /\ UNCHANGED <<head, cursor, legacy, intent>>
        BY <1>5 DEF Dispatch
    <2> QED
        BY <1>t, <2>1, <2>2, DirtSlotFree
<1>6. CASE ChangeTerm \/ UNCHANGED vars
    <2>1. UNCHANGED <<head, cursor, legacy, intent, worker>>
        BY <1>6 DEF ChangeTerm, vars
    <2> QED
        BY <1>t, <2>1, DirtUnmoved
<1>7. ASSUME NEW w \in Workers, Start(w) PROVE DirtInv'
    <2> DEFINE s == worker[w].scope
    <2>1. w \in Flushes
        BY DEF Flushes
    <2>2. s \in Scopes /\ UNCHANGED <<head, cursor, legacy>>
        BY <1>7, <1>t, <2>1 DEF TypeOK, WorkerStates, Start
    <2>3. CASE head[s] > cursor[s].at
        <3>1. /\ worker' = [worker EXCEPT ![w] = Snapshot(w, s)]
              /\ intent' = intent
            BY <1>7, <2>3 DEF Start
        <3> QED
            BY <1>t, <2>1, <2>2, <3>1, DirtSlotFrozen
    <2>4. CASE ~ (head[s] > cursor[s].at)
        <3>1. /\ Guard(w) /\ Complete(w, intent[s].dirty, head[s])
              /\ worker' = [worker EXCEPT ![w] = Idle]
            BY <1>7, <2>4 DEF Start
        <3>2. /\ head[s] \in Nat /\ cursor[s].at \in Nat /\ intent[s].dirty \in Nat
            <4>1. head[s] \in 0..MaxHead /\ intent[s] \in IntentRows
                BY <1>t, <2>2 DEF TypeOK
            <4>2. cursor[s].at \in Nat
                BY <1>t, <2>2 DEF TypeOK
            <4> QED
                BY <4>1, <4>2, BoundsAssumption DEF IntentRows
        <3> DEFINE row == Acknowledge(intent[s], worker[w].claimed, intent[s].dirty)
        <3>3. intent' = [intent EXCEPT ![s] = row] /\ row.dirty = intent[s].dirty
            BY <1>t, <2>1, <3>1, <3>2, CompleteFacts
        <3> HIDE DEF row
        <3>4. /\ \A q \in Scopes : q # s => intent'[q] = intent[q]
              /\ \A q \in Scopes : intent'[q].dirty = intent[q].dirty
            BY <1>t, <3>3 DEF TypeOK
        <3>5. NoLostInput'
            BY <2>2, <2>4, <3>2, <3>4 DEF DirtInv, NoLostInput
        <3>6. ASSUME NEW v \in Flushes, Working(v)'
              PROVE  Working(v) /\ worker'[v] = worker[v] /\ worker[v].scope \in Scopes
            BY <1>t, <3>1, <3>6, IdleFacts DEF TypeOK, Working, WorkerStates
        <3>7. SnapshotsHonest'
            BY <2>2, <3>4, <3>6 DEF DirtInv, SnapshotsHonest, Working
        <3> QED
            BY <3>5, <3>7 DEF DirtInv
    <2> QED
        BY <2>3, <2>4
<1>8. ASSUME NEW w \in Callers, NEW s \in Scopes, StartDirect(w, s)
      PROVE  DirtInv'
    <2>1. /\ w \in Flushes
          /\ worker' = [worker EXCEPT ![w] = Snapshot(w, s)]
          /\ UNCHANGED <<head, cursor, legacy, intent>>
        BY <1>8 DEF Flushes, StartDirect
    <2> QED
        BY <1>t, <2>1, DirtSlotFrozen
<1>9. ASSUME NEW w \in Flushes, Commit(w) PROVE DirtInv'
    BY <1>9, CommitDirtInv
<1>10. ASSUME NEW w \in Flushes, Refused(w) \/ Fail(w) PROVE DirtInv'
    <2>1. /\ worker' = [worker EXCEPT ![w] = Idle]
          /\ UNCHANGED <<head, cursor, legacy, intent>>
        BY <1>10 DEF Refused, Fail
    <2> QED
        BY <1>t, <2>1, IdleFacts, DirtSlotFree
<1> QED
    BY <1>1, <1>2, <1>3, <1>4, <1>5, <1>6, <1>7, <1>8, <1>9, <1>10 DEF Next

\* Rows older than the binding are exactly the legacy ones.
LEMMA InitDirtInv == Init => DirtInv
<1> SUFFICES ASSUME Init PROVE DirtInv
    OBVIOUS
<1>1. NoLostInput
    BY BoundsAssumption DEF Init, NoLostInput
<1>2. SnapshotsHonest
    BY IdleFacts DEF Init, SnapshotsHonest, Working
<1> QED
    BY <1>1, <1>2 DEF DirtInv

\* A clean scope has no unconsumed row: no acknowledgement covers a row that
\* was appended after its worker read the journal.
THEOREM NothingIsLost == Spec => []NoLostInput
<1> DEFINE Inv == RowInv /\ JournalInv /\ DirtInv
<1>1. Init => Inv
    BY InitRowInv, InitJournalInv, InitDirtInv
<1>2. Inv /\ [Next]_vars => Inv'
    BY NextRowInv, NextJournalInv, NextDirtInv DEF RowInv
<1>3. Inv => NoLostInput
    BY DEF DirtInv
<1> QED
    BY <1>1, <1>2, <1>3, PTL DEF Spec

--------------------------------------------------------------------------------
(* Requests: no acknowledgement swallows a later request.                  *)

RequestInv == RequestsRecorded /\ NoSwallowedRequest

\* The part of RequestsRecorded that speaks of one worker record.
ClaimRecorded(x) ==
    /\ x.phase = "idle" => x.claimed = 0
    /\ x.claimed <= intent[x.scope].requested
    /\ x.phase = "working" /\ x.claimed > 0 => asked[x.scope][x.claimed] <= x.high

\* A change of one slot.
LEMMA RequestSlot ==
    ASSUME TypeOK, RequestInv, NEW w \in Flushes, NEW x, ClaimRecorded(x),
           worker' = [worker EXCEPT ![w] = x],
           UNCHANGED <<head, intent, asked, saw>>
    PROVE  RequestInv'
<1>1. NoSwallowedRequest'
    BY DEF RequestInv, NoSwallowedRequest
<1>2. \A s \in Scopes : /\ Len(asked'[s]) = intent'[s].requested
                        /\ \A g \in 1..Len(asked'[s]) : asked'[s][g] <= head'[s]
    BY DEF RequestInv, RequestsRecorded
<1>3. ASSUME NEW v \in Flushes
      PROVE  LET s == worker'[v].scope
             IN  /\ worker'[v].phase = "idle" => worker'[v].claimed = 0
                 /\ worker'[v].claimed <= intent'[s].requested
                 /\ worker'[v].phase = "working" /\ worker'[v].claimed > 0
                       => asked'[s][worker'[v].claimed] <= worker'[v].high
    <2>1. CASE v = w
        <3>1. worker'[v] = x
            BY <2>1 DEF TypeOK
        <3> QED
            BY <3>1 DEF ClaimRecorded
    <2>2. CASE v # w
        <3>1. worker'[v] = worker[v]
            BY <2>2 DEF TypeOK
        <3> QED
            BY <3>1 DEF RequestInv, RequestsRecorded, Working
    <2> QED
        BY <2>1, <2>2
<1>4. RequestsRecorded'
    BY <1>2, <1>3 DEF RequestsRecorded, Working
<1> QED
    BY <1>1, <1>4 DEF RequestInv

\* A free slot records nothing.
LEMMA IdleClaim ==
    ASSUME TypeOK
    PROVE  ClaimRecorded(Idle)
<1>1. Idle.scope \in Scopes /\ Idle.claimed = 0 /\ Idle.phase = "idle"
    BY IdleFacts DEF WorkerStates
<1>2. intent[Idle.scope].requested \in Nat
    BY <1>1 DEF TypeOK, IntentRows
<1> QED
    BY <1>1, <1>2 DEF ClaimRecorded

\* Appends and marks: heads grow, requests and acknowledgements stay.
LEMMA RequestUnmoved ==
    ASSUME TypeOK, TypeOK', RequestInv,
           \A s \in Scopes : /\ intent'[s].requested = intent[s].requested
                             /\ intent'[s].handled = intent[s].handled
                             /\ head[s] <= head'[s],
           UNCHANGED <<worker, asked, saw>>
    PROVE  RequestInv'
<1>1. NoSwallowedRequest'
    BY DEF RequestInv, NoSwallowedRequest
<1>2. \A s \in Scopes : /\ Len(asked'[s]) = intent'[s].requested
                        /\ \A g \in 1..Len(asked'[s]) : asked'[s][g] <= head'[s]
    <2> SUFFICES ASSUME NEW s \in Scopes, NEW g \in 1..Len(asked[s])
                 PROVE  asked[s][g] <= head'[s]
        BY DEF RequestInv, RequestsRecorded
    <2>1. asked[s] \in Seq(Nat) /\ head[s] \in Nat /\ head'[s] \in Nat
        BY BoundsAssumption DEF TypeOK
    <2>2. asked[s][g] \in Nat /\ asked[s][g] <= head[s]
        BY <2>1 DEF RequestInv, RequestsRecorded
    <2> QED
        BY <2>1, <2>2
<1>3. \A v \in Flushes : worker[v].scope \in Scopes
    BY DEF TypeOK, WorkerStates
<1>4. RequestsRecorded'
    BY <1>2, <1>3 DEF RequestInv, RequestsRecorded, Working
<1> QED
    BY <1>1, <1>4 DEF RequestInv

\* One more request is accepted, at today's head.
LEMMA RequestAccepted ==
    ASSUME TypeOK, RequestInv, NEW s \in Scopes, NEW row,
           row.requested = intent[s].requested + 1,
           row.handled = intent[s].handled,
           intent' = [intent EXCEPT ![s] = row],
           asked' = [asked EXCEPT ![s] = Append(@, head[s])],
           UNCHANGED <<worker, head, saw>>
    PROVE  RequestInv'
<1>1. /\ asked[s] \in Seq(Nat) /\ head[s] \in Nat
      /\ intent[s].requested \in Nat /\ intent[s].handled \in Nat
      /\ intent[s].handled <= intent[s].requested
    BY BoundsAssumption DEF TypeOK, IntentRows
<1>2. Len(asked[s]) = intent[s].requested
    BY DEF RequestInv, RequestsRecorded
<1>3. /\ Len(Append(asked[s], head[s])) = Len(asked[s]) + 1
      /\ \A g \in 1..Len(asked[s]) : Append(asked[s], head[s])[g] = asked[s][g]
      /\ Append(asked[s], head[s])[Len(asked[s]) + 1] = head[s]
    BY <1>1, AppendProperties
<1>4. /\ intent'[s] = row
      /\ asked'[s] = Append(asked[s], head[s])
      /\ \A q \in Scopes : q # s => intent'[q] = intent[q] /\ asked'[q] = asked[q]
    BY DEF TypeOK
<1>5. \A q \in Scopes : /\ Len(asked'[q]) = intent'[q].requested
                        /\ \A g \in 1..Len(asked'[q]) : asked'[q][g] <= head'[q]
    <2> SUFFICES ASSUME NEW q \in Scopes
                 PROVE  /\ Len(asked'[q]) = intent'[q].requested
                        /\ \A g \in 1..Len(asked'[q]) : asked'[q][g] <= head'[q]
        OBVIOUS
    <2>1. CASE q # s
        BY <1>4, <2>1 DEF RequestInv, RequestsRecorded
    <2>2. CASE q = s
        <3>1. Len(asked'[s]) = intent'[s].requested
            BY <1>2, <1>3, <1>4
        <3>2. ASSUME NEW g \in 1..Len(asked'[s])
              PROVE  asked'[s][g] <= head'[s]
            <4>1. CASE g = Len(asked[s]) + 1
                BY <1>1, <1>3, <1>4, <4>1
            <4>2. CASE g # Len(asked[s]) + 1
                <5>1. g \in 1..Len(asked[s])
                    BY <1>1, <1>2, <1>3, <1>4, <4>2
                <5> QED
                    BY <1>3, <1>4, <5>1 DEF RequestInv, RequestsRecorded
            <4> QED
                BY <4>1, <4>2
        <3> QED
            BY <2>2, <3>1, <3>2
    <2> QED
        BY <2>1, <2>2
<1>6. ASSUME NEW v \in Flushes
      PROVE  LET q == worker[v].scope
             IN  /\ worker[v].phase = "idle" => worker[v].claimed = 0
                 /\ worker[v].claimed <= intent'[q].requested
                 /\ worker[v].phase = "working" /\ worker[v].claimed > 0
                       => asked'[q][worker[v].claimed] <= worker[v].high
    <2> DEFINE q == worker[v].scope
    <2>1. /\ worker[v].phase = "idle" => worker[v].claimed = 0
          /\ worker[v].claimed <= intent[q].requested
          /\ worker[v].phase = "working" /\ worker[v].claimed > 0
                => asked[q][worker[v].claimed] <= worker[v].high
        BY DEF RequestInv, RequestsRecorded, Working
    <2>2. worker[v].claimed \in Nat /\ q \in Scopes
        BY DEF TypeOK, WorkerStates
    <2> HIDE DEF q
    <2>3. CASE q # s
        BY <1>4, <2>1, <2>2, <2>3 DEF q
    <2>4. CASE q = s
        <3>1. worker[v].claimed <= intent'[q].requested
            BY <1>1, <1>4, <2>1, <2>2, <2>4
        <3>2. ASSUME worker[v].phase = "working", worker[v].claimed > 0
              PROVE  asked'[q][worker[v].claimed] <= worker[v].high
            <4>1. worker[v].claimed \in 1..Len(asked[s])
                BY <1>1, <1>2, <2>1, <2>2, <2>4, <3>2
            <4> QED
                BY <1>3, <1>4, <2>1, <2>4, <3>2, <4>1
        <3> QED
            BY <2>1, <3>1, <3>2 DEF q
    <2> QED
        BY <2>3, <2>4
<1>7. RequestsRecorded'
    BY <1>5, <1>6 DEF RequestsRecorded, Working
<1>8. NoSwallowedRequest'
    <2> SUFFICES ASSUME NEW q \in Scopes, intent'[q].handled > 0
                 PROVE  /\ intent'[q].handled \in DOMAIN asked'[q]
                        /\ asked'[q][intent'[q].handled] <= saw'[q]
        BY DEF NoSwallowedRequest
    <2>1. CASE q # s
        BY <1>4, <2>1 DEF RequestInv, NoSwallowedRequest
    <2>2. CASE q = s
        <3>1. intent'[s].handled = intent[s].handled /\ intent[s].handled > 0
            BY <1>4, <2>2
        <3>2. /\ intent[s].handled \in 1..Len(asked[s])
              /\ asked[s][intent[s].handled] <= saw[s]
            BY <1>1, <1>2, <3>1 DEF RequestInv, NoSwallowedRequest
        <3>3. DOMAIN asked'[s] = 1..(Len(asked[s]) + 1)
            BY <1>1, <1>3, <1>4
        <3> QED
            BY <1>1, <1>2, <1>3, <1>4, <2>2, <3>1, <3>2, <3>3
    <2> QED
        BY <2>1, <2>2
<1> QED
    BY <1>7, <1>8 DEF RequestInv

\* An acknowledgement whose worker saw at least the head of its claim.
LEMMA RequestAcknowledged ==
    ASSUME TypeOK, RequestInv, NEW w \in Flushes, NEW c \in Nat, NEW seen \in Nat,
           Guard(w), Complete(w, c, seen),
           asked[worker[w].scope][worker[w].claimed] <= seen,
           worker' = [worker EXCEPT ![w] = Idle],
           UNCHANGED <<head, asked>>
    PROVE  RequestInv'
<1> DEFINE s == worker[w].scope
           row == Acknowledge(intent[s], worker[w].claimed, c)
<1>1. /\ s \in Scopes
      /\ intent' = [intent EXCEPT ![s] = row]
      /\ saw' = [saw EXCEPT ![s] = seen]
      /\ row.requested = intent[s].requested
      /\ row.handled = worker[w].claimed
    BY CompleteFacts
<1>2. /\ worker[w].claimed \in Nat /\ worker[w].claimed > 0
      /\ worker[w].claimed <= intent[s].requested
    <2>1. worker[w] \in WorkerStates /\ intent[s] \in IntentRows
        BY <1>1 DEF TypeOK
    <2>2. /\ worker[w].claimed \in Nat
          /\ intent[s].requested \in Nat /\ intent[s].handled \in Nat
        BY <2>1 DEF WorkerStates, IntentRows
    <2>3. /\ intent[s].requested >= worker[w].claimed
          /\ intent[s].handled < worker[w].claimed
        BY DEF Guard
    <2> QED
        BY <2>2, <2>3
<1> HIDE DEF row
<1>3. /\ intent'[s] = row /\ saw'[s] = seen
      /\ \A q \in Scopes : q # s => intent'[q] = intent[q] /\ saw'[q] = saw[q]
    BY <1>1 DEF TypeOK
<1>4. \A q \in Scopes : intent'[q].requested = intent[q].requested
    BY <1>1, <1>3
<1>5. asked[s] \in Seq(Nat) /\ Len(asked[s]) = intent[s].requested
    BY <1>1 DEF TypeOK, RequestInv, RequestsRecorded
<1>6. NoSwallowedRequest'
    <2> SUFFICES ASSUME NEW q \in Scopes, intent'[q].handled > 0
                 PROVE  /\ intent'[q].handled \in DOMAIN asked[q]
                        /\ asked[q][intent'[q].handled] <= saw'[q]
        BY DEF NoSwallowedRequest
    <2>1. CASE q # s
        BY <1>3, <2>1 DEF RequestInv, NoSwallowedRequest
    <2>2. CASE q = s
        <3>1. worker[w].claimed \in DOMAIN asked[s]
            BY <1>2, <1>5
        <3> QED
            BY <1>1, <1>3, <2>2, <3>1
    <2> QED
        BY <2>1, <2>2
<1>7. ASSUME NEW v \in Flushes
      PROVE  LET q == worker'[v].scope
             IN  /\ worker'[v].phase = "idle" => worker'[v].claimed = 0
                 /\ worker'[v].claimed <= intent'[q].requested
                 /\ worker'[v].phase = "working" /\ worker'[v].claimed > 0
                       => asked'[q][worker'[v].claimed] <= worker'[v].high
    <2>1. CASE v = w
        <3>1. worker'[v] = Idle
            BY <2>1 DEF TypeOK
        <3>2. /\ Idle.scope \in Scopes /\ Idle.claimed = 0 /\ Idle.phase = "idle"
              /\ Idle.claimed <= intent[Idle.scope].requested
            BY IdleFacts, IdleClaim DEF WorkerStates, ClaimRecorded
        <3> QED
            BY <1>4, <3>1, <3>2
    <2>2. CASE v # w
        <3>1. worker'[v] = worker[v] /\ worker[v].scope \in Scopes
            BY <2>2 DEF TypeOK, WorkerStates
        <3> QED
            BY <1>4, <3>1 DEF RequestInv, RequestsRecorded, Working
    <2> QED
        BY <2>1, <2>2
<1>8. RequestsRecorded'
    BY <1>4, <1>7 DEF RequestInv, RequestsRecorded, Working
<1> QED
    BY <1>6, <1>8 DEF RequestInv

\* A request accepted before the journal was read lies below its high mark.
LEMMA SnapshotClaim ==
    ASSUME TypeOK, RequestInv, NEW w \in Flushes, NEW s \in Scopes,
           worker[w].claimed = 0 \/ worker[w].scope = s
    PROVE  ClaimRecorded(Snapshot(w, s))
<1>1. /\ worker[w].claimed \in Nat /\ intent[s].requested \in Nat
      /\ asked[s] \in Seq(Nat)
    BY DEF TypeOK, WorkerStates, IntentRows
<1>2. worker[w].claimed <= intent[s].requested
    BY <1>1 DEF RequestInv, RequestsRecorded
<1>3. worker[w].claimed > 0 => asked[s][worker[w].claimed] <= head[s]
    <2>1. Len(asked[s]) = intent[s].requested
        BY DEF RequestInv, RequestsRecorded
    <2>2. worker[w].claimed > 0 => worker[w].claimed \in 1..Len(asked[s])
        BY <1>1, <1>2, <2>1
    <2> QED
        BY <2>2 DEF RequestInv, RequestsRecorded
<1> QED
    BY <1>2, <1>3 DEF Snapshot, ClaimRecorded

\* Every step keeps the requests recorded and none swallowed.
LEMMA NextRequestInv ==
    RowInv /\ RowInv' /\ RequestInv /\ [Next]_vars => RequestInv'
<1> SUFFICES ASSUME RowInv, RowInv', RequestInv, [Next]_vars
             PROVE  RequestInv'
    OBVIOUS
<1>t. TypeOK /\ TypeOK'
    BY DEF RowInv
<1>1. ASSUME NEW s \in Scopes, NEW n \in Positions, AddSources(s, n)
      PROVE  RequestInv'
    <2>1. /\ intent[s] \in IntentRows /\ sequence \in Nat /\ n \in Nat
          /\ ~ Registered(intent[s]) => intent[s] = Absent
        BY BoundsAssumption DEF RowInv, TypeOK, AbsentRowsEmpty, Positions
    <2>2. /\ MarkDirty(intent[s], sequence, n).requested = intent[s].requested
          /\ MarkDirty(intent[s], sequence, n).handled = intent[s].handled
        BY <2>1, MarkDirtyFacts
    <2>3. /\ intent' = [intent EXCEPT ![s] = MarkDirty(intent[s], sequence, n)]
          /\ head' = [head EXCEPT ![s] = head[s] + n]
          /\ UNCHANGED <<worker, asked, saw>>
        BY <1>1 DEF AddSources
    <2>4. \A q \in Scopes : /\ intent'[q].requested = intent[q].requested
                            /\ intent'[q].handled = intent[q].handled
        BY <1>t, <2>2, <2>3 DEF TypeOK
    <2>5. head \in [Scopes -> Nat]
        BY <1>t, BoundsAssumption DEF TypeOK
    <2>6. \A q \in Scopes : head[q] <= head'[q]
        BY <2>1, <2>3, <2>5
    <2> QED
        BY <1>t, <2>3, <2>4, <2>6, RequestUnmoved
<1>2. ASSUME NEW s \in Scopes, RequestFlush(s) PROVE RequestInv'
    <2>1. /\ intent[s] \in IntentRows /\ sequence \in Nat
          /\ ~ Registered(intent[s]) => intent[s] = Absent
        BY DEF RowInv, TypeOK, AbsentRowsEmpty
    <2> DEFINE row == AcceptRequest(intent[s], sequence)
    <2>2. row.requested = intent[s].requested + 1 /\ row.handled = intent[s].handled
        BY <2>1, AcceptRequestFacts
    <2>3. /\ intent' = [intent EXCEPT ![s] = row]
          /\ asked' = [asked EXCEPT ![s] = Append(@, head[s])]
          /\ UNCHANGED <<worker, head, saw>>
        BY <1>2 DEF RequestFlush
    <2> HIDE DEF row
    <2> QED
        BY <1>t, <2>2, <2>3, RequestAccepted
<1>3. ASSUME NEW s \in Scopes, AutoAdmit(s) PROVE RequestInv'
    <2>1. intent[s] \in IntentRows
        BY <1>t DEF TypeOK
    <2> DEFINE row == Admit(intent[s], intent[s].lastScan + 1)
    <2>2. row.requested = intent[s].requested + 1 /\ row.handled = intent[s].handled
        BY <1>3, <2>1, AdmitNextFacts DEF AutoAdmit
    <2>3. /\ intent' = [intent EXCEPT ![s] = row]
          /\ asked' = [asked EXCEPT ![s] = Append(@, head[s])]
          /\ UNCHANGED <<worker, head, saw>>
        BY <1>3 DEF AutoAdmit
    <2> HIDE DEF row
    <2> QED
        BY <1>t, <2>2, <2>3, RequestAccepted
<1>4. ASSUME NEW s \in Scopes, Reconcile(s) PROVE RequestInv'
    <2>1. UNCHANGED <<head, worker, asked, saw>>
        BY <1>4 DEF Reconcile
    <2>2. \A q \in Scopes : head[q] <= head'[q]
        BY <1>t, <2>1, BoundsAssumption DEF TypeOK
    <2>3. /\ intent[s] \in IntentRows /\ sequence \in Nat
          /\ ~ Registered(intent[s]) => intent[s] = Absent
        BY DEF RowInv, TypeOK, AbsentRowsEmpty
    <2>4. /\ MarkDirty(intent[s], sequence, 1).requested = intent[s].requested
          /\ MarkDirty(intent[s], sequence, 1).handled = intent[s].handled
        BY <2>3, MarkDirtyFacts
    <2>5. \/ intent' = intent
          \/ intent' = [intent EXCEPT ![s] = MarkDirty(intent[s], sequence, 1)]
        BY <1>4 DEF Reconcile
    <2>6. \A q \in Scopes : /\ intent'[q].requested = intent[q].requested
                            /\ intent'[q].handled = intent[q].handled
        BY <1>t, <2>4, <2>5 DEF TypeOK
    <2> QED
        BY <1>t, <2>1, <2>2, <2>6, RequestUnmoved
<1>5. ASSUME NEW w \in Workers, NEW s \in Scopes, Dispatch(w, s)
      PROVE  RequestInv'
    <2>1. w \in Flushes /\ intent[s].requested \in Nat
        BY <1>t DEF Flushes, TypeOK, IntentRows
    <2>2. ClaimRecorded(Assignment(s))
        BY <2>1 DEF Assignment, ClaimRecorded
    <2>3. /\ worker' = [worker EXCEPT ![w] = Assignment(s)]
          /\ UNCHANGED <<head, intent, asked, saw>>
        BY <1>5 DEF Dispatch
    <2> QED
        BY <1>t, <2>1, <2>2, <2>3, RequestSlot
<1>6. CASE ChangeTerm \/ UNCHANGED vars
    <2>1. UNCHANGED <<head, intent, worker, asked, saw>>
        BY <1>6 DEF ChangeTerm, vars
    <2>2. \A q \in Scopes : head[q] <= head'[q]
        BY <1>t, <2>1, BoundsAssumption DEF TypeOK
    <2> QED
        BY <1>t, <2>1, <2>2, RequestUnmoved
<1>7. ASSUME NEW w \in Workers, Start(w) PROVE RequestInv'
    <2> DEFINE s == worker[w].scope
    <2>1. w \in Flushes
        BY DEF Flushes
    <2>2. s \in Scopes /\ UNCHANGED <<head, asked>>
        BY <1>7, <1>t, <2>1 DEF TypeOK, WorkerStates, Start
    <2>3. CASE head[s] > cursor[s].at
        <3>1. /\ worker' = [worker EXCEPT ![w] = Snapshot(w, s)]
              /\ UNCHANGED <<intent, saw>>
            BY <1>7, <2>3 DEF Start
        <3>2. ClaimRecorded(Snapshot(w, s))
            BY <1>t, <2>1, <2>2, SnapshotClaim
        <3> QED
            BY <1>t, <2>1, <2>2, <3>1, <3>2, RequestSlot
    <2>4. CASE ~ (head[s] > cursor[s].at)
        <3>1. /\ Guard(w) /\ Complete(w, intent[s].dirty, head[s])
              /\ worker' = [worker EXCEPT ![w] = Idle]
            BY <1>7, <2>4 DEF Start
        <3>2. head[s] \in Nat /\ intent[s].dirty \in Nat
            BY <1>t, <2>2, BoundsAssumption DEF TypeOK, IntentRows
        <3>3. asked[s][worker[w].claimed] <= head[s]
            <4>1. /\ worker[w].claimed \in Nat /\ asked[s] \in Seq(Nat)
                  /\ intent[s].handled \in Nat /\ intent[s].requested \in Nat
                BY <1>t, <2>1, <2>2 DEF TypeOK, WorkerStates, IntentRows
            <4>2. /\ intent[s].handled < worker[w].claimed
                  /\ worker[w].claimed <= intent[s].requested
                BY <3>1 DEF Guard
            <4>3. worker[w].claimed \in 1..Len(asked[s])
                BY <2>2, <4>1, <4>2 DEF RequestInv, RequestsRecorded
            <4> QED
                BY <2>2, <4>3 DEF RequestInv, RequestsRecorded
        <3> QED
            BY <1>t, <2>1, <2>2, <3>1, <3>2, <3>3, RequestAcknowledged
    <2> QED
        BY <2>3, <2>4
<1>8. ASSUME NEW w \in Callers, NEW s \in Scopes, StartDirect(w, s)
      PROVE  RequestInv'
    <2>1. /\ w \in Flushes
          /\ worker[w].phase = "idle"
          /\ worker' = [worker EXCEPT ![w] = Snapshot(w, s)]
          /\ UNCHANGED <<head, intent, asked, saw>>
        BY <1>8 DEF Flushes, StartDirect
    <2>2. worker[w].claimed = 0
        BY <2>1 DEF RequestInv, RequestsRecorded
    <2>3. ClaimRecorded(Snapshot(w, s))
        BY <1>t, <2>1, <2>2, SnapshotClaim
    <2> QED
        BY <1>t, <2>1, <2>3, RequestSlot
<1>9. ASSUME NEW w \in Flushes, Commit(w) PROVE RequestInv'
    <2>1. /\ worker' = [worker EXCEPT ![w] = Idle]
          /\ UNCHANGED <<head, asked>>
          /\ Working(w)
        BY <1>9 DEF Commit, Working
    <2>2. CASE worker[w].claimed = 0
        <3>1. UNCHANGED <<intent, saw>>
            BY <1>9, <2>2 DEF Commit
        <3> QED
            BY <1>t, <2>1, <3>1, IdleClaim, RequestSlot
    <2>3. CASE worker[w].claimed # 0
        <3>1. Guard(w) /\ Complete(w, CleanTo(w), worker[w].high)
            BY <1>9, <2>3 DEF Commit
        <3>2. worker[w].claimed \in Nat /\ worker[w].high \in Nat /\ CleanTo(w) \in Nat
            BY <1>t DEF TypeOK, WorkerStates, CleanTo
        <3>3. asked[worker[w].scope][worker[w].claimed] <= worker[w].high
            BY <2>1, <2>3, <3>2 DEF RequestInv, RequestsRecorded
        <3> QED
            BY <1>t, <2>1, <3>1, <3>2, <3>3, RequestAcknowledged
    <2> QED
        BY <2>2, <2>3
<1>10. ASSUME NEW w \in Flushes, Refused(w) \/ Fail(w) PROVE RequestInv'
    <2>1. /\ worker' = [worker EXCEPT ![w] = Idle]
          /\ UNCHANGED <<head, intent, asked, saw>>
        BY <1>10 DEF Refused, Fail
    <2> QED
        BY <1>t, <2>1, IdleClaim, RequestSlot
<1> QED
    BY <1>1, <1>2, <1>3, <1>4, <1>5, <1>6, <1>7, <1>8, <1>9, <1>10 DEF Next

\* Nothing was requested at the start.
LEMMA InitRequestInv == Init => RequestInv
<1> SUFFICES ASSUME Init PROVE RequestInv
    OBVIOUS
<1>1. NoSwallowedRequest
    BY DEF Init, NoSwallowedRequest, Absent
<1>2. \A s \in Scopes : /\ Len(asked[s]) = intent[s].requested
                        /\ \A g \in 1..Len(asked[s]) : asked[s][g] <= head[s]
    BY DEF Init, Absent
<1>3. \A w \in Flushes : worker[w] = Idle
    BY DEF Init
<1>4. ClaimRecorded(Idle)
    BY InitRowInv, IdleClaim DEF RowInv
<1>5. RequestsRecorded
    BY <1>2, <1>3, <1>4 DEF RequestsRecorded, ClaimRecorded, Working
<1> QED
    BY <1>1, <1>5 DEF RequestInv

\* The invocation that acknowledges a request read the journal after the
\* request was accepted.
THEOREM RequestsAreNotSwallowed == Spec => []NoSwallowedRequest
<1>1. Init => RowInv /\ RequestInv
    BY InitRowInv, InitRequestInv
<1>2. RowInv /\ RequestInv /\ [Next]_vars => (RowInv /\ RequestInv)'
    BY NextRowInv, NextRequestInv
<1>3. RowInv /\ RequestInv => NoSwallowedRequest
    BY DEF RequestInv
<1> QED
    BY <1>1, <1>2, <1>3, PTL DEF Spec

--------------------------------------------------------------------------------
(* Refinement: the protocol is a journal consumer (its safety part).       *)

\* The mapped variables start in the abstract initial state.
LEMMA InitConsumer == Init => Consumer!Init
<1> SUFFICES ASSUME Init PROVE Consumer!Init
    OBVIOUS
<1>1. head \in [Scopes -> Positions \cup {0}]
    BY BoundsAssumption DEF Init, Positions
<1>2. [s \in Scopes |-> cursor[s].at] = [s \in Scopes |-> 0]
    BY DEF Init
<1> QED
    BY <1>1, <1>2 DEF Init, Consumer!Init

\* Appending grows a journal, committing takes its next window, and nothing
\* else is seen by the consumer.
LEMMA NextConsumer ==
    TypeOK /\ JournalInv /\ [Next]_vars => [Consumer!Next]_(Consumer!vars)
<1> SUFFICES ASSUME TypeOK, JournalInv, [Next]_vars
             PROVE  [Consumer!Next]_(Consumer!vars)
    OBVIOUS
<1>1. ASSUME NEW s \in Scopes, NEW n \in Positions, AddSources(s, n)
      PROVE  Consumer!Next
    <2>1. /\ head[s] + n <= MaxHead
          /\ head' = [head EXCEPT ![s] = head[s] + n]
          /\ UNCHANGED <<cursor, emitted>>
        BY <1>1 DEF AddSources
    <2>2. head[s] + n \in Positions /\ head[s] + n > head[s]
        BY <2>1, BoundsAssumption DEF TypeOK, Positions
    <2>3. Consumer!Grow(s)
        BY <2>1, <2>2 DEF Consumer!Grow
    <2> QED
        BY <2>3 DEF Consumer!Next
<1>2. ASSUME NEW w \in Flushes, Commit(w) PROVE Consumer!Next
    <2>0. PICK s \in Scopes : s = worker[w].scope
        BY DEF TypeOK, WorkerStates
    <2>1. /\ cursor[s].at < worker[w].through
          /\ worker[w].through <= worker[w].high
          /\ worker[w].high <= head[s]
          /\ cursor' = [cursor EXCEPT ![s] = [at |-> worker[w].through,
                                              gen |-> cursor[s].gen + 1]]
          /\ emitted' = [emitted EXCEPT ![s] =
                            [p \in Positions |->
                               IF cursor[s].at < p /\ p <= worker[w].through
                               THEN emitted[s][p] + 1 ELSE emitted[s][p]]]
          /\ head' = head
        BY <1>2, <2>0, CommitFacts
    <2>2. /\ worker[w].through \in Nat /\ worker[w].high \in Nat
          /\ cursor[s].at \in Nat /\ head[s] \in 0..MaxHead
        BY <2>1 DEF TypeOK, WorkerStates
    <2>3. worker[w].through \in Positions /\ worker[w].through <= head[s]
        BY <2>1, <2>2, BoundsAssumption DEF Positions
    <2>4. [q \in Scopes |-> cursor'[q].at] =
              [[q \in Scopes |-> cursor[q].at] EXCEPT ![s] = worker[w].through]
        BY <2>1 DEF TypeOK
    <2>5. Consumer!Take(s)
        BY <2>1, <2>3, <2>4 DEF Consumer!Take
    <2> QED
        BY <2>5 DEF Consumer!Next
<1>3. CASE \/ \E s \in Scopes : RequestFlush(s) \/ AutoAdmit(s) \/ Reconcile(s)
           \/ \E w \in Workers, s \in Scopes : Dispatch(w, s)
           \/ ChangeTerm
           \/ \E w \in Workers : Start(w)
           \/ \E w \in Callers, s \in Scopes : StartDirect(w, s)
           \/ \E w \in Flushes : Refused(w) \/ Fail(w)
           \/ UNCHANGED vars
    <2>1. UNCHANGED <<head, cursor, emitted>>
        BY <1>3 DEF RequestFlush, AutoAdmit, Reconcile, Dispatch, ChangeTerm,
                    Start, StartDirect, Refused, Fail, vars
    <2> QED
        BY <2>1 DEF Consumer!vars
<1> QED
    BY <1>1, <1>2, <1>3 DEF Next

\* Every behaviour of the protocol consumes each journal in order, window by
\* window, never past its head (the safety part of ImplementsConsumer).
THEOREM ConsumesInOrder == Spec => Consumer!Safe
<1>1. Init => RowInv /\ JournalInv /\ Consumer!Init
    BY InitRowInv, InitJournalInv, InitConsumer
<1>2. RowInv /\ JournalInv /\ [Next]_vars
          => (RowInv /\ JournalInv)' /\ [Consumer!Next]_(Consumer!vars)
    BY NextRowInv, NextJournalInv, NextConsumer DEF RowInv
<1> QED
    BY <1>1, <1>2, PTL DEF Spec, Consumer!Safe
================================================================================
