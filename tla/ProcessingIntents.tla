--------------------------- MODULE ProcessingIntents ---------------------------
(***************************************************************************)
(* The coalescible scheduling-intent table of one processing binding       *)
(* (persistence/processing_intents.py): one row per scope, with the two    *)
(* independent generation pairs dirty/clean and requested/handled.  Every  *)
(* repository method is an operator from a row to a row; the modules that  *)
(* own a table apply it inside their transactions.                         *)
(*                                                                         *)
(* consecutive_dream_attempts is not kept in the row: only the Dream       *)
(* processor reads it, and DreamRuns has it as a variable of its own.      *)
(***************************************************************************)
EXTENDS Integers, FiniteSets

\* A row satisfies the table's CHECK constraints.
IntentRows ==
    {row \in [seq : Nat, dirty : Nat, clean : Nat, requested : Nat,
              handled : Nat, lastScan : Nat] :
        row.clean <= row.dirty /\ row.handled <= row.requested}

\* The key has no row yet.  A stored row has a positive pending_sequence.
Absent == [seq |-> 0, dirty |-> 0, clean |-> 0, requested |-> 0,
           handled |-> 0, lastScan |-> 0]

Registered(row) == row.seq > 0

\* Mutated form of Pending: the newest request does not count.
PendingOffByOne(row) == row.requested > row.handled + 1

Pending(row) == row.requested > row.handled

Dirty(row) == row.dirty > row.clean

\* ensure(): the row itself, or a first registration that takes the number
\* after the last one the global sequence row handed out.
Ensure(row, sequence) ==
    IF Registered(row) THEN row ELSE [Absent EXCEPT !.seq = sequence + 1]

\* The value of the global sequence row after ensure() of that row.
SequenceAfter(row, sequence) ==
    IF Registered(row) THEN sequence ELSE sequence + 1

\* mark_dirty_many() for one binding: register when missing, then advance.
MarkDirty(row, sequence, increment) ==
    [Ensure(row, sequence) EXCEPT !.dirty = @ + increment]

\* request(): accept one invocation in the caller's transaction.
AcceptRequest(row, sequence) ==
    [Ensure(row, sequence) EXCEPT !.requested = @ + 1]

\* Mutated form of Acknowledge: everything requested so far is handled.
AcknowledgeLatest(row, generation, cleanTo) ==
    IF generation <= row.handled
    THEN row
    ELSE [row EXCEPT !.handled = row.requested,
                     !.clean = IF cleanTo > @ THEN cleanTo ELSE @]

\* Mutated form of Acknowledge: the generation after the claim is handled.
AcknowledgeNext(row, generation, cleanTo) ==
    IF generation <= row.handled
    THEN row
    ELSE [row EXCEPT !.handled = generation + 1,
                     !.clean = IF cleanTo > @ THEN cleanTo ELSE @]

\* acknowledge(): an already handled generation changes nothing.  cleanTo is
\* the clean_generation argument; None is 0, which max() ignores.
Acknowledge(row, generation, cleanTo) ==
    IF generation <= row.handled
    THEN row
    ELSE [row EXCEPT !.handled = generation,
                     !.clean = IF cleanTo > @ THEN cleanTo ELSE @]

\* The two argument errors acknowledge() raises.
AcknowledgeAllowed(row, generation, cleanTo) ==
    /\ Registered(row)
    /\ generation <= row.requested
    /\ generation > row.handled => cleanTo <= row.dirty

\* Mutated form of Admit: the scan's mark is not written.
AdmitUnmarked(row, scanGeneration) ==
    IF row.lastScan >= scanGeneration
    THEN row
    ELSE [row EXCEPT !.requested = IF Dirty(row) /\ row.requested = row.handled
                                   THEN @ + 1 ELSE @]

\* admit(): accept one member of the scan, once, reusing an unacknowledged
\* request.
Admit(row, scanGeneration) ==
    IF row.lastScan >= scanGeneration
    THEN row
    ELSE [row EXCEPT !.lastScan = scanGeneration,
                     !.requested = IF Dirty(row) /\ row.requested = row.handled
                                   THEN @ + 1 ELSE @]

\* scan(): the first `limit` keys in pending_sequence order, of those in
\* members whose sequence lies in (after, upper].
ScanPage(table, members, after, upper, limit) ==
    LET found == {s \in members : Registered(table[s]) /\ table[s].seq > after
                                                       /\ table[s].seq <= upper}
    IN  {s \in found :
            Cardinality({t \in found : table[t].seq < table[s].seq}) < limit}

\* max_sequence(): the highest registered number of the binding, or 0.
MaxSequence(table) ==
    LET numbers == {table[s].seq : s \in DOMAIN table} \cup {0}
    IN  CHOOSE n \in numbers : \A m \in numbers : m <= n
================================================================================
