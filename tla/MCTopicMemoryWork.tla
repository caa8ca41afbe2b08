-------------------------- MODULE MCTopicMemoryWork ---------------------------
(* Topic Memory processing with two worker slots and two terms.            *)
EXTENDS TopicMemoryWork, TLC

Slots == Permutations(Workers)

\* Of the attempt the status reader saw first, only whether it is still the
\* current one matters: ids are never reused.
ReaderView ==
    IF reader = NoReader THEN "idle"
    ELSE IF reader.attempt # Row.attempt THEN "stale"
    ELSE IF reader.lockedLease THEN "lease" ELSE "free"

\* A worker that has lost its fence writes nothing any more: all it can do is
\* end.
WorkerView(w) ==
    IF worker[w].phase = "idle" \/ Fenced(w) THEN worker[w]
    ELSE [Idle EXCEPT !.phase = "target", !.term = worker[w].term]

\* A retried block behind the cursor, and the number of the last scan, are
\* never read again.
View == <<term, head, cursor, [intent EXCEPT !.lastScan = 0], pending,
          target, budget, {b \in blocks : b.after = cursor.at \/ b.retry = 0},
          [w \in Workers |-> WorkerView(w)], ReaderView, asked, spent>>
================================================================================
