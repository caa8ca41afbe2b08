------------------------ MODULE ProcessingIntentsProofs ------------------------
(***************************************************************************)
(* What the methods of the intent repository do to a row, as lemmas that   *)
(* the proofs about every module with an intent table cite.                *)
(***************************************************************************)
EXTENDS ProcessingIntents, FiniteSetTheorems, TLAPS

\* An unregistered row is the all-zero one.
LEMMA AbsentFacts == Absent \in IntentRows
BY DEF Absent, IntentRows

\* The fields of a row that satisfies the table's CHECK constraints.
LEMMA RowFacts ==
    ASSUME NEW row \in IntentRows
    PROVE  /\ row.seq \in Nat /\ row.dirty \in Nat /\ row.clean \in Nat
           /\ row.requested \in Nat /\ row.handled \in Nat /\ row.lastScan \in Nat
           /\ row.clean <= row.dirty /\ row.handled <= row.requested
BY DEF IntentRows

\* mark_dirty_many() registers when needed and advances dirty, only dirty.
LEMMA MarkDirtyFacts ==
    ASSUME NEW row \in IntentRows, NEW q \in Nat, NEW n \in Nat,
           ~ Registered(row) => row = Absent
    PROVE  /\ MarkDirty(row, q, n) \in IntentRows
           /\ Registered(MarkDirty(row, q, n))
           /\ MarkDirty(row, q, n).seq = IF Registered(row) THEN row.seq ELSE q + 1
           /\ MarkDirty(row, q, n).dirty = row.dirty + n
           /\ MarkDirty(row, q, n).clean = row.clean
           /\ MarkDirty(row, q, n).requested = row.requested
           /\ MarkDirty(row, q, n).handled = row.handled
           /\ MarkDirty(row, q, n).lastScan = row.lastScan
BY DEF MarkDirty, Ensure, Absent, Registered, IntentRows

\* request() registers when needed and advances requested, only requested.
LEMMA AcceptRequestFacts ==
    ASSUME NEW row \in IntentRows, NEW q \in Nat,
           ~ Registered(row) => row = Absent
    PROVE  /\ AcceptRequest(row, q) \in IntentRows
           /\ Registered(AcceptRequest(row, q))
           /\ AcceptRequest(row, q).seq = IF Registered(row) THEN row.seq ELSE q + 1
           /\ AcceptRequest(row, q).dirty = row.dirty
           /\ AcceptRequest(row, q).clean = row.clean
           /\ AcceptRequest(row, q).requested = row.requested + 1
           /\ AcceptRequest(row, q).handled = row.handled
           /\ AcceptRequest(row, q).lastScan = row.lastScan
BY DEF AcceptRequest, Ensure, Absent, Registered, IntentRows

\* acknowledge() of an open claim moves handled to the claim and clean up to
\* cleanTo at most; it neither loses dirtiness beyond cleanTo nor requests.
LEMMA AcknowledgeFacts ==
    ASSUME NEW row \in IntentRows, NEW g \in Nat, NEW c \in Nat,
           AcknowledgeAllowed(row, g, c), row.handled < g
    PROVE  /\ Acknowledge(row, g, c) \in IntentRows
           /\ Acknowledge(row, g, c).seq = row.seq
           /\ Acknowledge(row, g, c).dirty = row.dirty
           /\ Acknowledge(row, g, c).clean = IF c > row.clean THEN c ELSE row.clean
           /\ Acknowledge(row, g, c).requested = row.requested
           /\ Acknowledge(row, g, c).handled = g
           /\ Acknowledge(row, g, c).lastScan = row.lastScan
<1> DEFINE clean == IF c > row.clean THEN c ELSE row.clean
<1>1. Acknowledge(row, g, c) =
          [seq |-> row.seq, dirty |-> row.dirty, clean |-> clean,
           requested |-> row.requested, handled |-> g,
           lastScan |-> row.lastScan]
    <2>1. ~ (g <= row.handled)
        BY DEF IntentRows
    <2>2. CASE c > row.clean
        BY <2>1, <2>2 DEF Acknowledge, IntentRows
    <2>3. CASE ~ (c > row.clean)
        BY <2>1, <2>3 DEF Acknowledge, IntentRows
    <2> QED
        BY <2>2, <2>3
<1>2. clean \in Nat /\ clean <= row.dirty /\ g <= row.requested
    BY DEF AcknowledgeAllowed, IntentRows
<1> QED
    BY <1>1, <1>2 DEF IntentRows

\* admit() by a scan that has not marked the row yet leaves the scan's mark,
\* and accepts one request if the row is dirty and has none open.
LEMMA AdmitFacts ==
    ASSUME NEW row \in IntentRows, NEW g \in Nat, row.lastScan < g
    PROVE  /\ Admit(row, g) \in IntentRows
           /\ Admit(row, g).seq = row.seq
           /\ Admit(row, g).dirty = row.dirty
           /\ Admit(row, g).clean = row.clean
           /\ Admit(row, g).requested = IF Dirty(row) /\ ~ Pending(row)
                                        THEN row.requested + 1 ELSE row.requested
           /\ Admit(row, g).handled = row.handled
           /\ Admit(row, g).lastScan = g
<1> DEFINE requests == IF Dirty(row) /\ ~ Pending(row)
                       THEN row.requested + 1 ELSE row.requested
<1>1. /\ ~ (row.lastScan >= g)
      /\ row.requested = row.handled <=> ~ Pending(row)
    BY DEF Pending, IntentRows
<1>2. Admit(row, g) =
          [seq |-> row.seq, dirty |-> row.dirty, clean |-> row.clean,
           requested |-> requests, handled |-> row.handled, lastScan |-> g]
    <2>1. CASE Dirty(row) /\ ~ Pending(row)
        BY <1>1, <2>1 DEF Admit, IntentRows
    <2>2. CASE ~ (Dirty(row) /\ ~ Pending(row))
        BY <1>1, <2>2 DEF Admit, IntentRows
    <2> QED
        BY <2>1, <2>2
<1>3. requests \in Nat /\ row.handled <= requests
    BY DEF IntentRows
<1> QED
    BY <1>2, <1>3 DEF IntentRows

\* The same for a scan later than all before, of a dirty row without an open
\* request: exactly one is accepted.
LEMMA AdmitNextFacts ==
    ASSUME NEW row \in IntentRows, Dirty(row), ~ Pending(row)
    PROVE  /\ Admit(row, row.lastScan + 1) \in IntentRows
           /\ Admit(row, row.lastScan + 1).seq = row.seq
           /\ Admit(row, row.lastScan + 1).dirty = row.dirty
           /\ Admit(row, row.lastScan + 1).clean = row.clean
           /\ Admit(row, row.lastScan + 1).requested = row.requested + 1
           /\ Admit(row, row.lastScan + 1).handled = row.handled
<1>1. row.lastScan + 1 \in Nat /\ row.lastScan < row.lastScan + 1
    BY RowFacts
<1> DEFINE next == row.lastScan + 1
<1> HIDE DEF next
<1>2. next \in Nat /\ row.lastScan < next
    BY <1>1 DEF next
<1>3. /\ Admit(row, next) \in IntentRows
      /\ Admit(row, next).seq = row.seq
      /\ Admit(row, next).dirty = row.dirty
      /\ Admit(row, next).clean = row.clean
      /\ Admit(row, next).requested = row.requested + 1
      /\ Admit(row, next).handled = row.handled
    BY <1>2, AdmitFacts
<1> QED
    BY <1>3 DEF next

\* The global sequence row only grows.
LEMMA SequenceAfterFacts ==
    ASSUME NEW row \in IntentRows, NEW q \in Nat
    PROVE  /\ SequenceAfter(row, q) \in Nat
           /\ SequenceAfter(row, q) = IF Registered(row) THEN q ELSE q + 1
BY DEF SequenceAfter

\* The oldest of some requests, the lowest of some numbers.
LEMMA LeastNumber ==
    ASSUME NEW T, T \subseteq Nat, T # {}
    PROVE  \E m \in T : \A k \in T : m <= k
<1>1. PICK m \in T : \A k \in T : ~ (<<k, m>> \in OpToRel(<, Nat))
    BY NatLessThanWellFounded, WFMin
<1>2. \A k \in T : ~ (k < m)
    BY <1>1 DEF OpToRel
<1> QED
    BY <1>2

\* The newest of some numbers that are bounded.
LEMMA GreatestNumber ==
    ASSUME NEW T, T \subseteq Nat, T # {}, NEW n \in Nat, \A k \in T : k <= n
    PROVE  \E m \in T : \A k \in T : k <= m
<1> DEFINE Gaps == {n - k : k \in T}
<1>1. Gaps \subseteq Nat /\ Gaps # {}
    <2>1. PICK k \in T : TRUE
        OBVIOUS
    <2>2. n - k \in Gaps
        OBVIOUS
    <2>3. Gaps \subseteq Nat
        OBVIOUS
    <2> QED
        BY <2>2, <2>3
<1>2. PICK g \in Gaps : \A h \in Gaps : g <= h
    <2> HIDE DEF Gaps
    <2> QED
        BY <1>1, LeastNumber
<1>3. PICK m \in T : g = n - m
    BY <1>2
<1>4. ASSUME NEW k \in T PROVE k <= m
    <2>1. n - k \in Gaps
        OBVIOUS
    <2>2. n - m <= n - k
        BY <1>2, <1>3, <2>1
    <2>3. k \in Nat /\ m \in Nat
        OBVIOUS
    <2> HIDE DEF Gaps
    <2> QED
        BY <2>2, <2>3
<1> QED
    BY <1>4

\* Keys with numbers of their own, up to a bound, are finitely many.
LEMMA NumberedFinite ==
    ASSUME NEW table, NEW keys, NEW n \in Nat,
           \A s \in keys : table[s].seq \in 1..n,
           \A s, t \in keys : table[s].seq = table[t].seq => s = t
    PROVE  IsFiniteSet(keys)
<1> DEFINE f == [s \in keys |-> table[s].seq]
<1>1. f \in Injection(keys, 1..n)
    BY DEF Injection, IsInjective
<1>2. IsFiniteSet(1..n)
    <2>1. 1 \in Int /\ n \in Int
        OBVIOUS
    <2> QED
        BY <2>1, FS_Interval
<1> HIDE DEF f
<1> QED
    BY <1>1, <1>2, FS_Injection

\* scan(): a page holds keys of the range, with each key all that come before
\* it, and a page that does not reach its limit holds all of them.
LEMMA PageFacts ==
    ASSUME NEW table, NEW members, NEW after \in Nat, NEW upper \in Nat,
           NEW limit \in Nat,
           \A s \in members : table[s].seq \in Nat,
           \A s, t \in members :
              Registered(table[s]) /\ table[s].seq = table[t].seq => s = t
    PROVE  LET found == {s \in members : /\ Registered(table[s])
                                         /\ table[s].seq > after
                                         /\ table[s].seq <= upper}
               page == ScanPage(table, members, after, upper, limit)
           IN  /\ page \subseteq found
               /\ \A s \in page, t \in found :
                     table[t].seq < table[s].seq => t \in page
               /\ Cardinality(page) # limit => page = found
<1> DEFINE found == {s \in members : /\ Registered(table[s])
                                     /\ table[s].seq > after
                                     /\ table[s].seq <= upper}
           page == ScanPage(table, members, after, upper, limit)
           below(s) == {t \in found : table[t].seq < table[s].seq}
<1>1. page = {s \in found : Cardinality(below(s)) < limit}
    BY DEF ScanPage
<1>2. /\ \A s \in found : table[s].seq \in 1..upper
      /\ \A s, t \in found : table[s].seq = table[t].seq => s = t
    BY DEF Registered
<1> HIDE DEF found, page
<1>3. IsFiniteSet(found)
    BY <1>2, NumberedFinite
<1>4. \A s \in found : IsFiniteSet(below(s)) /\ Cardinality(below(s)) \in Nat
    BY <1>3, FS_Subset, FS_CardinalityType
<1>5. ASSUME NEW s \in page, NEW t \in found, table[t].seq < table[s].seq
      PROVE  t \in page
    <2>1. s \in found /\ Cardinality(below(s)) < limit
        BY <1>1
    <2>2. below(t) \in SUBSET below(s)
        BY <1>2, <1>5, <2>1
    <2>3. Cardinality(below(t)) <= Cardinality(below(s))
        BY <1>4, <2>1, <2>2, FS_Subset
    <2>4. /\ Cardinality(below(t)) \in Nat /\ Cardinality(below(s)) \in Nat
        BY <1>4, <2>1
    <2> QED
        BY <1>1, <2>1, <2>3, <2>4
<1>6. IsFiniteSet(page) /\ Cardinality(page) \in Nat
    BY <1>1, <1>3, FS_Subset, FS_CardinalityType
\* A full page is not overfull: its last key has the others before it.
<1>7. Cardinality(page) <= limit
    <2>1. CASE page = {}
        BY <2>1, FS_EmptySet
    <2>2. CASE page # {}
        <3> DEFINE Numbers == {table[s].seq : s \in page}
        <3>1. /\ Numbers \subseteq Nat /\ Numbers # {}
              /\ \A k \in Numbers : k <= upper
            <4>1. PICK s \in page : TRUE
                BY <2>2
            <4>2. table[s].seq \in Numbers
                OBVIOUS
            <4>3. \A t \in page : table[t].seq \in 1..upper
                BY <1>1, <1>2
            <4> QED
                BY <4>2, <4>3
        <3>2. PICK m \in Numbers : \A k \in Numbers : k <= m
            <4> HIDE DEF Numbers
            <4> QED
                BY <3>1, GreatestNumber
        <3>3. PICK s \in page : m = table[s].seq
            BY <3>2
        <3>4. page \ {s} \in SUBSET below(s)
            <4>1. \A t \in page : t \in found /\ table[t].seq <= table[s].seq
                BY <1>1, <3>2, <3>3
            <4>2. \A t \in page \ {s} : table[t].seq < table[s].seq
                BY <1>2, <4>1
            <4> QED
                BY <4>1, <4>2
        <3>5. s \in found /\ Cardinality(below(s)) < limit
            BY <1>1
        <3>6. Cardinality(page \ {s}) <= Cardinality(below(s))
            BY <1>4, <3>4, <3>5, FS_Subset
        <3>7. Cardinality(page \ {s}) = Cardinality(page) - 1
            BY <1>6, FS_RemoveElement
        <3>8. Cardinality(below(s)) \in Nat
            BY <1>4, <3>5
        <3> HIDE DEF below
        <3> QED
            BY <1>6, <3>5, <3>6, <3>7, <3>8
    <2> QED
        BY <2>1, <2>2
\* The first key that is left out has the whole page before it.
<1>8. ASSUME page # found PROVE Cardinality(page) = limit
    <2> DEFINE Numbers == {table[s].seq : s \in found \ page}
    <2>1. Numbers \subseteq Nat /\ Numbers # {}
        <3>1. PICK s \in found : s \notin page
            BY <1>1, <1>8
        <3>2. table[s].seq \in Numbers
            BY <3>1
        <3>3. Numbers \subseteq Nat
            BY <1>2
        <3> QED
            BY <3>2, <3>3
    <2>2. PICK m \in Numbers : \A k \in Numbers : m <= k
        <3> HIDE DEF Numbers
        <3> QED
            BY <2>1, LeastNumber
    <2>3. PICK s \in found \ page : m = table[s].seq
        BY <2>2
    <2>4. ~ (Cardinality(below(s)) < limit)
        BY <1>1, <2>3
    <2>5. below(s) \subseteq page
        BY <1>2, <2>2, <2>3
    <2>6. Cardinality(below(s)) <= Cardinality(page)
        BY <1>6, <2>5, FS_Subset
    <2>7. Cardinality(below(s)) \in Nat
        BY <1>4
    <2> HIDE DEF below
    <2> QED
        BY <1>6, <1>7, <2>4, <2>6, <2>7
<1> QED
    BY <1>1, <1>5, <1>8 DEF found, page

\* max_sequence() is a number at or above every registered one.
LEMMA MaxSequenceFacts ==
    ASSUME NEW table, NEW n \in Nat,
           \A s \in DOMAIN table : table[s].seq \in 0..n
    PROVE  /\ MaxSequence(table) \in Nat
           /\ \A s \in DOMAIN table : table[s].seq <= MaxSequence(table)
<1> DEFINE numbers == {table[s].seq : s \in DOMAIN table} \cup {0}
<1>1. numbers \subseteq Nat /\ numbers # {} /\ \A k \in numbers : k <= n
    OBVIOUS
<1>2. MaxSequence(table) = CHOOSE k \in numbers : \A m \in numbers : m <= k
    BY DEF MaxSequence
<1>3. \A s \in DOMAIN table : table[s].seq \in numbers
    OBVIOUS
<1> HIDE DEF numbers
<1>4. \E k \in numbers : \A m \in numbers : m <= k
    BY <1>1, GreatestNumber
<1> QED
    BY <1>1, <1>2, <1>3, <1>4
================================================================================
