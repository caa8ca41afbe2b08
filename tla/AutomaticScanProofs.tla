-------------------------- MODULE AutomaticScanProofs --------------------------
(***************************************************************************)
(* Proofs about AutomaticScan, for every set of scopes, every page size    *)
(* and every bound.                                                        *)
(***************************************************************************)
EXTENDS AutomaticScan, ProcessingIntentsProofs, FiniteSetTheorems, TLAPS

\* Registered scopes have numbers of their own, that were handed out.
RowsNumbered ==
    /\ \A s \in Scopes : /\ ~ Registered(intent[s]) => intent[s] = Absent
                         /\ intent[s].seq <= sequence
    /\ \A s, t \in Scopes :
          Registered(intent[s]) /\ intent[s].seq = intent[t].seq => s = t

\* Marks and the memory are of scans that have started.
MarksKnown ==
    /\ \A s \in Scopes : intent[s].lastScan <= binding.generation
    /\ memory.generation <= binding.generation

\* What this scan has added to a scope, it has marked there.
AdmissionsMarked ==
    \A s \in Scopes :
        \/ admissions[s] = 0
        \/ admissions[s] = 1 /\ intent[s].lastScan = binding.generation

\* A member the scan still owes is one that the pages to come will find: dirty,
\* inside the scan's range, behind the position the memory has, and unmarked.
OwedAhead ==
    \A s \in owed :
        /\ Registered(intent[s]) /\ Dirty(intent[s])
        /\ intent[s].seq <= binding.upper
        /\ intent[s].lastScan < binding.generation
        /\ memory.generation = binding.generation => memory.after < intent[s].seq

\* The inductive invariant.
ScanInv ==
    /\ TypeOK
    /\ RowsNumbered
    /\ MarksKnown
    /\ AdmissionsMarked
    /\ OwedAhead
    /\ FinishedScanOwesNothing

--------------------------------------------------------------------------------
(* The rows, the scan's state and its pages.                               *)

\* The fields of the rows and of the scan's state.
LEMMA ScanTypes ==
    ASSUME TypeOK
    PROVE  /\ \A s \in Scopes :
                 /\ intent[s] \in IntentRows
                 /\ intent[s].seq \in Nat /\ intent[s].dirty \in Nat
                 /\ intent[s].clean \in Nat /\ intent[s].requested \in Nat
                 /\ intent[s].handled \in Nat /\ intent[s].lastScan \in Nat
                 /\ admissions[s] \in Nat
           /\ binding.generation \in Nat /\ binding.upper \in Nat
           /\ binding.inProgress \in BOOLEAN
           /\ memory.generation \in Nat /\ memory.after \in Nat
           /\ sequence \in Nat
BY RowFacts DEF TypeOK

\* start_scan() takes the next generation and a range with every registered
\* scope; a scan in progress goes on as it is.
LEMMA ScanStateFacts ==
    ASSUME TypeOK, RowsNumbered
    PROVE  /\ ScanState \in [generation : Nat, inProgress : BOOLEAN, upper : Nat]
           /\ Starting => /\ ScanState.generation = binding.generation + 1
                          /\ \A s \in Scopes : intent[s].seq <= ScanState.upper
           /\ ~ Starting => ScanState = binding
           /\ PageAfter \in Nat
           /\ PageAfter = 0 \/ (/\ ~ Starting /\ memory.generation = binding.generation
                               /\ PageAfter = memory.after)
<1>1. /\ DOMAIN intent = Scopes
      /\ \A s \in Scopes : intent[s].seq \in 0..sequence
      /\ sequence \in Nat
    BY ScanTypes DEF TypeOK, RowsNumbered
<1>2. /\ MaxSequence(intent) \in Nat
      /\ \A s \in Scopes : intent[s].seq <= MaxSequence(intent)
    BY <1>1, MaxSequenceFacts
<1>3. /\ ScanState \in [generation : Nat, inProgress : BOOLEAN, upper : Nat]
      /\ Starting => /\ ScanState.generation = binding.generation + 1
                     /\ \A s \in Scopes : intent[s].seq <= ScanState.upper
      /\ ~ Starting => ScanState = binding
    BY <1>2, ScanTypes DEF ScanState, TypeOK
<1> QED
    BY <1>3, ScanTypes DEF PageAfter

\* A page holds dirty scopes of the scan's range behind the position, with each
\* one all that come before it, and all of them if it is the last page.
LEMMA RowsFacts ==
    ASSUME TypeOK, RowsNumbered, NEW limit \in 1..PageSize
    PROVE  /\ \A s \in PageRows(limit) :
                 s \in Scopes /\ Registered(intent[s]) /\ Dirty(intent[s])
           /\ \A s \in PageRows(limit), t \in Scopes :
                 (/\ Registered(intent[t]) /\ Dirty(intent[t])
                  /\ PageAfter < intent[t].seq /\ intent[t].seq <= ScanState.upper
                  /\ intent[t].seq < intent[s].seq) => t \in PageRows(limit)
           /\ ~ MorePages(PageRows(limit), limit) =>
                 \A t \in Scopes :
                    (/\ Registered(intent[t]) /\ Dirty(intent[t])
                     /\ PageAfter < intent[t].seq /\ intent[t].seq <= ScanState.upper)
                        => t \in PageRows(limit)
<1> DEFINE members == {s \in Scopes : Dirty(intent[s])}
           found == {s \in members : /\ Registered(intent[s])
                                     /\ intent[s].seq > PageAfter
                                     /\ intent[s].seq <= ScanState.upper}
<1>1. limit \in Nat /\ PageAfter \in Nat /\ ScanState.upper \in Nat
    BY PageAssumption, ScanStateFacts
<1>2. /\ \A s \in members : intent[s].seq \in Nat
      /\ \A s, t \in members :
            Registered(intent[s]) /\ intent[s].seq = intent[t].seq => s = t
    BY ScanTypes DEF RowsNumbered
<1>3. PageRows(limit) = ScanPage(intent, members, PageAfter, ScanState.upper, limit)
    BY DEF PageRows
<1> HIDE DEF members
<1>4. /\ PageRows(limit) \subseteq found
      /\ \A s \in PageRows(limit), t \in found :
            intent[t].seq < intent[s].seq => t \in PageRows(limit)
      /\ Cardinality(PageRows(limit)) # limit => PageRows(limit) = found
    BY <1>1, <1>2, <1>3, PageFacts
<1>5. \A t : t \in found <=> (/\ t \in Scopes
                              /\ Registered(intent[t]) /\ Dirty(intent[t])
                              /\ intent[t].seq > PageAfter
                              /\ intent[t].seq <= ScanState.upper)
    BY DEF members
<1>6. \A t \in Scopes : intent[t].seq > PageAfter <=> PageAfter < intent[t].seq
    BY <1>1, ScanTypes
<1> HIDE DEF found
<1> QED
    BY <1>4, <1>5, <1>6 DEF MorePages

\* The position after a page: its last number, or the old position.
LEMMA LastFacts ==
    ASSUME TypeOK, RowsNumbered, NEW rows, rows \subseteq Scopes
    PROVE  /\ LastSequence(rows) \in Nat
           /\ \/ rows = {} /\ LastSequence(rows) = PageAfter
              \/ \E s \in rows : LastSequence(rows) = intent[s].seq
<1>1. CASE rows = {}
    BY <1>1, ScanStateFacts DEF LastSequence
<1>2. CASE rows # {}
    <2> DEFINE Numbers == {intent[s].seq : s \in rows}
    <2>1. LastSequence(rows) = CHOOSE n \in Numbers : \A s \in rows : intent[s].seq <= n
        BY <1>2 DEF LastSequence
    <2>2. PICK s \in rows : TRUE
        BY <1>2
    <2>3. intent[s].seq \in Numbers
        OBVIOUS
    <2>4. /\ Numbers \subseteq Nat /\ Numbers # {}
          /\ \A k \in Numbers : k <= sequence
        BY <2>3, ScanTypes DEF RowsNumbered
    <2>5. \E n \in Numbers : \A k \in Numbers : k <= n
        <3> HIDE DEF Numbers
        <3> QED
            BY <2>4, ScanTypes, GreatestNumber
    <2>6. \E n \in Numbers : \A t \in rows : intent[t].seq <= n
        BY <2>5
    <2>7. LastSequence(rows) \in Numbers
        <3> HIDE DEF Numbers
        <3> QED
            BY <2>1, <2>6
    <2> QED
        BY <2>4, <2>7
<1> QED
    BY <1>1, <1>2

--------------------------------------------------------------------------------
(* Steps.                                                                  *)

\* A transaction on one row that takes the next number if the row is new, and
\* cleans nothing.
LEMMA RowStep ==
    ASSUME ScanInv, NEW s \in Scopes, NEW row \in IntentRows,
           intent' = [intent EXCEPT ![s] = row],
           sequence' = SequenceAfter(intent[s], sequence),
           Registered(row),
           row.seq = IF Registered(intent[s]) THEN intent[s].seq ELSE sequence + 1,
           row.lastScan = intent[s].lastScan,
           Dirty(intent[s]) => Dirty(row),
           UNCHANGED <<binding, due, enabled, memory, busy, restarts, owed, admissions>>
    PROVE  ScanInv'
<1>t. TypeOK /\ RowsNumbered /\ MarksKnown /\ AdmissionsMarked /\ OwedAhead
      /\ FinishedScanOwesNothing
    BY DEF ScanInv
<1>1. /\ \A t \in Scopes : intent'[t] = IF t = s THEN row ELSE intent[t]
      /\ row.seq \in Nat
    BY <1>t, RowFacts DEF TypeOK
<1>2. /\ sequence \in Nat
      /\ sequence' \in Nat
      /\ sequence' = IF Registered(intent[s]) THEN sequence ELSE sequence + 1
    BY <1>t, ScanTypes, SequenceAfterFacts
<1>3. TypeOK'
    BY <1>t, <1>2 DEF TypeOK
<1>4. RowsNumbered'
    <2>1. \A t \in Scopes : intent[t].seq \in Nat /\ intent[t].seq <= sequence
        BY <1>t, ScanTypes DEF RowsNumbered
    <2>2. \A t \in Scopes : /\ ~ Registered(intent[t])' => intent'[t] = Absent
                            /\ intent'[t].seq <= sequence'
        BY <1>t, <1>1, <1>2, <2>1 DEF RowsNumbered
    <2>3. ASSUME NEW t \in Scopes, NEW u \in Scopes, Registered(intent[t])',
                 intent'[t].seq = intent'[u].seq
          PROVE  t = u
        BY <1>t, <1>1, <1>2, <2>1, <2>3 DEF RowsNumbered, Registered
    <2> QED
        BY <2>2, <2>3 DEF RowsNumbered
<1>5. MarksKnown' /\ AdmissionsMarked'
    BY <1>t, <1>1 DEF MarksKnown, AdmissionsMarked
<1>6. OwedAhead'
    <2>1. \A t \in owed : /\ t \in Scopes
                          /\ Registered(intent[t])' /\ Dirty(intent[t])'
                          /\ intent'[t].seq = intent[t].seq
                          /\ intent'[t].lastScan = intent[t].lastScan
        BY <1>t, <1>1 DEF OwedAhead, TypeOK
    <2> QED
        BY <1>t, <2>1 DEF OwedAhead
<1> QED
    BY <1>t, <1>3, <1>4, <1>5, <1>6 DEF ScanInv, FinishedScanOwesNothing

\* Inputs and explicit requests neither clean a scope nor renumber it.
LEMMA InputSteps ==
    ASSUME ScanInv, NEW s \in Scopes, MarkScopeDirty(s) \/ RequestScope(s)
    PROVE  ScanInv'
<1>1. /\ intent[s] \in IntentRows /\ sequence \in Nat
      /\ ~ Registered(intent[s]) => intent[s] = Absent
      /\ intent \in [Scopes -> IntentRows]
    BY ScanTypes DEF ScanInv, RowsNumbered, TypeOK
<1>2. CASE MarkScopeDirty(s)
    <2> DEFINE row == MarkDirty(intent[s], sequence, 1)
    <2>1. /\ row \in IntentRows /\ Registered(row)
          /\ row.seq = IF Registered(intent[s]) THEN intent[s].seq ELSE sequence + 1
          /\ row.dirty = intent[s].dirty + 1 /\ row.clean = intent[s].clean
          /\ row.lastScan = intent[s].lastScan
        BY <1>1, MarkDirtyFacts
    <2>2. /\ intent' = [intent EXCEPT ![s] = row]
          /\ sequence' = SequenceAfter(intent[s], sequence)
          /\ UNCHANGED <<binding, due, enabled, memory, busy, restarts, owed, admissions>>
        BY <1>1, <1>2 DEF MarkScopeDirty
    <2> HIDE DEF row
    <2>3. Dirty(intent[s]) => Dirty(row)
        BY <1>1, <2>1, RowFacts DEF Dirty
    <2> QED
        BY <2>1, <2>2, <2>3, RowStep
<1>3. CASE RequestScope(s)
    <2> DEFINE row == AcceptRequest(intent[s], sequence)
    <2>1. /\ row \in IntentRows /\ Registered(row)
          /\ row.seq = IF Registered(intent[s]) THEN intent[s].seq ELSE sequence + 1
          /\ row.dirty = intent[s].dirty /\ row.clean = intent[s].clean
          /\ row.lastScan = intent[s].lastScan
        BY <1>1, AcceptRequestFacts
    <2>2. /\ intent' = [intent EXCEPT ![s] = row]
          /\ sequence' = SequenceAfter(intent[s], sequence)
          /\ UNCHANGED <<binding, due, enabled, memory, busy, restarts, owed, admissions>>
        BY <1>1, <1>3 DEF RequestScope
    <2> HIDE DEF row
    <2> QED
        BY <2>1, <2>2, RowStep DEF Dirty
<1> QED
    BY <1>2, <1>3

\* An acknowledgement that cleans a scope takes it off what the scan owes.
LEMMA AcknowledgedStep ==
    ASSUME ScanInv, NEW s \in Scopes, NEW g \in 1..intent[s].requested,
           NEW c \in {0, intent[s].dirty}, Acknowledged(s, g, c)
    PROVE  ScanInv'
<1>t. TypeOK /\ RowsNumbered /\ MarksKnown /\ AdmissionsMarked /\ OwedAhead
      /\ FinishedScanOwesNothing
    BY DEF ScanInv
<1>1. /\ intent[s] \in IntentRows /\ g \in Nat /\ c \in Nat
      /\ intent \in [Scopes -> IntentRows]
    BY <1>t, ScanTypes DEF TypeOK
<1> DEFINE row == Acknowledge(intent[s], g, c)
<1>2. /\ row \in IntentRows /\ row.seq = intent[s].seq
      /\ row.lastScan = intent[s].lastScan
    BY <1>1, AcknowledgeFacts DEF Acknowledged
<1>3. /\ intent' = [intent EXCEPT ![s] = row]
      /\ busy' = busy \ {s}
      /\ owed' = IF Dirty(intent'[s]) THEN owed ELSE owed \ {s}
      /\ UNCHANGED <<sequence, binding, due, enabled, memory, restarts, admissions>>
      /\ Registered(intent[s])
    BY <1>1 DEF Acknowledged, AcknowledgeAllowed
<1> HIDE DEF row
<1>4. \A t \in Scopes : /\ intent'[t].seq = intent[t].seq
                        /\ intent'[t].lastScan = intent[t].lastScan
                        /\ t # s => intent'[t] = intent[t]
    BY <1>1, <1>2, <1>3
<1>5. TypeOK'
    BY <1>t, <1>2, <1>3 DEF TypeOK
<1>6. RowsNumbered'
    BY <1>t, <1>3, <1>4 DEF RowsNumbered, Registered
<1>7. MarksKnown' /\ AdmissionsMarked'
    BY <1>t, <1>3, <1>4 DEF MarksKnown, AdmissionsMarked
<1>8. \A t \in owed' : /\ t \in owed /\ t \in Scopes
                       /\ Dirty(intent[t])'
    BY <1>t, <1>3, <1>4 DEF OwedAhead, TypeOK
<1>9. OwedAhead'
    BY <1>t, <1>3, <1>4, <1>8 DEF OwedAhead, Registered
<1>10. FinishedScanOwesNothing'
    BY <1>t, <1>3 DEF FinishedScanOwesNothing
<1> QED
    BY <1>5, <1>6, <1>7, <1>9, <1>10 DEF ScanInv

\* Steps of the supervisor and the schedule that touch no row.
LEMMA PlainSteps ==
    ASSUME ScanInv,
           \/ \E s \in Scopes : QueueRequested(s) \/ LeaveBusy(s)
           \/ ScheduleFires \/ EndDisabledScan \/ LoseTerm \/ UNCHANGED vars
    PROVE  ScanInv'
<1>t. TypeOK /\ RowsNumbered /\ MarksKnown /\ AdmissionsMarked /\ OwedAhead
      /\ FinishedScanOwesNothing
    BY DEF ScanInv
<1>1. ASSUME UNCHANGED <<intent, sequence, binding, memory, owed, admissions>>, TypeOK'
      PROVE  ScanInv'
    BY <1>t, <1>1
    DEF ScanInv, RowsNumbered, MarksKnown, AdmissionsMarked, OwedAhead,
        FinishedScanOwesNothing
<1>2. ASSUME NEW s \in Scopes, QueueRequested(s) \/ LeaveBusy(s) PROVE ScanInv'
    BY <1>t, <1>1, <1>2 DEF QueueRequested, LeaveBusy, TypeOK
<1>3. CASE ScheduleFires \/ UNCHANGED vars
    BY <1>t, <1>1, <1>3 DEF ScheduleFires, vars, TypeOK
<1>4. CASE EndDisabledScan
    <2>1. /\ UNCHANGED <<intent, sequence, due, enabled, busy, restarts, admissions>>
          /\ binding' = [binding EXCEPT !.inProgress = FALSE]
          /\ memory' = [memory EXCEPT !.after = 0]
          /\ owed' = {}
        BY <1>4 DEF EndDisabledScan
    <2>2. TypeOK'
        BY <1>t, <2>1 DEF TypeOK
    <2>3. /\ binding'.generation = binding.generation
          /\ memory'.generation = memory.generation
        BY <1>t, <2>1 DEF TypeOK
    <2> QED
        BY <1>t, <2>1, <2>2, <2>3
        DEF ScanInv, RowsNumbered, MarksKnown, AdmissionsMarked, OwedAhead,
            FinishedScanOwesNothing
<1>5. CASE LoseTerm
    <2>1. /\ UNCHANGED <<intent, sequence, binding, due, owed, admissions>>
          /\ memory'.generation = 0 /\ memory'.after = 0
          /\ memory' \in [generation : Nat, after : Nat]
          /\ busy' = {} /\ enabled' \in BOOLEAN /\ restarts' = restarts + 1
        BY <1>5 DEF LoseTerm, NoMemory
    <2>2. TypeOK'
        BY <1>t, <2>1 DEF TypeOK
    <2>3. MarksKnown'
        BY <1>t, <2>1, ScanTypes DEF MarksKnown
    <2>4. OwedAhead'
        BY <1>t, <2>1 DEF OwedAhead, Registered, TypeOK
    <2> QED
        BY <1>t, <2>1, <2>2, <2>3, <2>4
        DEF ScanInv, RowsNumbered, AdmissionsMarked, FinishedScanOwesNothing
<1> QED
    BY <1>2, <1>3, <1>4, <1>5

\* What a page does to the rows: an admitted scope had no mark of this scan,
\* gets it, and at most one request; the others stay as they are.
LEMMA PageAdmits ==
    ASSUME TypeOK, MarksKnown, RowsNumbered, NEW admitted,
           NEW rows, rows \subseteq Scopes, admitted \subseteq Candidates(rows),
           intent' = [s \in Scopes |->
                         IF s \in admitted
                         THEN Admit(intent[s], ScanState.generation)
                         ELSE intent[s]]
    PROVE  \A s \in Scopes :
              /\ intent'[s] \in IntentRows
              /\ intent'[s].seq = intent[s].seq
              /\ intent'[s].dirty = intent[s].dirty
              /\ intent'[s].clean = intent[s].clean
              /\ s \notin admitted => intent'[s] = intent[s]
              /\ s \in admitted =>
                    /\ intent[s].lastScan < ScanState.generation
                    /\ intent'[s].lastScan = ScanState.generation
                    /\ \/ intent'[s].requested = intent[s].requested
                       \/ intent'[s].requested = intent[s].requested + 1
<1> SUFFICES ASSUME NEW s \in Scopes
             PROVE  /\ intent'[s] \in IntentRows
                    /\ intent'[s].seq = intent[s].seq
                    /\ intent'[s].dirty = intent[s].dirty
                    /\ intent'[s].clean = intent[s].clean
                    /\ s \notin admitted => intent'[s] = intent[s]
                    /\ s \in admitted =>
                          /\ intent[s].lastScan < ScanState.generation
                          /\ intent'[s].lastScan = ScanState.generation
                          /\ \/ intent'[s].requested = intent[s].requested
                             \/ intent'[s].requested = intent[s].requested + 1
    OBVIOUS
<1>1. CASE s \notin admitted
    BY <1>1, ScanTypes
<1>2. CASE s \in admitted
    <2>1. intent[s].lastScan # ScanState.generation
        BY <1>2 DEF Candidates
    <2>2. /\ intent[s].lastScan \in Nat /\ ScanState.generation \in Nat
          /\ intent[s].lastScan <= ScanState.generation
          /\ intent[s] \in IntentRows
        BY ScanTypes, ScanStateFacts DEF MarksKnown
    <2>3. intent[s].lastScan < ScanState.generation
        BY <2>1, <2>2
    <2>4. intent'[s] = Admit(intent[s], ScanState.generation)
        BY <1>2
    <2> QED
        BY <1>2, <2>2, <2>3, <2>4, AdmitFacts
<1> QED
    BY <1>1, <1>2

\* One page, the start and the end of its scan included: what is still owed
\* lies behind the page, and a last page leaves nothing.
LEMMA DiscoverStep ==
    ASSUME ScanInv, NEW limit \in 1..PageSize, NEW denied, NEW p \in BOOLEAN,
           DiscoverAutomatic(limit, denied, p)
    PROVE  ScanInv'
<1>t. TypeOK /\ RowsNumbered /\ MarksKnown /\ AdmissionsMarked /\ OwedAhead
      /\ FinishedScanOwesNothing
    BY DEF ScanInv
<1> DEFINE rows == PageRows(limit)
           admitted == Candidates(rows) \ denied
           more == MorePages(rows, limit)
           members == IF Starting
                      THEN {s \in Scopes : Registered(intent[s]) /\ Dirty(intent[s])}
                      ELSE owed
           counted(s) == IF Starting THEN 0 ELSE admissions[s]
<1>1. /\ ScanState.inProgress
      /\ denied \subseteq Candidates(rows)
      /\ intent' = [s \in Scopes |->
                       IF s \in admitted
                       THEN Admit(intent[s], ScanState.generation)
                       ELSE intent[s]]
      /\ binding' = [ScanState EXCEPT !.inProgress = more]
      /\ due' = (due /\ ~ Starting)
      /\ \/ /\ memory' = [generation |-> ScanState.generation,
                           after |-> IF more THEN LastSequence(rows) ELSE 0]
            /\ busy' = busy \cup admitted
         \/ UNCHANGED <<memory, busy>>
      /\ owed' = members \ (admitted \cup denied \cup (rows \cap busy))
      /\ admissions' = [s \in Scopes |->
                           counted(s) + intent'[s].requested - intent[s].requested]
      /\ UNCHANGED <<sequence, enabled, restarts>>
    BY DEF DiscoverAutomatic
<1>2. /\ rows \subseteq Scopes
      /\ \A s \in rows : Registered(intent[s]) /\ Dirty(intent[s])
      /\ \A s \in rows, t \in Scopes :
            (/\ Registered(intent[t]) /\ Dirty(intent[t])
             /\ PageAfter < intent[t].seq /\ intent[t].seq <= ScanState.upper
             /\ intent[t].seq < intent[s].seq) => t \in rows
      /\ ~ more =>
            \A t \in Scopes :
               (/\ Registered(intent[t]) /\ Dirty(intent[t])
                /\ PageAfter < intent[t].seq /\ intent[t].seq <= ScanState.upper)
                   => t \in rows
    BY <1>t, RowsFacts
<1>3. /\ LastSequence(rows) \in Nat
      /\ \/ rows = {} /\ LastSequence(rows) = PageAfter
         \/ \E s \in rows : LastSequence(rows) = intent[s].seq
    BY <1>t, <1>2, LastFacts
<1>4. more \in BOOLEAN
    BY DEF MorePages
<1>5. /\ ScanState \in [generation : Nat, inProgress : BOOLEAN, upper : Nat]
      /\ Starting => /\ ScanState.generation = binding.generation + 1
                     /\ \A s \in Scopes : intent[s].seq <= ScanState.upper
      /\ ~ Starting => ScanState = binding
      /\ PageAfter \in Nat
      /\ PageAfter = 0 \/ (/\ ~ Starting /\ memory.generation = binding.generation
                          /\ PageAfter = memory.after)
    BY <1>t, ScanStateFacts
<1>6. \A s \in Scopes :
          /\ intent'[s] \in IntentRows
          /\ intent'[s].seq = intent[s].seq
          /\ intent'[s].dirty = intent[s].dirty
          /\ intent'[s].clean = intent[s].clean
          /\ s \notin admitted => intent'[s] = intent[s]
          /\ s \in admitted =>
                /\ intent[s].lastScan < ScanState.generation
                /\ intent'[s].lastScan = ScanState.generation
                /\ \/ intent'[s].requested = intent[s].requested
                   \/ intent'[s].requested = intent[s].requested + 1
    BY <1>t, <1>1, <1>2, PageAdmits
<1>7. \A s \in rows : s \in admitted \/ s \in denied \/ s \in busy
                       \/ intent[s].lastScan = ScanState.generation
    BY DEF Candidates
<1>8. admitted \subseteq Scopes
    BY <1>2 DEF Candidates
<1> HIDE DEF rows, admitted, more
<1>9. /\ binding'.generation = ScanState.generation
      /\ binding'.upper = ScanState.upper
      /\ binding'.inProgress = more
      /\ binding' \in [generation : Nat, inProgress : BOOLEAN, upper : Nat]
      /\ ScanState.generation \in Nat /\ ScanState.upper \in Nat
    BY <1>1, <1>4, <1>5
<1>n. /\ \A s \in Scopes :
            /\ intent[s].seq \in Nat /\ intent[s].requested \in Nat
            /\ intent[s].lastScan \in Nat /\ admissions[s] \in Nat
            /\ intent[s].lastScan <= binding.generation
      /\ binding.generation \in Nat /\ memory.generation \in Nat
      /\ memory.generation <= binding.generation /\ memory.after \in Nat
    BY <1>t, ScanTypes DEF MarksKnown
<1>g. ScanState.generation >= binding.generation
    BY <1>5, <1>n
<1>a. \A s \in Scopes :
          /\ admissions'[s] \in Nat
          /\ \/ admissions'[s] = 0
             \/ admissions'[s] = 1 /\ intent'[s].lastScan = binding'.generation
    <2> SUFFICES ASSUME NEW s \in Scopes
                 PROVE  \/ admissions'[s] = 0
                        \/ admissions'[s] = 1 /\ intent'[s].lastScan = binding'.generation
        OBVIOUS
    <2>1. admissions'[s] = counted(s) + intent'[s].requested - intent[s].requested
        BY <1>1
    <2>2. counted(s) = 0 \/ (/\ counted(s) = 1 /\ ScanState = binding
                             /\ intent[s].lastScan = ScanState.generation)
        BY <1>t, <1>5 DEF AdmissionsMarked
    <2> HIDE DEF counted
    <2>3. CASE s \in admitted
        BY <1>6, <1>9, <1>n, <2>1, <2>2, <2>3
    <2>4. CASE s \notin admitted
        BY <1>6, <1>9, <1>n, <2>1, <2>2, <2>4
    <2> QED
        BY <2>3, <2>4
<1>m. /\ memory' \in [generation : Nat, after : Nat]
      /\ busy' \subseteq Scopes
      /\ \/ /\ memory'.generation = ScanState.generation
            /\ memory'.after = IF more THEN LastSequence(rows) ELSE 0
         \/ memory' = memory
    BY <1>t, <1>1, <1>3, <1>4, <1>8, <1>9 DEF TypeOK
<1>o. ASSUME NEW s \in owed'
      PROVE  /\ s \in Scopes /\ s \in members
             /\ Registered(intent[s]) /\ Dirty(intent[s])
             /\ intent[s].seq <= ScanState.upper
             /\ intent[s].lastScan < ScanState.generation
             /\ PageAfter < intent[s].seq
             /\ s \notin rows /\ s \notin admitted
    <2>1. s \in members /\ s \notin admitted /\ s \notin denied /\ s \notin rows \cap busy
        BY <1>1
    <2>2. CASE Starting
        <3>1. s \in Scopes /\ Registered(intent[s]) /\ Dirty(intent[s])
            BY <2>1, <2>2
        <3>2. intent[s].lastScan < ScanState.generation /\ intent[s].seq <= ScanState.upper
            BY <1>5, <1>n, <2>2, <3>1
        <3>3. PageAfter < intent[s].seq
            BY <1>5, <2>2, <3>1 DEF Registered
        <3>4. s \notin rows
            BY <1>7, <1>9, <1>n, <2>1, <3>1, <3>2
        <3> QED
            BY <2>1, <3>1, <3>2, <3>3, <3>4
    <2>3. CASE ~ Starting
        <3>1. /\ s \in Scopes /\ Registered(intent[s]) /\ Dirty(intent[s])
              /\ intent[s].lastScan < ScanState.generation
              /\ intent[s].seq <= ScanState.upper
              /\ memory.generation = binding.generation => memory.after < intent[s].seq
            BY <1>t, <1>5, <2>1, <2>3 DEF OwedAhead, TypeOK
        <3>2. PageAfter < intent[s].seq
            BY <1>5, <3>1 DEF Registered
        <3>3. s \notin rows
            BY <1>7, <1>9, <1>n, <2>1, <3>1
        <3> QED
            BY <2>1, <3>1, <3>2, <3>3
    <2> QED
        BY <2>2, <2>3
<1>10. FinishedScanOwesNothing'
    BY <1>2, <1>9, <1>o DEF FinishedScanOwesNothing
<1>11. OwedAhead'
    <2> SUFFICES ASSUME NEW s \in owed'
                 PROVE  /\ Registered(intent[s])' /\ Dirty(intent[s])'
                        /\ intent'[s].seq <= binding'.upper
                        /\ intent'[s].lastScan < binding'.generation
                        /\ memory'.generation = binding'.generation
                               => memory'.after < intent'[s].seq
        BY DEF OwedAhead
    <2>1. intent'[s] = intent[s] /\ s \in Scopes
        BY <1>6, <1>o
    <2>2. /\ Registered(intent[s])' /\ Dirty(intent[s])'
          /\ intent'[s].seq <= binding'.upper
          /\ intent'[s].lastScan < binding'.generation
        BY <1>9, <1>o, <2>1
    <2>3. ASSUME memory'.generation = ScanState.generation,
                 memory'.after = IF more THEN LastSequence(rows) ELSE 0
          PROVE  memory'.after < intent[s].seq
        <3>1. more
            BY <1>9, <1>10 DEF FinishedScanOwesNothing
        <3>2. CASE LastSequence(rows) = PageAfter
            BY <1>o, <2>3, <3>1, <3>2
        <3>3. ASSUME NEW t \in rows, LastSequence(rows) = intent[t].seq
              PROVE  LastSequence(rows) < intent[s].seq
            <4>1. ~ (intent[s].seq < intent[t].seq) /\ t \in Scopes
                BY <1>2, <1>o
            <4>2. intent[s].seq # intent[t].seq
                BY <1>t, <1>o, <4>1 DEF RowsNumbered
            <4> QED
                BY <1>n, <2>1, <3>3, <4>1, <4>2
        <3> QED
            BY <1>3, <2>3, <3>1, <3>2, <3>3
    <2>4. ASSUME memory' = memory, memory'.generation = ScanState.generation
          PROVE  memory'.after < intent[s].seq
        <3>1. ~ Starting /\ ScanState = binding
            BY <1>5, <1>n, <2>4
        <3>2. s \in owed
            BY <1>o, <3>1
        <3> QED
            BY <1>t, <2>4, <3>1, <3>2 DEF OwedAhead
    <2> QED
        BY <1>9, <1>m, <2>1, <2>2, <2>3, <2>4
<1>12. MarksKnown'
    <2>1. \A s \in Scopes : intent'[s].lastScan <= binding'.generation
        <3> SUFFICES ASSUME NEW s \in Scopes
                     PROVE  intent'[s].lastScan <= binding'.generation
            OBVIOUS
        <3>1. CASE s \in admitted
            BY <1>6, <1>9, <3>1
        <3>2. CASE s \notin admitted
            BY <1>6, <1>9, <1>n, <1>g, <3>2
        <3> QED
            BY <3>1, <3>2
    <2>2. memory'.generation <= binding'.generation
        BY <1>9, <1>m, <1>n, <1>g
    <2> QED
        BY <2>1, <2>2 DEF MarksKnown
<1>13. RowsNumbered'
    <2>1. UNCHANGED sequence
        BY <1>1
    <2>2. \A s \in Scopes : Registered(intent[s])' <=> Registered(intent[s])
        BY <1>6 DEF Registered
    <2>3. \A s \in admitted : Registered(intent[s])
        BY <1>2 DEF Candidates, admitted
    <2> QED
        BY <1>t, <1>6, <2>1, <2>2, <2>3 DEF RowsNumbered
<1>14. TypeOK'
    <2>1. intent' \in [Scopes -> IntentRows]
        BY <1>1, <1>6
    <2>2. admissions' \in [Scopes -> Nat]
        BY <1>1, <1>a
    <2>3. owed' \subseteq Scopes
        BY <1>o
    <2>4. due' \in BOOLEAN
        BY <1>1
    <2> QED
        BY <1>t, <1>1, <1>9, <1>m, <2>1, <2>2, <2>3, <2>4 DEF TypeOK
<1>15. AdmissionsMarked'
    BY <1>a DEF AdmissionsMarked
<1> QED
    BY <1>10, <1>11, <1>12, <1>13, <1>14, <1>15 DEF ScanInv

--------------------------------------------------------------------------------
(* The theorems.                                                           *)

\* Nobody is registered and no scan has started.
LEMMA InitScan == Init => ScanInv
BY AbsentFacts
DEF Init, ScanInv, TypeOK, RowsNumbered, MarksKnown, AdmissionsMarked, OwedAhead,
    FinishedScanOwesNothing, NoMemory, Absent, Registered

\* Every transaction and every lost term preserves the inductive invariant.
LEMMA NextScan == ScanInv /\ [Next]_vars => ScanInv'
<1> SUFFICES ASSUME ScanInv, [Next]_vars PROVE ScanInv'
    OBVIOUS
<1>1. ASSUME NEW s \in Scopes, MarkScopeDirty(s) \/ RequestScope(s) PROVE ScanInv'
    BY <1>1, InputSteps
<1>2. ASSUME NEW s \in Scopes, NEW g \in 1..intent[s].requested,
             NEW c \in {0, intent[s].dirty}, Acknowledged(s, g, c)
      PROVE  ScanInv'
    BY <1>2, AcknowledgedStep
<1>3. ASSUME NEW limit \in 1..PageSize, NEW denied, NEW p \in BOOLEAN,
             DiscoverAutomatic(limit, denied, p)
      PROVE  ScanInv'
    BY <1>3, DiscoverStep
<1>4. ASSUME \/ \E s \in Scopes : QueueRequested(s) \/ LeaveBusy(s)
             \/ ScheduleFires \/ EndDisabledScan \/ LoseTerm \/ UNCHANGED vars
      PROVE  ScanInv'
    BY <1>4, PlainSteps
<1> QED
    BY <1>1, <1>2, <1>3, <1>4 DEF Next

\* The inductive invariant holds in every reachable state.
THEOREM ScanInvariant == Spec => []ScanInv
BY InitScan, NextScan, PTL DEF Spec

\* Rows, binding state and memory keep their shapes, however often terms are
\* lost and pages are read again.
THEOREM TypeCorrect == Spec => []TypeOK
<1>1. ScanInv => TypeOK
    BY DEF ScanInv
<1> QED
    BY <1>1, ScanInvariant, PTL

\* For any number of scopes and any page size, a scan that is marked finished
\* has admitted, found busy or refused every member that stayed dirty.
THEOREM ScansSkipNobody == Spec => []FinishedScanOwesNothing
<1>1. ScanInv => FinishedScanOwesNothing
    BY DEF ScanInv
<1> QED
    BY <1>1, ScanInvariant, PTL

\* One scan adds at most one request to a scope, however often its pages are
\* read again after lost answers and lost terms.
THEOREM ScansAdmitOnce == Spec => []AdmittedOncePerScan
<1>1. ScanInv => AdmittedOncePerScan
    BY DEF ScanInv, AdmissionsMarked, AdmittedOncePerScan
<1> QED
    BY <1>1, ScanInvariant, PTL
================================================================================
