------------------------------ MODULE MemoryMerges ------------------------------
(***************************************************************************)
(* The Atomic Memories of one scope: logical Artifacts whose heads are     *)
(* revised, forgotten, merged into a new result and restored               *)
(* (artifacts/merge.py, artifacts/merge_restoration.py, persistence/       *)
(* artifacts.py, persistence/artifact_governance.py), the source windows   *)
(* that change them (runtime/atomic_memory_processing.py, persistence/     *)
(* memory_windows.py) and the Candidates that reviewers approve into them  *)
(* (review/service.py, persistence/candidates.py).                         *)
(*                                                                         *)
(* Each operation inspects the heads in one transaction, prepares without  *)
(* a connection, and commits in a second transaction that locks every head *)
(* it read and compares it.  The writes of a plan are a function of its    *)
(* request and of what it read, so they are computed at the commit, where  *)
(* the reads are known to be current; only what was read is kept between.  *)
(* Content is not kept, but the version of the Candidate it came from is.  *)
(* The fence of a supervised flush is in SourceIncubation; here it is a    *)
(* flush whose commit may not happen.                                      *)
(***************************************************************************)
EXTENDS Integers

CONSTANTS Items,        \* artifact ids
          Seeds,        \* the ids that exist at first, each at revision 1
          None,         \* no artifact id
          Ops,          \* operations that may be under way at a time
          Cands,        \* candidate ids
          WindowLimit,  \* limit of a flush
          MaxRows,      \* bound: sources appended
          MaxVersion,   \* bound: versions of a Candidate
          MaxCommits,   \* bound: commits that change Artifacts
          MaxMixed      \* the same where not all callers are clients

ASSUME ItemAssumption == Seeds \subseteq Items /\ None \notin Items
ASSUME WindowAssumption == WindowLimit \in Nat \ {0} /\ MaxRows \in Nat
ASSUME BoundAssumption == MaxVersion \in Nat \ {0} /\ {MaxCommits, MaxMixed} \subseteq Nat

VARIABLES
    role,     \* role[p]: the caller that p is
    head,     \* head[a]: the row of artifact_heads, and the marked merge inputs
    op,       \* op[p]: an operation between its inspection and its commit
    cand,     \* cand[c]: the Candidate's head
    rows,     \* head of the source journal
    cursor,   \* the Memory source cursor, with its CAS generation
    hint,     \* the row of memory_source_windows; limit 0 is no row
    commits,  \* number of commits; bound
    born,     \* history: born[a], the commit that created a
    applied   \* history: applied[i], publications that covered source i

vars == <<role, head, op, cand, rows, cursor, hint, commits, born, applied>>

Missing == [rev |-> 0, gen |-> 0, state |-> "none", into |-> None, inputs |-> {}]

Created(inputs) == [rev |-> 1, gen |-> 0, state |-> "active", into |-> None, inputs |-> inputs]

\* as_read() of a head: exact revision, lifecycle, state version and relation.
ReadOf(a) == [rev |-> head[a].rev, gen |-> head[a].gen, state |-> head[a].state,
              into |-> head[a].into]

ReadsOf(group) == [a \in group |-> ReadOf(a)]

Idle == [by |-> "nobody", action |-> "none", target |-> None, inputs |-> {},
         reads |-> [a \in {} |-> Missing], cand |-> None, version |-> 0,
         after |-> 0, through |-> 0, gen |-> 0, water |-> 0]

\* A Candidate that has published nothing.
Unpublished(status, version, item, rev) ==
    [status |-> status, version |-> version, item |-> item, rev |-> rev,
     result |-> 0, text |-> 0]

NoCand == Unpublished("none", 0, None, 0)

Init ==
    /\ role \in [Ops -> {"client", "reviewer", "flush"}]
    /\ head = [a \in Items |-> IF a \in Seeds THEN Created({}) ELSE Missing]
    /\ op = [p \in Ops |-> Idle]
    /\ cand = [c \in Cands |-> NoCand]
    /\ rows = 0
    /\ cursor = [seq |-> 0, gen |-> 0]
    /\ hint = [through |-> 0, limit |-> 0]
    /\ commits = 0
    /\ born = [a \in Items |-> 0]
    /\ applied = [i \in 1..MaxRows |-> 0]

--------------------------------------------------------------------------------
(* Merge relations.                                                        *)

Live(a) == head[a].state \in {"active", "deprecated"}

\* Frozen: an input of a merge that is in effect.
Frozen(a) == head[a].into # None

InputIds(r) == {input[1] : input \in head[r].inputs}

Results == {head[x].into : x \in Items} \ {None}

\* Sets of results that have a and are closed under merged_into_id.
Closed(a) ==
    {S \in SUBSET ({a} \cup Results) :
        a \in S /\ \A x \in S : head[x].into \in S \cup {None}}

\* The results that a was merged into, a itself included: the least such set.
Path(a) == LET closed == Closed(a) IN {b \in {a} \cup Results : \A S \in closed : b \in S}

\* Results that a restoration of a retires.
Undone(a, action) == (Path(a) \ {a}) \cup (IF action = "undo" THEN {a} ELSE {})

\* Artifacts that it makes active again.
Released(a, action) ==
    ((UNION {InputIds(r) : r \in Undone(a, action)})
        \cup (IF action = "restore" THEN {a} ELSE {})) \ Undone(a, action)

\* Everything a restoration reads.
Group(a, action) ==
    Path(a) \cup UNION {InputIds(r) : r \in Undone(a, action)}

\* calculate_restoration() and _expand_undo() raise no relation error.
Restorable(a, action) ==
    LET path == Path(a) IN
    /\ Live(a)
    /\ \E e \in path : ~ Frozen(e)
    /\ \A x \in path : Live(x)
    /\ \A r \in Undone(a, action) :
          /\ \E i, j \in InputIds(r) : i # j
          /\ \A x \in path : head[x].into = r => x \in InputIds(r)
          /\ \A input \in head[r].inputs :
                /\ head[input[1]].state = "deprecated"
                /\ head[input[1]].into = r
                /\ head[input[1]].rev = input[2]

--------------------------------------------------------------------------------
(* Writes of a plan, from its request and the heads.                       *)

\* transition_merge() to another state, with a revision of the content or not.
Transition(row, state, into, revised) ==
    [rev |-> row.rev + revised, gen |-> row.gen + 1, state |-> state, into |-> into,
     inputs |-> row.inputs]

Changed(a) == [head EXCEPT ![a].rev = @ + 1]

Forgotten(a) == [head EXCEPT ![a] = Transition(@, "deprecated", None, 0)]

\* Mutated form of Merged: the inputs stay in the working set.
MergedUnfrozen(fresh, inputs) ==
    [a \in Items |->
        IF a = fresh THEN Created({<<i, head[i].rev>> : i \in inputs})
        ELSE IF a \in inputs THEN Transition(head[a], "active", None, 0)
        ELSE head[a]]

\* A new result with its marked inputs, which are frozen into it.
Merged(fresh, inputs) ==
    [a \in Items |->
        IF a = fresh THEN Created({<<i, head[i].rev>> : i \in inputs})
        ELSE IF a \in inputs THEN Transition(head[a], "deprecated", fresh, 0)
        ELSE head[a]]

\* _restoration_writes(): every write makes a new revision.
Restored(a, action) ==
    LET undone == Undone(a, action)
        released == Released(a, action) IN
    [b \in Items |->
        IF b \in undone THEN Transition(head[b], "retired", None, 1)
        ELSE IF b \in released THEN Transition(head[b], "active", None, 1)
        ELSE head[b]]

\* What the commit of a plan leaves in the heads; fresh is its new id.
Outcome(action, target, inputs, fresh) ==
    CASE action = "none"    -> head
      [] action = "create"  -> [head EXCEPT ![fresh] = Created({})]
      [] action = "change"  -> Changed(target)
      [] action = "forget"  -> Forgotten(target)
      [] action = "merge"   -> Merged(fresh, inputs)
      [] OTHER              -> Restored(target, action)

Creates(action) == action \in {"create", "merge"}

Restores(action) == action \in {"restore", "undo"}

--------------------------------------------------------------------------------
(* Requests of clients: change, forget, merge and restore, each with the   *)
(* heads it read.                                                          *)

Busy(p, by, action, target, inputs, group) ==
    op' = [op EXCEPT ![p] = [Idle EXCEPT !.by = by, !.action = action, !.target = target,
                                         !.inputs = inputs, !.reads = ReadsOf(group)]]

\* Mutated form of Editable: a frozen merge input may be edited as well.
EditableFrozen(a) == Live(a)

\* An Artifact that may be changed or forgotten.
Editable(a) == Live(a) /\ ~ Frozen(a)

\* Inputs that inspect_merge() accepts.
Mergeable(inputs) ==
    /\ \E i, j \in inputs : i # j
    /\ \A i \in inputs : head[i].state = "active" /\ ~ Frozen(i)

InspectCreate(p) ==
    /\ op[p] = Idle
    /\ Busy(p, "client", "create", None, {}, {})
    /\ UNCHANGED <<role, head, cand, rows, cursor, hint, commits, born, applied>>

\* A forget of what is forgotten writes nothing and is left out.
InspectEdit(p, a, action) ==
    /\ op[p] = Idle
    /\ Editable(a)
    /\ action = "forget" => head[a].state = "active"
    /\ Busy(p, "client", action, a, {}, {a})
    /\ UNCHANGED <<role, head, cand, rows, cursor, hint, commits, born, applied>>

InspectMerge(p, inputs) ==
    /\ op[p] = Idle
    /\ Mergeable(inputs)
    /\ Busy(p, "client", "merge", None, inputs, inputs)
    /\ UNCHANGED <<role, head, cand, rows, cursor, hint, commits, born, applied>>

\* The first transaction of restore(), and all of preview_restoration(), whose
\* token keeps just the endpoint of what is read here.  A restore of an active
\* Artifact writes nothing, or is a change of it to an older text.
InspectRestore(p, a, action) ==
    /\ op[p] = Idle
    /\ action = "restore" => head[a].state = "deprecated"
    /\ Restorable(a, action)
    /\ Busy(p, "client", action, a, {}, Group(a, action))
    /\ UNCHANGED <<role, head, cand, rows, cursor, hint, commits, born, applied>>

CommitBound == IF \A p \in Ops : role[p] = "client" THEN MaxCommits ELSE MaxMixed

\* _check_dependencies() under the locks of the heads.
Current(reads) == \A a \in DOMAIN reads : ReadOf(a) = reads[a]

\* commit_window(): what was read is still there, a restoration is inspected
\* again and must be the same one, and a new Artifact gets an id of its own.
CommitWrites(p) ==
    LET o == op[p] IN
    /\ commits < CommitBound
    /\ Current(o.reads)
    /\ Restores(o.action) =>
          /\ Restorable(o.target, o.action)
          /\ DOMAIN o.reads = Group(o.target, o.action)
    /\ commits' = commits + 1
    /\ IF Creates(o.action)
       THEN \E fresh \in Items :
               /\ head[fresh] = Missing
               /\ head' = Outcome(o.action, o.target, o.inputs, fresh)
               /\ born' = [born EXCEPT ![fresh] = commits + 1]
       ELSE head' = Outcome(o.action, o.target, o.inputs, None) /\ born' = born

Commit(p) ==
    /\ op[p].by = "client"
    /\ CommitWrites(p)
    /\ op' = [op EXCEPT ![p] = Idle]
    /\ UNCHANGED <<role, cand, rows, cursor, hint, applied>>

\* A conflict, an error of a model or a crash; a retry inspects again.
Abandon(p) ==
    /\ op[p] # Idle
    /\ op' = [op EXCEPT ![p] = Idle]
    /\ UNCHANGED <<role, head, cand, rows, cursor, hint, commits, born, applied>>

--------------------------------------------------------------------------------
(* Candidates of Memory Dream and the decisions of reviewers.              *)

\* The target is the exact head at the time; its lifecycle is not looked at.
Propose(c, a) ==
    /\ cand[c] = NoCand
    /\ head[a] # Missing
    /\ cand' = [cand EXCEPT ![c] = Unpublished("pending", 1, a, head[a].rev)]
    /\ UNCHANGED <<role, head, op, rows, cursor, hint, commits, born, applied>>

TargetIsHead(c) == head[cand[c].item].rev = cand[c].rev

ReviseCandidate(c) ==
    /\ cand[c].status = "pending"
    /\ TargetIsHead(c)
    /\ cand[c].version < MaxVersion
    /\ cand' = [cand EXCEPT ![c] = Unpublished("pending", @.version + 1, @.item, @.rev)]
    /\ UNCHANGED <<role, head, op, rows, cursor, hint, commits, born, applied>>

RejectCandidate(c) ==
    /\ cand[c].status = "pending"
    /\ cand' = [cand EXCEPT ![c] = Unpublished("rejected", @.version, @.item, @.rev)]
    /\ UNCHANGED <<role, head, op, rows, cursor, hint, commits, born, applied>>

\* First transaction of _approve_memory_dream().
InspectApprove(p, c) ==
    /\ op[p] = Idle
    /\ cand[c].status = "pending"
    /\ head[cand[c].item].state = "active"
    /\ TargetIsHead(c)
    /\ op' = [op EXCEPT ![p] = [Idle EXCEPT !.by = "reviewer", !.action = "change",
                                            !.target = cand[c].item, !.cand = c,
                                            !.reads = ReadsOf({cand[c].item}),
                                            !.version = cand[c].version]]
    /\ UNCHANGED <<role, head, cand, rows, cursor, hint, commits, born, applied>>

\* Mutated form of LockPending: the version that was reviewed is not compared.
LockPendingAny(c, version) == cand[c].status = "pending"

LockPending(c, version) == cand[c].status = "pending" /\ cand[c].version = version

\* Second transaction: the text that is published is that of the first.
CommitApprove(p) ==
    LET c == op[p].cand IN
    /\ op[p].by = "reviewer"
    /\ TargetIsHead(c)
    /\ LockPending(c, op[p].version)
    /\ CommitWrites(p)
    /\ cand' = [cand EXCEPT ![c] =
                  [status |-> "approved", version |-> @.version, item |-> @.item, rev |-> @.rev,
                   result |-> head[op[p].target].rev + 1, text |-> op[p].version]]
    /\ op' = [op EXCEPT ![p] = Idle]
    /\ UNCHANGED <<role, rows, cursor, hint, applied>>

--------------------------------------------------------------------------------
(* Source windows.                                                         *)

AddSource ==
    /\ rows < MaxRows
    /\ rows' = rows + 1
    /\ UNCHANGED <<role, head, op, cand, cursor, hint, commits, born, applied>>

Least(m, n) == IF m <= n THEN m ELSE n

\* signal(): the configured limit, or less after a reduction not yet consumed.
Limit == IF hint.through > cursor.seq THEN Least(WindowLimit, hint.limit) ELSE WindowLimit

\* First transaction of _flush_once(), with activate() of the trigger.
WindowRead(p) ==
    /\ op[p] = Idle
    /\ rows > cursor.seq
    /\ op' = [op EXCEPT ![p] =
                [Idle EXCEPT !.by = "reading", !.after = cursor.seq, !.gen = cursor.gen,
                             !.through = Least(rows, cursor.seq + Limit), !.water = rows]]
    /\ UNCHANGED <<role, head, cand, rows, cursor, hint, commits, born, applied>>

\* _prepare() and _inspect_decisions(): what the model decides, on the heads at
\* the end of the inspection.  Of a window's decisions one is kept: they write
\* different Artifacts in one transaction.
WindowPlan(p, action, target, inputs, group) ==
    /\ op[p].by = "reading"
    /\ op' = [op EXCEPT ![p] =
                [Idle EXCEPT !.by = "window", !.action = action, !.target = target,
                             !.inputs = inputs, !.reads = ReadsOf(group),
                             !.after = op[p].after, !.through = op[p].through,
                             !.gen = op[p].gen, !.water = op[p].water]]
    /\ UNCHANGED <<role, head, cand, rows, cursor, hint, commits, born, applied>>

\* The write gate holds it, or nothing is worth keeping.
WindowPlanNothing(p) == WindowPlan(p, "none", None, {}, {})

WindowPlanCreate(p) == WindowPlan(p, "create", None, {}, {})

WindowPlanChange(p, a) ==
    /\ Editable(a) /\ head[a].state = "active"
    /\ WindowPlan(p, "change", a, {}, {a})

WindowPlanMerge(p, inputs) ==
    /\ Mergeable(inputs)
    /\ WindowPlan(p, "merge", None, inputs, inputs)

\* Mutated form of CursorUnmoved: the generation of the cursor is not compared.
CursorUnmovedAny(o) == TRUE

\* The compare and set of the cursor's generation.
CursorUnmoved(o) == cursor.gen = o.gen

\* Mutated form of Half: no lower bound.
HalfOrNone(n) == (n - 1) \div 2

Half(n) == IF n \div 2 >= 1 THEN n \div 2 ELSE 1

\* _reduce_window(): the same cursor is saved again under its generation.
WindowReduce(p) ==
    LET o == op[p] IN
    /\ o.by = "reading"
    /\ o.through - o.after > 1
    /\ CursorUnmoved(o)
    /\ cursor' = [seq |-> o.after, gen |-> cursor.gen + 1]
    /\ hint' = [through |-> o.water, limit |-> Half(o.through - o.after)]
    /\ op' = [op EXCEPT ![p] = Idle]
    /\ UNCHANGED <<role, head, cand, rows, commits, born, applied>>

\* _publish().
WindowPublish(p) ==
    LET o == op[p] IN
    /\ o.by = "window"
    /\ CursorUnmoved(o) /\ cursor.seq = o.after
    /\ CommitWrites(p)
    /\ cursor' = [seq |-> o.through, gen |-> cursor.gen + 1]
    /\ hint' = IF hint.through <= o.through THEN [through |-> 0, limit |-> 0] ELSE hint
    /\ applied' = [i \in 1..MaxRows |->
                     IF o.after < i /\ i <= o.through THEN applied[i] + 1 ELSE applied[i]]
    /\ op' = [op EXCEPT ![p] = Idle]
    /\ UNCHANGED <<role, cand, rows>>

--------------------------------------------------------------------------------
Client(p) ==
    /\ role[p] = "client"
    /\ \/ InspectCreate(p)
       \/ \E a \in Items, action \in {"change", "forget"} : InspectEdit(p, a, action)
       \/ \E inputs \in SUBSET Items : InspectMerge(p, inputs)
       \/ \E a \in Items, action \in {"restore", "undo"} : InspectRestore(p, a, action)
       \/ Commit(p)

Reviewer(p) ==
    /\ role[p] = "reviewer"
    /\ \/ \E c \in Cands, a \in Items : Propose(c, a)
       \/ \E c \in Cands : ReviseCandidate(c) \/ RejectCandidate(c) \/ InspectApprove(p, c)
       \/ CommitApprove(p)

Flush(p) ==
    /\ role[p] = "flush"
    /\ \/ AddSource
       \/ WindowRead(p)
       \/ WindowPlanNothing(p)
       \/ WindowPlanCreate(p)
       \/ \E a \in Items : WindowPlanChange(p, a)
       \/ \E inputs \in SUBSET Items : WindowPlanMerge(p, inputs)
       \/ WindowReduce(p)
       \/ WindowPublish(p)

Next == \E p \in Ops : Client(p) \/ Reviewer(p) \/ Flush(p) \/ Abandon(p)

Spec == Init /\ [][Next]_vars

--------------------------------------------------------------------------------
(* Properties.                                                             *)

Actions == {"none", "create", "change", "forget", "merge", "restore", "undo"}

States == {"none", "active", "deprecated", "retired"}

\* Values of as_read().
Reads == [rev : Nat, gen : Nat, state : States, into : Items \cup {None}]

CandRows == [status : {"none", "pending", "approved", "rejected"}, version : 0..MaxVersion,
             item : Items \cup {None}, rev : Nat, result : Nat, text : 0..MaxVersion]

HeadRows == [rev : Nat, gen : Nat, state : States, into : Items \cup {None},
             inputs : SUBSET (Items \X Nat)]

TypeHead == head \in [Items -> HeadRows]

TypeOp(o) ==
    /\ o.by \in {"nobody", "client", "reviewer", "reading", "window"}
    /\ o.action \in Actions
    /\ o.target \in Items \cup {None}
    /\ o.inputs \subseteq Items
    /\ DOMAIN o.reads \subseteq Items
    /\ \A a \in DOMAIN o.reads : o.reads[a] \in Reads
    /\ o.cand \in Cands \cup {None}
    /\ {o.version, o.after, o.through, o.gen, o.water} \subseteq Nat

\* Every variable has its type; the row of memory_source_windows, when there
\* is one, has a positive limit, as the table's check constraint asks.
TypeOK ==
    /\ role \in [Ops -> {"client", "reviewer", "flush"}]
    /\ TypeHead
    /\ \A p \in Ops : TypeOp(op[p])
    /\ cand \in [Cands -> CandRows]
    /\ rows \in 0..MaxRows
    /\ cursor.seq \in 0..rows /\ cursor.gen \in Nat
    /\ hint.through \in 0..rows
    /\ hint.through > 0 => hint.limit \in 1..WindowLimit
    /\ commits \in 0..CommitBound
    /\ born \in [Items -> 0..commits]
    /\ applied \in [1..MaxRows -> Nat]

\* What was merged or forgotten can be brought back: inspect_restore() raises
\* no relation error for a deprecated Artifact, and neither does an undo of a
\* merge result that is in effect, whatever merges, edits and restorations of
\* the group and of its neighbours came in between.
AlwaysRestorable ==
    \A a \in Items :
        /\ head[a].state = "deprecated" => Restorable(a, "restore")
        /\ Live(a) /\ head[a].inputs # {} => Restorable(a, "undo")

\* A preview token binds the endpoint of the merge path and nothing else
\* (_validate_preview() compares just that), and that is enough: as long as
\* the endpoint is as it was, so is every other Artifact of the group that was
\* inspected, and the restoration the caller confirmed is the one carried out.
EndpointBinds ==
    \A p \in Ops : Restores(op[p].action) =>
        \A e \in DOMAIN op[p].reads :
            op[p].reads[e].into = None /\ ReadOf(e) = op[p].reads[e]
                => Current(op[p].reads)

\* An approval publishes the version that was reviewed, as the successor of
\* the revision that it was proposed for, and no revision is the result of two
\* Candidates, however approvals, edits and changes of the item overlap.
ReviewedIsPublished ==
    \A c \in Cands : cand[c].status = "approved" =>
        /\ cand[c].text = cand[c].version
        /\ cand[c].result = cand[c].rev + 1
        /\ \A d \in Cands \ {c} :
              cand[d].status = "approved" /\ cand[d].item = cand[c].item
                  => cand[d].result # cand[c].result

\* Every source up to the cursor went into exactly one published window, and
\* none beyond it into any: overlapping flushes and reductions of a window
\* neither skip nor repeat one.
RowsOnce == \A i \in 1..MaxRows : applied[i] = IF i <= cursor.seq THEN 1 ELSE 0
================================================================================
