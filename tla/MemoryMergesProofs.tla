--------------------------- MODULE MemoryMergesProofs ---------------------------
(***************************************************************************)
(* Proofs about MemoryMerges, for every set of Artifacts, operations and   *)
(* Candidates, and every bound.                                            *)
(***************************************************************************)
EXTENDS MemoryMerges, WellFoundedInduction, TLAPS

\* A frozen Artifact is deprecated, and is among the marked inputs of a live
\* result at the revision it has.
FrozenIsMarked ==
    \A a \in Items : head[a].into # None =>
        /\ head[a].state = "deprecated"
        /\ head[head[a].into].state \in {"active", "deprecated"}
        /\ <<a, head[a].rev>> \in head[head[a].into].inputs

\* The marked inputs of a live result are frozen into it, unchanged.
MarkedIsFrozen ==
    \A r \in Items : Live(r) => \A input \in head[r].inputs :
        /\ head[input[1]].state = "deprecated"
        /\ head[input[1]].into = r
        /\ head[input[1]].rev = input[2]

\* A result is younger than what was merged into it.
ResultsYounger == \A a \in Items : head[a].into # None => born[a] < born[head[a].into]

\* A result has at least two inputs; an id that is not used has nothing.
InputsPlural == \A r \in Items : head[r].inputs # {} => \E i, j \in InputIds(r) : i # j

UnusedIsMissing == \A a \in Items : head[a].state = "none" => head[a] = Missing

Births == commits \in Nat /\ born \in [Items -> Nat] /\ \A a \in Items : born[a] <= commits

Relations ==
    /\ TypeHead
    /\ Births
    /\ FrozenIsMarked
    /\ MarkedIsFrozen
    /\ ResultsYounger
    /\ InputsPlural
    /\ UnusedIsMissing

--------------------------------------------------------------------------------
(* Merge paths.                                                            *)

\* A path has its first Artifact and, with each one, what that was merged into.
LEMMA PathClosed ==
    ASSUME TypeHead, NEW a \in Items
    PROVE  /\ a \in Path(a)
           /\ Path(a) \subseteq Items
           /\ \A x \in Path(a) : head[x].into # None => head[x].into \in Path(a)
<1>1. a \in Path(a)
  BY DEF Path, Closed
<1>2. Results \subseteq Items
  BY DEF Results, TypeHead, HeadRows
<1>3. Path(a) \subseteq Items
  BY <1>2 DEF Path
<1>4. ASSUME NEW x \in Path(a), head[x].into # None
      PROVE  head[x].into \in Path(a)
  <2>1. x \in Items
    BY <1>3
  <2>2. head[x].into \in Results
    BY <2>1, <1>4 DEF Results
  <2>3. ASSUME NEW S \in Closed(a)
        PROVE  head[x].into \in S
    <3>1. x \in S
      BY <2>3 DEF Path
    <3>2. QED BY <3>1, <2>3, <1>4 DEF Closed
  <2>4. QED BY <2>2, <2>3 DEF Path
<1>5. QED BY <1>1, <1>3, <1>4

\* It is the least such set.
LEMMA PathLeast ==
    ASSUME TypeHead, NEW a \in Items, NEW S, a \in S,
           \A x \in S \cap Path(a) : head[x].into # None => head[x].into \in S
    PROVE  Path(a) \subseteq S
<1> DEFINE T == S \cap Path(a)
<1>1. T \subseteq {a} \cup Results
  BY DEF Path
<1>2. a \in T
  BY PathClosed
<1>3. ASSUME NEW x \in T
      PROVE  head[x].into \in T \cup {None}
  BY PathClosed
<1>4. T \in Closed(a)
  BY <1>1, <1>2, <1>3 DEF Closed
<1>5. QED BY <1>4 DEF Path

\* The path of what is not merged ends where it starts.
LEMMA PathOfEndpoint ==
    ASSUME TypeHead, NEW e \in Items, head[e].into = None
    PROVE  Path(e) = {e}
<1>1. e \in {e} /\ \A x \in {e} \cap Path(e) : head[x].into # None => head[x].into \in {e}
  OBVIOUS
<1>2. Path(e) \subseteq {e}
  BY <1>1, PathLeast
<1>3. QED BY <1>2, PathClosed

\* What a path holds was not created before its first Artifact.
LEMMA PathYounger ==
    ASSUME Relations, NEW a \in Items, NEW x \in Path(a)
    PROVE  born[x] >= born[a] /\ (head[x].into # a)
<1>1. TypeHead /\ Births /\ ResultsYounger
  BY DEF Relations
<1> DEFINE S == {y \in Items : born[y] >= born[a]}
<1>2. a \in S
  BY <1>1 DEF Births
<1>3. ASSUME NEW y \in S \cap Path(a), head[y].into # None
      PROVE  head[y].into \in S
  <2>1. head[y].into \in Items /\ born[y] < born[head[y].into]
    BY <1>1, <1>3 DEF ResultsYounger, TypeHead, HeadRows
  <2>2. QED BY <2>1, <1>1, <1>3 DEF Births
<1>4. Path(a) \subseteq S
  <2> HIDE DEF S
  <2> QED BY <1>1, <1>2, <1>3, PathLeast
<1>5. x \in Items /\ born[x] >= born[a]
  BY <1>4
<1>6. head[x].into # a
  <2>1. SUFFICES ASSUME head[x].into = a
                 PROVE  FALSE
    OBVIOUS
  <2>2. a # None
    BY ItemAssumption
  <2>3. born[x] < born[a]
    BY <1>1, <1>5, <2>1, <2>2 DEF ResultsYounger
  <2>4. born[x] \in Nat /\ born[a] \in Nat
    BY <1>1, <1>5 DEF Births
  <2>5. QED BY <1>5, <2>3, <2>4
<1>7. QED BY <1>5, <1>6

\* An end of a path is on the path of each Artifact of it.
LEMMA EndpointOnPaths ==
    ASSUME TypeHead, NEW a \in Items, NEW e \in Path(a), head[e].into = None,
           NEW x \in Path(a)
    PROVE  e \in Path(x)
<1> DEFINE S == {y \in Items : e \in Path(y)}
<1>1. a \in S
  OBVIOUS
<1>2. ASSUME NEW y \in S \cap Path(a), head[y].into # None
      PROVE  head[y].into \in S
  <2> DEFINE z == head[y].into
  <2>1. z \in Items /\ y \in Items
    BY <1>2 DEF TypeHead, HeadRows
  <2>2. Path(y) \subseteq {y} \cup Path(z)
    <3> DEFINE U == {y} \cup Path(z)
    <3>1. y \in U
      OBVIOUS
    <3>2. \A v \in U \cap Path(y) : head[v].into # None => head[v].into \in U
      BY <2>1, PathClosed
    <3> HIDE DEF U
    <3>3. Path(y) \subseteq U
      BY <2>1, <3>1, <3>2, PathLeast
    <3>4. QED BY <3>3 DEF U
  <2>3. e # y
    BY <1>2
  <2>4. QED BY <2>1, <2>2, <2>3, <1>2
<1>3. Path(a) \subseteq S
  <2> HIDE DEF S
  <2> QED BY <1>1, <1>2, PathLeast
<1>4. QED BY <1>3

\* So a path has one end at most.
LEMMA OneEndpoint ==
    ASSUME TypeHead, NEW a \in Items, NEW e \in Path(a), head[e].into = None,
           NEW x \in Path(a), head[x].into = None
    PROVE  x = e
<1>1. e \in Path(x) /\ x \in Items
  BY EndpointOnPaths, PathClosed
<1>2. QED BY <1>1, PathOfEndpoint

\* A set of Artifacts that, with each frozen one, has what it was merged into,
\* has one that is not frozen: results are younger, and there is a youngest.
LEMMA ClosedHasEndpoint ==
    ASSUME Relations, NEW T, T \subseteq Items, T # {},
           \A x \in T : head[x].into # None => head[x].into \in T
    PROVE  \E e \in T : head[e].into = None
<1>1. TypeHead /\ Births /\ ResultsYounger
  BY DEF Relations
<1> DEFINE Ages == {commits - born[x] : x \in T}
<1>2. Ages \subseteq Nat /\ Ages # {}
  BY <1>1 DEF Births
<1>3. PICK n \in Ages : \A m \in Ages : ~ (<<m, n>> \in OpToRel(<, Nat))
  <2> HIDE DEF Ages
  <2> QED BY <1>2, NatLessThanWellFounded, WFMin
<1>4. PICK e \in T : n = commits - born[e]
  OBVIOUS
<1>5. \A m \in Ages : ~ (m < n)
  BY <1>2, <1>3 DEF OpToRel
<1>6. ASSUME head[e].into # None
      PROVE  FALSE
  <2>1. head[e].into \in T /\ born[e] < born[head[e].into]
    BY <1>1, <1>6 DEF ResultsYounger
  <2>2. commits - born[head[e].into] \in Ages
    BY <2>1
  <2>3. commits - born[head[e].into] < n
    BY <1>1, <1>4, <2>1 DEF Births
  <2>4. QED BY <1>5, <2>2, <2>3
<1>7. QED BY <1>6

--------------------------------------------------------------------------------
(* The relations make every group restorable.                              *)

\* What lies on the path of a live Artifact is live, and each result on it has
\* at least two inputs, which are frozen into it.
LEMMA PathSound ==
    ASSUME Relations, NEW a \in Items, Live(a), NEW r \in Path(a),
           r # a \/ head[r].inputs # {}
    PROVE  /\ Live(r)
           /\ \E i, j \in InputIds(r) : i # j
           /\ \A x \in Path(a) : head[x].into = r => x \in InputIds(r)
<1>1. TypeHead /\ FrozenIsMarked /\ InputsPlural
  BY DEF Relations
<1>2. Path(a) \subseteq {x \in Items : Live(x)}
  <2> DEFINE S == {x \in Items : Live(x)}
  <2>1. \A x \in S \cap Path(a) : head[x].into # None => head[x].into \in S
    BY <1>1 DEF FrozenIsMarked, TypeHead, HeadRows, Live
  <2>2. a \in S
    OBVIOUS
  <2>3. Path(a) \subseteq S
    <3> HIDE DEF S
    <3> QED BY <1>1, <2>1, <2>2, PathLeast
  <2>4. QED BY <2>3
<1>3. r \in Items /\ Live(r)
  BY <1>2
<1>4. \A x \in Path(a) : head[x].into = r => <<x, head[x].rev>> \in head[r].inputs
  BY <1>1, <1>2, <1>3, ItemAssumption DEF FrozenIsMarked
<1>5. ASSUME NEW x \in Path(a), head[x].into = r
      PROVE  x \in InputIds(r)
  <2>1. <<x, head[x].rev>>[1] = x
    OBVIOUS
  <2>2. QED BY <1>4, <1>5, <2>1 DEF InputIds
<1>6. head[r].inputs # {}
  <2>1. CASE r = a
    BY <2>1
  <2>2. CASE r # a
    <3> DEFINE S == Path(a) \ {r}
    <3>1. SUFFICES ASSUME head[r].inputs = {}
                   PROVE  FALSE
      OBVIOUS
    <3>2. \A x \in S \cap Path(a) : head[x].into # None => head[x].into \in S
      BY <1>1, <1>4, <3>1, PathClosed
    <3>3. a \in S
      BY <1>1, <2>2, PathClosed
    <3>4. Path(a) \subseteq S
      <4> HIDE DEF S
      <4> QED BY <1>1, <3>2, <3>3, PathLeast
    <3>5. QED BY <3>4
  <2>3. QED BY <2>1, <2>2
<1>7. QED BY <1>1, <1>3, <1>5, <1>6 DEF InputsPlural

\* A live Artifact can be restored, and a live result can be undone.
LEMMA LiveIsRestorable ==
    ASSUME Relations, NEW a \in Items, Live(a), NEW action,
           action = "undo" => head[a].inputs # {}
    PROVE  Restorable(a, action)
<1>1. TypeHead /\ MarkedIsFrozen
  BY DEF Relations
<1>2. a \in Path(a) /\ Path(a) \subseteq Items
  BY <1>1, PathClosed
<1>3. \E e \in Path(a) : ~ Frozen(e)
  <2>1. \A x \in Path(a) : head[x].into # None => head[x].into \in Path(a)
    BY <1>1, PathClosed
  <2>2. \E e \in Path(a) : head[e].into = None
    BY <1>2, <2>1, ClosedHasEndpoint
  <2>3. QED BY <2>2 DEF Frozen
<1>4. ASSUME NEW x \in Path(a)
      PROVE  Live(x)
  <2>1. CASE x = a
    BY <2>1
  <2>2. CASE x # a
    BY <2>2, PathSound
  <2>3. QED BY <2>1, <2>2
<1>5. ASSUME NEW r \in Undone(a, action)
      PROVE  /\ \E i, j \in InputIds(r) : i # j
             /\ \A x \in Path(a) : head[x].into = r => x \in InputIds(r)
             /\ \A input \in head[r].inputs :
                   /\ head[input[1]].state = "deprecated"
                   /\ head[input[1]].into = r
                   /\ head[input[1]].rev = input[2]
  <2>1. r \in Path(a) /\ (r # a \/ head[r].inputs # {})
    BY <1>2, <1>5 DEF Undone
  <2>2. r \in Items /\ Live(r)
    BY <1>2, <1>4, <2>1
  <2>3. QED BY <1>1, <2>1, <2>2, PathSound DEF MarkedIsFrozen
<1>6. QED BY <1>3, <1>4, <1>5 DEF Restorable

\* The relations are what AlwaysRestorable needs.
LEMMA RelationsRestorable == Relations => AlwaysRestorable
<1>1. SUFFICES ASSUME Relations, NEW a \in Items
               PROVE  /\ head[a].state = "deprecated" => Restorable(a, "restore")
                      /\ Live(a) /\ head[a].inputs # {} => Restorable(a, "undo")
  BY DEF AlwaysRestorable
<1>2. ASSUME head[a].state = "deprecated"
      PROVE  Restorable(a, "restore")
  <2>1. Live(a)
    BY <1>2 DEF Live
  <2>2. QED BY <1>1, <2>1, LiveIsRestorable
<1>3. ASSUME Live(a), head[a].inputs # {}
      PROVE  Restorable(a, "undo")
  BY <1>1, <1>3, LiveIsRestorable
<1>4. QED BY <1>2, <1>3

--------------------------------------------------------------------------------
(* Each kind of write keeps the relations.                                 *)

\* What a transition leaves of a row.
LEMMA TransitionRow ==
    ASSUME NEW h \in HeadRows, NEW state \in States, NEW into \in Items \cup {None},
           NEW n \in Nat
    PROVE  LET g == Transition(h, state, into, n) IN
           /\ g \in HeadRows
           /\ g.state = state /\ g.into = into
           /\ g.rev = h.rev + n /\ g.gen = h.gen + 1 /\ g.inputs = h.inputs
BY DEF HeadRows, Transition

\* A new revision of an Artifact that is not frozen.
LEMMA ChangedKeeps ==
    ASSUME Relations, NEW a \in Items, Live(a), ~ Frozen(a), head' = Changed(a),
           commits' = commits + 1, born' = born
    PROVE  Relations'
<1>1. TypeHead /\ Births /\ FrozenIsMarked /\ MarkedIsFrozen /\ ResultsYounger
        /\ InputsPlural /\ UnusedIsMissing
  BY DEF Relations
<1>2. TypeHead'
  BY <1>1 DEF TypeHead, HeadRows, Changed
<1>3. \A x \in Items : /\ head'[x].into = head[x].into
                       /\ head'[x].state = head[x].state
                       /\ head'[x].inputs = head[x].inputs
                       /\ x # a => head'[x] = head[x]
  BY <1>1 DEF TypeHead, HeadRows, Changed
<1>4. Births'
  BY <1>1 DEF Births
<1>5. FrozenIsMarked'
  BY <1>1, <1>3 DEF FrozenIsMarked, TypeHead, HeadRows, Frozen
<1>6. MarkedIsFrozen'
  <2>1. SUFFICES ASSUME NEW r \in Items, Live(r), NEW input \in head[r].inputs
                 PROVE  /\ head'[input[1]].state = "deprecated"
                        /\ head'[input[1]].into = r
                        /\ head'[input[1]].rev = input[2]
    BY <1>3 DEF MarkedIsFrozen, Live
  <2>2. input[1] \in Items
    BY <1>1 DEF TypeHead, HeadRows
  <2>3. head[input[1]].into = r /\ head[input[1]].state = "deprecated" /\ head[input[1]].rev = input[2]
    BY <1>1, <2>1 DEF MarkedIsFrozen
  <2>4. input[1] # a
    BY <2>3, ItemAssumption DEF Frozen
  <2>5. QED BY <1>3, <2>2, <2>3, <2>4
<1>7. ResultsYounger'
  BY <1>1, <1>3 DEF ResultsYounger
<1>8. InputsPlural'
  <2>1. \A r \in Items : (InputIds(r))' = InputIds(r)
    BY <1>3 DEF InputIds
  <2>2. QED BY <1>1, <1>3, <2>1 DEF InputsPlural
<1>9. UnusedIsMissing'
  BY <1>1, <1>3 DEF UnusedIsMissing, Live
<1>10. QED BY <1>2, <1>4, <1>5, <1>6, <1>7, <1>8, <1>9 DEF Relations

\* A forgotten Artifact that was active and not frozen.
LEMMA ForgottenKeeps ==
    ASSUME Relations, NEW a \in Items, head[a].state = "active", ~ Frozen(a),
           head' = Forgotten(a), commits' = commits + 1, born' = born
    PROVE  Relations'
<1>1. TypeHead /\ Births /\ FrozenIsMarked /\ MarkedIsFrozen /\ ResultsYounger
        /\ InputsPlural /\ UnusedIsMissing
  BY DEF Relations
<1>a. /\ head[a] \in HeadRows /\ head[a].into = None
      /\ head' = [head EXCEPT ![a] = Transition(head[a], "deprecated", None, 0)]
  BY <1>1 DEF TypeHead, HeadRows, Forgotten, Frozen
<1>b. /\ head'[a] \in HeadRows /\ head'[a].state = "deprecated" /\ head'[a].into = None
      /\ head'[a].rev = head[a].rev /\ head'[a].inputs = head[a].inputs
  <2>1. head'[a] = Transition(head[a], "deprecated", None, 0)
    BY <1>1, <1>a DEF TypeHead, HeadRows
  <2>2. head[a].rev + 0 = head[a].rev
    BY <1>a DEF HeadRows
  <2>3. "deprecated" \in States
    BY DEF States
  <2>4. head[a] \in HeadRows /\ None \in Items \cup {None}
    BY <1>a
  <2>5. QED BY <2>1, <2>2, <2>3, <2>4 DEF Transition, HeadRows
<1>2. TypeHead'
  <2>1. head' \in [Items -> HeadRows]
    BY <1>1, <1>a, <1>b DEF TypeHead, HeadRows
  <2>2. QED BY <2>1 DEF TypeHead, HeadRows
<1>3. \A x \in Items : /\ head'[x].into = head[x].into
                       /\ head'[x].rev = head[x].rev
                       /\ head'[x].inputs = head[x].inputs
                       /\ x # a => head'[x] = head[x]
  BY <1>1, <1>a, <1>b DEF TypeHead, HeadRows
<1>4. head'[a].state = "deprecated"
  BY <1>b
<1>5. Births'
  BY <1>1 DEF Births
<1>6. FrozenIsMarked'
  BY <1>1, <1>3, <1>4 DEF FrozenIsMarked, TypeHead, HeadRows, Frozen
<1>7. MarkedIsFrozen'
  <2>1. SUFFICES ASSUME NEW r \in Items, Live(r), NEW input \in head[r].inputs
                 PROVE  /\ head'[input[1]].state = "deprecated"
                        /\ head'[input[1]].into = r
                        /\ head'[input[1]].rev = input[2]
    BY <1>3, <1>4 DEF MarkedIsFrozen, Live
  <2>2. input[1] \in Items
    BY <1>1 DEF TypeHead, HeadRows
  <2>3. head[input[1]].into = r /\ head[input[1]].state = "deprecated" /\ head[input[1]].rev = input[2]
    BY <1>1, <2>1 DEF MarkedIsFrozen
  <2>4. QED BY <1>3, <1>4, <2>2, <2>3
<1>8. ResultsYounger'
  BY <1>1, <1>3 DEF ResultsYounger
<1>9. InputsPlural'
  <2>1. \A r \in Items : (InputIds(r))' = InputIds(r)
    BY <1>3 DEF InputIds
  <2>2. QED BY <1>1, <1>3, <2>1 DEF InputsPlural
<1>10. UnusedIsMissing'
  BY <1>1, <1>3, <1>4 DEF UnusedIsMissing
<1>11. QED BY <1>2, <1>5, <1>6, <1>7, <1>8, <1>9, <1>10 DEF Relations

\* Nothing refers to an id that is not used.
LEMMA UnusedUnreferenced ==
    ASSUME Relations, NEW fresh \in Items, head[fresh] = Missing
    PROVE  /\ head[fresh].into = None /\ head[fresh].state = "none" /\ head[fresh].inputs = {}
           /\ \A x \in Items : head[x].into # fresh
<1>1. head[fresh].into = None /\ head[fresh].state = "none" /\ head[fresh].inputs = {}
  BY DEF Missing
<1>2. FrozenIsMarked /\ fresh # None
  BY ItemAssumption DEF Relations
<1>3. \A x \in Items : head[x].into # fresh
  BY <1>1, <1>2 DEF FrozenIsMarked
<1>4. QED BY <1>1, <1>3

\* A new Artifact without inputs.
LEMMA CreatedKeeps ==
    ASSUME Relations, NEW fresh \in Items, head[fresh] = Missing,
           head' = [head EXCEPT ![fresh] = Created({})],
           commits' = commits + 1, born' = [born EXCEPT ![fresh] = commits + 1]
    PROVE  Relations'
<1>1. TypeHead /\ Births /\ FrozenIsMarked /\ MarkedIsFrozen /\ ResultsYounger
        /\ InputsPlural /\ UnusedIsMissing
  BY DEF Relations
<1>2. /\ head[fresh].into = None /\ head[fresh].state = "none"
      /\ \A x \in Items : head[x].into # fresh
  BY UnusedUnreferenced
<1>3. TypeHead'
  BY <1>1 DEF TypeHead, HeadRows, Created, States
<1>4. /\ \A x \in Items : x # fresh => head'[x] = head[x] /\ born'[x] = born[x]
      /\ head'[fresh].into = None /\ head'[fresh].state = "active"
      /\ head'[fresh].inputs = {}
  BY <1>1 DEF TypeHead, HeadRows, Births, Created
<1>5. Births'
  BY <1>1 DEF Births
<1>6. FrozenIsMarked'
  BY <1>1, <1>2, <1>4 DEF FrozenIsMarked, TypeHead, HeadRows
<1>7. MarkedIsFrozen'
  <2>1. SUFFICES ASSUME NEW r \in Items, r # fresh, Live(r), NEW input \in head[r].inputs
                 PROVE  /\ head'[input[1]].state = "deprecated"
                        /\ head'[input[1]].into = r
                        /\ head'[input[1]].rev = input[2]
    BY <1>4 DEF MarkedIsFrozen, Live
  <2>2. input[1] \in Items
    BY <1>1 DEF TypeHead, HeadRows
  <2>3. head[input[1]].into = r /\ head[input[1]].state = "deprecated" /\ head[input[1]].rev = input[2]
    BY <1>1, <2>1 DEF MarkedIsFrozen
  <2>4. QED BY <1>2, <1>4, <2>2, <2>3
<1>8. ResultsYounger'
  BY <1>1, <1>2, <1>4 DEF ResultsYounger, TypeHead, HeadRows
<1>9. InputsPlural'
  <2>1. \A r \in Items : r # fresh => (InputIds(r))' = InputIds(r)
    BY <1>4 DEF InputIds
  <2>2. QED BY <1>1, <1>4, <2>1 DEF InputsPlural
<1>10. UnusedIsMissing'
  BY <1>1, <1>4 DEF UnusedIsMissing
<1>11. QED BY <1>3, <1>5, <1>6, <1>7, <1>8, <1>9, <1>10 DEF Relations

\* A merge of active Artifacts that are not frozen, into a new result.
LEMMA MergedKeeps ==
    ASSUME Relations, NEW fresh \in Items, head[fresh] = Missing,
           NEW inputs \in SUBSET Items, Mergeable(inputs),
           head' = Merged(fresh, inputs),
           commits' = commits + 1, born' = [born EXCEPT ![fresh] = commits + 1]
    PROVE  Relations'
<1>1. TypeHead /\ Births /\ FrozenIsMarked /\ MarkedIsFrozen /\ ResultsYounger
        /\ InputsPlural /\ UnusedIsMissing
  BY DEF Relations
<1>2. /\ head[fresh].into = None /\ head[fresh].state = "none"
      /\ \A x \in Items : head[x].into # fresh
  BY UnusedUnreferenced
<1>3. \A i \in inputs : head[i].state = "active" /\ head[i].into = None
  BY DEF Mergeable, Frozen
<1>4. fresh \notin inputs
  BY <1>2, <1>3
<1> DEFINE marked == {<<i, head[i].rev>> : i \in inputs}
<1>5. marked \subseteq Items \X Nat
  BY <1>1 DEF TypeHead, HeadRows
<1>6. head'[fresh] = Created(marked)
  BY DEF Merged
<1>7. ASSUME NEW x \in inputs
      PROVE  /\ head'[x] \in HeadRows
             /\ head'[x].state = "deprecated" /\ head'[x].into = fresh
             /\ head'[x].rev = head[x].rev /\ head'[x].inputs = head[x].inputs
  <2>1. head'[x] = Transition(head[x], "deprecated", fresh, 0)
    BY <1>4 DEF Merged
  <2>2. head[x] \in HeadRows /\ head[x].rev + 0 = head[x].rev
    BY <1>1 DEF TypeHead, HeadRows
  <2>3. "deprecated" \in States
    BY DEF States
  <2>4. QED BY <2>1, <2>2, <2>3, TransitionRow
<1>8. \A x \in Items : x # fresh /\ x \notin inputs => head'[x] = head[x]
  BY DEF Merged
<1>9. TypeHead'
  <2> HIDE DEF marked
  <2>1. head' = [x \in Items |-> head'[x]]
    BY DEF Merged
  <2>2. ASSUME NEW x \in Items
        PROVE  head'[x] \in HeadRows
    <3>1. CASE x = fresh
      BY <3>1, <1>5, <1>6 DEF Created, States, HeadRows
    <3>2. CASE x \in inputs
      BY <3>2, <1>7
    <3>3. CASE x # fresh /\ x \notin inputs
      BY <3>3, <1>1, <1>8 DEF TypeHead, HeadRows
    <3>4. QED BY <3>1, <3>2, <3>3
  <2>3. QED BY <2>1, <2>2 DEF TypeHead, HeadRows
<1>10. /\ head'[fresh].into = None /\ head'[fresh].state = "active"
       /\ head'[fresh].inputs = marked
       /\ \A x \in inputs : /\ head'[x].state = "deprecated" /\ head'[x].into = fresh
                            /\ head'[x].rev = head[x].rev /\ head'[x].inputs = head[x].inputs
       /\ \A x \in Items : x # fresh => head'[x].inputs = head[x].inputs
                                        /\ born'[x] = born[x] /\ head'[x].rev = head[x].rev
       /\ born'[fresh] = commits + 1
  <2> HIDE DEF marked
  <2>1. /\ head'[fresh].into = None /\ head'[fresh].state = "active"
        /\ head'[fresh].inputs = marked
    BY <1>6 DEF Created
  <2>2. born'[fresh] = commits + 1 /\ \A x \in Items : x # fresh => born'[x] = born[x]
    BY <1>1 DEF Births
  <2>3. \A x \in Items : x # fresh => head'[x].inputs = head[x].inputs /\ head'[x].rev = head[x].rev
    BY <1>7, <1>8
  <2>4. QED BY <1>7, <2>1, <2>2, <2>3
<1>11. \A i \in inputs : <<i, head[i].rev>> \in marked
  OBVIOUS
<1>12. \A m \in marked : m[1] \in inputs /\ m[2] = head[m[1]].rev
  OBVIOUS
<1> HIDE DEF marked
<1>13. Births'
  BY <1>1 DEF Births
<1>14. FrozenIsMarked'
  <2>1. SUFFICES ASSUME NEW x \in Items, head'[x].into # None
                 PROVE  /\ head'[x].state = "deprecated"
                        /\ head'[head'[x].into].state \in {"active", "deprecated"}
                        /\ <<x, head'[x].rev>> \in head'[head'[x].into].inputs
    BY DEF FrozenIsMarked
  <2>2. CASE x \in inputs
    BY <2>2, <1>10, <1>11
  <2>3. CASE x \notin inputs
    <3>1. x # fresh /\ head'[x] = head[x]
      BY <1>8, <1>10, <2>1, <2>3
    <3> DEFINE r == head[x].into
    <3>2. /\ r \in Items /\ r # fresh /\ head[x].state = "deprecated"
          /\ head[r].state \in {"active", "deprecated"} /\ <<x, head[x].rev>> \in head[r].inputs
      BY <1>1, <1>2, <2>1, <3>1 DEF FrozenIsMarked, TypeHead, HeadRows
    <3>3. head'[r].state \in {"active", "deprecated"} /\ head'[r].inputs = head[r].inputs
      BY <1>8, <1>10, <3>2
    <3>4. QED BY <3>1, <3>2, <3>3
  <2>4. QED BY <2>2, <2>3
<1>15. MarkedIsFrozen'
  <2>1. SUFFICES ASSUME NEW r \in Items, head'[r].state \in {"active", "deprecated"},
                        NEW input \in head'[r].inputs
                 PROVE  /\ head'[input[1]].state = "deprecated"
                        /\ head'[input[1]].into = r
                        /\ head'[input[1]].rev = input[2]
    BY DEF MarkedIsFrozen, Live
  <2>2. CASE r = fresh
    BY <2>2, <1>10, <1>12
  <2>3. CASE r # fresh
    <3>1. Live(r) /\ input \in head[r].inputs
      BY <2>1, <2>3, <1>3, <1>8, <1>10 DEF Live
    <3>2. input[1] \in Items
      BY <1>1, <3>1 DEF TypeHead, HeadRows
    <3>3. /\ head[input[1]].state = "deprecated" /\ head[input[1]].into = r
          /\ head[input[1]].rev = input[2]
      BY <1>1, <3>1 DEF MarkedIsFrozen
    <3>4. input[1] # fresh /\ input[1] \notin inputs
      BY <1>2, <1>3, <3>3
    <3>5. QED BY <1>8, <3>2, <3>3, <3>4
  <2>4. QED BY <2>2, <2>3
<1>16. ResultsYounger'
  <2>1. SUFFICES ASSUME NEW x \in Items, head'[x].into # None
                 PROVE  born'[x] < born'[head'[x].into]
    BY DEF ResultsYounger
  <2>2. CASE x \in inputs
    BY <2>2, <1>1, <1>4, <1>10 DEF Births
  <2>3. CASE x \notin inputs
    <3>1. x # fresh /\ head'[x] = head[x]
      BY <1>8, <1>10, <2>1, <2>3
    <3>2. head[x].into \in Items /\ head[x].into # fresh
      BY <1>1, <1>2, <2>1, <3>1 DEF TypeHead, HeadRows
    <3>3. QED BY <1>1, <1>10, <2>1, <3>1, <3>2 DEF ResultsYounger
  <2>4. QED BY <2>2, <2>3
<1>17. InputsPlural'
  <2>1. ASSUME NEW r \in Items, r # fresh
        PROVE  (InputIds(r))' = InputIds(r)
    BY <2>1, <1>10 DEF InputIds
  <2>2. \E i, j \in (InputIds(fresh))' : i # j
    <3>1. \A i \in inputs : <<i, head[i].rev>>[1] = i
      OBVIOUS
    <3>2. inputs \subseteq (InputIds(fresh))'
      BY <1>10, <1>11, <3>1 DEF InputIds
    <3>3. QED BY <3>2 DEF Mergeable
  <2>3. QED BY <1>1, <1>10, <2>1, <2>2 DEF InputsPlural
<1>18. UnusedIsMissing'
  BY <1>1, <1>8, <1>10 DEF UnusedIsMissing
<1>19. QED BY <1>9, <1>13, <1>14, <1>15, <1>16, <1>17, <1>18 DEF Relations

\* With a frozen Artifact a restoration writes the result it was merged into.
LEMMA WrittenUpwards ==
    ASSUME Relations, NEW a \in Items, NEW action \in {"restore", "undo"},
           Restorable(a, action),
           NEW x \in Undone(a, action) \cup Released(a, action), head[x].into # None
    PROVE  head[x].into \in Undone(a, action)
<1>1. TypeHead
  BY DEF Relations
<1>2. ASSUME x \in Path(a)
      PROVE  head[x].into \in Undone(a, action)
  <2>1. head[x].into \in Path(a)
    BY <1>1, <1>2, PathClosed
  <2>2. head[x].into # a
    BY <1>2, PathYounger
  <2>3. QED BY <2>1, <2>2 DEF Undone
<1>3. CASE x \in Path(a)
  BY <1>2, <1>3
<1>4. CASE x \notin Path(a)
  <2>1. a \in Path(a)
    BY <1>1, PathClosed
  <2>2. PICK r \in Undone(a, action) : x \in InputIds(r)
    BY <1>4, <2>1 DEF Undone, Released
  <2>3. PICK input \in head[r].inputs : x = input[1]
    BY <2>2 DEF InputIds
  <2>4. head[x].into = r
    BY <2>3 DEF Restorable
  <2>5. QED BY <2>4
<1>5. QED BY <1>3, <1>4

\* What a restoration writes.
LEMMA RestoredRows ==
    ASSUME TypeHead, NEW a \in Items, NEW action, head' = Restored(a, action)
    PROVE  /\ TypeHead'
           /\ \A x \in Items : head'[x].inputs = head[x].inputs
           /\ \A x \in Undone(a, action) \cap Items :
                 /\ head'[x].state = "retired" /\ head'[x].into = None
                 /\ head'[x].rev = head[x].rev + 1 /\ head'[x].gen = head[x].gen + 1
           /\ \A x \in Released(a, action) \cap Items :
                 /\ head'[x].state = "active" /\ head'[x].into = None
                 /\ head'[x].rev = head[x].rev + 1 /\ head'[x].gen = head[x].gen + 1
           /\ \A x \in Items : x \notin Undone(a, action) \cup Released(a, action)
                 => head'[x] = head[x]
<1> DEFINE undone == Undone(a, action)
           released == Released(a, action)
<1>1. undone \cap released = {}
  BY DEF Released
<1>2. head' = [b \in Items |->
                 IF b \in undone THEN Transition(head[b], "retired", None, 1)
                 ELSE IF b \in released THEN Transition(head[b], "active", None, 1)
                 ELSE head[b]]
  BY DEF Restored
<1> HIDE DEF undone, released
<1>3. \A x \in Items : head[x] \in HeadRows
  BY DEF TypeHead, HeadRows
<1>4. ASSUME NEW x \in Items, NEW state \in {"retired", "active"},
             head'[x] = Transition(head[x], state, None, 1)
      PROVE  /\ head'[x] \in HeadRows
             /\ head'[x].state = state /\ head'[x].into = None
             /\ head'[x].rev = head[x].rev + 1 /\ head'[x].gen = head[x].gen + 1
             /\ head'[x].inputs = head[x].inputs
  BY <1>3, <1>4 DEF Transition, HeadRows, States
<1>5. \A x \in Items : x \in undone => head'[x] = Transition(head[x], "retired", None, 1)
  BY <1>2
<1>6. \A x \in Items : x \in released => head'[x] = Transition(head[x], "active", None, 1)
  BY <1>1, <1>2
<1>7. \A x \in Items : x \notin undone \cup released => head'[x] = head[x]
  BY <1>2
<1>8. \A x \in Items : head'[x] \in HeadRows /\ head'[x].inputs = head[x].inputs
  BY <1>3, <1>4, <1>5, <1>6, <1>7
<1>9. head' \in [Items -> HeadRows]
  BY <1>2, <1>8
<1>10. TypeHead'
  BY <1>9 DEF TypeHead, HeadRows
<1>11. QED BY <1>4, <1>5, <1>6, <1>7, <1>8, <1>10 DEF undone, released

\* A restoration of a whole group.
LEMMA RestoredKeeps ==
    ASSUME Relations, NEW a \in Items, NEW action \in {"restore", "undo"},
           Restorable(a, action), head' = Restored(a, action),
           commits' = commits + 1, born' = born
    PROVE  Relations'
<1>1. TypeHead /\ Births /\ FrozenIsMarked /\ MarkedIsFrozen /\ ResultsYounger
        /\ InputsPlural /\ UnusedIsMissing
  BY DEF Relations
<1> DEFINE undone == Undone(a, action)
           released == Released(a, action)
<1>2. /\ TypeHead'
      /\ \A x \in Items : head'[x].inputs = head[x].inputs
      /\ \A x \in undone \cap Items : head'[x].state = "retired" /\ head'[x].into = None
      /\ \A x \in released \cap Items : head'[x].state = "active" /\ head'[x].into = None
      /\ \A x \in Items : x \notin undone \cup released => head'[x] = head[x]
  BY <1>1, RestoredRows
<1>3. \A x \in undone \cup released : head[x].into # None => head[x].into \in undone
  BY WrittenUpwards
\* The inputs of what is undone are written.
<1>4. \A r \in undone : InputIds(r) \subseteq undone \cup released
  BY DEF Released
<1>5. \A x \in undone \cup released : Live(x)
  <2>1. \A x \in Path(a) : Live(x)
    BY DEF Restorable
  <2>2. \A x \in undone : Live(x)
    BY <1>1, <2>1, PathClosed DEF Undone
  <2>3. ASSUME NEW x \in released
        PROVE  Live(x)
    <3>1. CASE x = a
      BY <3>1 DEF Restorable
    <3>2. CASE x # a
      <4>1. PICK r \in undone : x \in InputIds(r)
        BY <3>2, <2>3 DEF Released
      <4>2. PICK input \in head[r].inputs : x = input[1]
        BY <4>1 DEF InputIds
      <4>3. head[x].state = "deprecated"
        BY <4>2 DEF Restorable
      <4>4. QED BY <4>3 DEF Live
    <3>3. QED BY <3>1, <3>2
  <2>4. QED BY <2>2, <2>3
<1> HIDE DEF undone, released
<1>6. Births'
  BY <1>1 DEF Births
<1>7. FrozenIsMarked'
  <2>1. SUFFICES ASSUME NEW x \in Items, head'[x].into # None
                 PROVE  /\ head'[x].state = "deprecated"
                        /\ head'[head'[x].into].state \in {"active", "deprecated"}
                        /\ <<x, head'[x].rev>> \in head'[head'[x].into].inputs
    BY DEF FrozenIsMarked
  <2>2. x \notin undone \cup released /\ head'[x] = head[x]
    BY <1>2, <2>1
  <2> DEFINE r == head[x].into
  <2>3. /\ r \in Items /\ head[x].state = "deprecated"
        /\ head[r].state \in {"active", "deprecated"} /\ <<x, head[x].rev>> \in head[r].inputs
    BY <1>1, <2>1, <2>2 DEF FrozenIsMarked, TypeHead, HeadRows
  <2>4. r \notin undone
    <3>1. <<x, head[x].rev>>[1] = x
      OBVIOUS
    <3>2. x \in InputIds(r)
      BY <2>3, <3>1 DEF InputIds
    <3>3. QED BY <1>4, <2>2, <3>2
  <2>5. head'[r].state \in {"active", "deprecated"} /\ head'[r].inputs = head[r].inputs
    BY <1>2, <2>3, <2>4
  <2>6. QED BY <2>2, <2>3, <2>5
<1>8. MarkedIsFrozen'
  <2>1. SUFFICES ASSUME NEW r \in Items, head'[r].state \in {"active", "deprecated"},
                        NEW input \in head'[r].inputs
                 PROVE  /\ head'[input[1]].state = "deprecated"
                        /\ head'[input[1]].into = r
                        /\ head'[input[1]].rev = input[2]
    BY DEF MarkedIsFrozen, Live
  <2>2. r \notin undone /\ input \in head[r].inputs
    BY <1>2, <2>1
  <2>3. input[1] \in Items
    BY <1>1, <2>2 DEF TypeHead, HeadRows
  <2>4. Live(r)
    <3>1. CASE r \in released
      BY <3>1, <1>5
    <3>2. CASE r \notin released
      BY <3>2, <1>2, <2>1, <2>2 DEF Live
    <3>3. QED BY <3>1, <3>2
  <2>5. /\ head[input[1]].state = "deprecated" /\ head[input[1]].into = r
        /\ head[input[1]].rev = input[2]
    BY <1>1, <2>2, <2>4 DEF MarkedIsFrozen
  <2>6. input[1] \notin undone \cup released
    BY <1>3, <2>2, <2>5, ItemAssumption
  <2>7. QED BY <1>2, <2>3, <2>5, <2>6
<1>9. ResultsYounger'
  BY <1>1, <1>2 DEF ResultsYounger
<1>10. InputsPlural'
  <2>1. \A r \in Items : (InputIds(r))' = InputIds(r)
    BY <1>2 DEF InputIds
  <2>2. QED BY <1>1, <1>2, <2>1 DEF InputsPlural
<1>11. UnusedIsMissing'
  BY <1>1, <1>2 DEF UnusedIsMissing
<1>12. QED BY <1>2, <1>6, <1>7, <1>8, <1>9, <1>10, <1>11 DEF Relations

--------------------------------------------------------------------------------
(* A commit keeps the relations: its plan was sound when it was inspected, *)
(* and what it read is what is there.                                      *)

PlanSound(o) ==
    /\ o.action \in Actions
    /\ o.action \in {"change", "forget"} =>
          /\ o.target \in Items
          /\ o.target \in DOMAIN o.reads
          /\ o.reads[o.target].into = None
          /\ o.reads[o.target].state \in {"active", "deprecated"}
          /\ o.action = "forget" => o.reads[o.target].state = "active"
    /\ o.action = "merge" =>
          /\ o.inputs \subseteq Items
          /\ o.inputs \subseteq DOMAIN o.reads
          /\ \E i, j \in o.inputs : i # j
          /\ \A i \in o.inputs : o.reads[i].state = "active" /\ o.reads[i].into = None
    /\ Restores(o.action) => o.target \in Items

Plans == op = [p \in Ops |-> op[p]] /\ \A p \in Ops : PlanSound(op[p])

\* The fields of a read.
LEMMA ReadFields ==
    ASSUME NEW a
    PROVE  /\ ReadOf(a).rev = head[a].rev /\ ReadOf(a).gen = head[a].gen
           /\ ReadOf(a).state = head[a].state /\ ReadOf(a).into = head[a].into
BY DEF ReadOf

\* What CommitWrites() does, by the kind of plan.
LEMMA CommitKinds ==
    ASSUME NEW p \in Ops, PlanSound(op[p]), CommitWrites(p)
    PROVE  /\ commits' = commits + 1
           /\ \/ head' = head /\ born' = born
              \/ /\ op[p].action = "change"
                 /\ op[p].target \in Items /\ Live(op[p].target) /\ ~ Frozen(op[p].target)
                 /\ head' = Changed(op[p].target) /\ born' = born
              \/ /\ op[p].target \in Items /\ head[op[p].target].state = "active"
                 /\ ~ Frozen(op[p].target)
                 /\ head' = Forgotten(op[p].target) /\ born' = born
              \/ /\ op[p].target \in Items /\ op[p].action \in {"restore", "undo"}
                 /\ Restorable(op[p].target, op[p].action)
                 /\ head' = Restored(op[p].target, op[p].action) /\ born' = born
              \/ \E fresh \in Items :
                    /\ head[fresh] = Missing
                    /\ born' = [born EXCEPT ![fresh] = commits + 1]
                    /\ \/ head' = [head EXCEPT ![fresh] = Created({})]
                       \/ /\ op[p].inputs \in SUBSET Items /\ Mergeable(op[p].inputs)
                          /\ head' = Merged(fresh, op[p].inputs)
<1> DEFINE o == op[p]
<1>1. /\ commits' = commits + 1 /\ Current(o.reads)
      /\ Restores(o.action) => Restorable(o.target, o.action)
      /\ IF Creates(o.action)
         THEN \E fresh \in Items :
                 /\ head[fresh] = Missing
                 /\ head' = Outcome(o.action, o.target, o.inputs, fresh)
                 /\ born' = [born EXCEPT ![fresh] = commits + 1]
         ELSE head' = Outcome(o.action, o.target, o.inputs, None) /\ born' = born
  BY DEF CommitWrites
<1>2. o.action \in {"none", "create", "change", "forget", "merge", "restore", "undo"}
  BY DEF PlanSound, Actions
<1>3. CASE o.action = "none"
  BY <1>1, <1>3 DEF Creates, Outcome
<1>4. CASE o.action = "create"
  BY <1>1, <1>4 DEF Creates, Outcome
<1>5. CASE o.action = "change"
  <2>1. head' = Changed(o.target) /\ born' = born
    BY <1>1, <1>5 DEF Creates, Outcome
  <2>2. o.target \in Items /\ ReadOf(o.target) = o.reads[o.target]
    BY <1>1, <1>5 DEF PlanSound, Current
  <2>3. Live(o.target) /\ ~ Frozen(o.target)
    BY <1>5, <2>2, ReadFields DEF PlanSound, Live, Frozen
  <2>4. QED BY <1>1, <1>5, <2>1, <2>2, <2>3
<1>6. CASE o.action = "forget"
  <2>1. head' = Forgotten(o.target) /\ born' = born
    BY <1>1, <1>6 DEF Creates, Outcome
  <2>2. o.target \in Items /\ ReadOf(o.target) = o.reads[o.target]
    BY <1>1, <1>6 DEF PlanSound, Current
  <2>3. head[o.target].state = "active" /\ ~ Frozen(o.target)
    BY <1>6, <2>2, ReadFields DEF PlanSound, Frozen
  <2>4. QED BY <1>1, <2>1, <2>2, <2>3
<1>7. CASE o.action = "merge"
  <2>1. PICK fresh \in Items : /\ head[fresh] = Missing
                               /\ head' = Merged(fresh, o.inputs)
                               /\ born' = [born EXCEPT ![fresh] = commits + 1]
    BY <1>1, <1>7 DEF Creates, Outcome
  <2>2. \A i \in o.inputs : ReadOf(i) = o.reads[i]
    BY <1>1, <1>7 DEF PlanSound, Current
  <2>3. o.inputs \in SUBSET Items /\ Mergeable(o.inputs)
    BY <1>7, <2>2, ReadFields DEF PlanSound, Mergeable, Frozen
  <2>4. QED BY <1>1, <2>1, <2>3
<1>8. CASE o.action \in {"restore", "undo"}
  <2>1. head' = Restored(o.target, o.action) /\ born' = born
    BY <1>1, <1>8 DEF Creates, Outcome
  <2>2. o.target \in Items /\ Restorable(o.target, o.action)
    BY <1>1, <1>8 DEF PlanSound, Restores
  <2>3. QED BY <1>1, <1>8, <2>1, <2>2
<1>9. QED BY <1>2, <1>3, <1>4, <1>5, <1>6, <1>7, <1>8

\* A commit that writes no Artifact.
LEMMA UnchangedKeeps ==
    ASSUME Relations, head' = head, born' = born, commits' \in {commits, commits + 1}
    PROVE  Relations'
<1>1. Births'
  BY DEF Relations, Births
<1>2. TypeHead' /\ FrozenIsMarked' /\ ResultsYounger' /\ UnusedIsMissing'
  BY DEF Relations, TypeHead, HeadRows, FrozenIsMarked, ResultsYounger, UnusedIsMissing
<1>3. MarkedIsFrozen'
  BY DEF Relations, MarkedIsFrozen, Live
<1>4. InputsPlural'
  <2>1. \A r \in Items : (InputIds(r))' = InputIds(r)
    BY DEF InputIds
  <2>2. QED BY <2>1 DEF Relations, InputsPlural
<1>5. QED BY <1>1, <1>2, <1>3, <1>4 DEF Relations

\* The commit of any sound plan.
LEMMA CommitKeeps ==
    ASSUME Relations, NEW p \in Ops, PlanSound(op[p]), CommitWrites(p)
    PROVE  Relations'
<1>1. commits' = commits + 1
  BY CommitKinds
<1>2. CASE head' = head /\ born' = born
  BY <1>1, <1>2, UnchangedKeeps
<1>3. CASE /\ op[p].target \in Items /\ Live(op[p].target) /\ ~ Frozen(op[p].target)
           /\ head' = Changed(op[p].target) /\ born' = born
  BY <1>1, <1>3, ChangedKeeps
<1>4. CASE /\ op[p].target \in Items /\ head[op[p].target].state = "active"
           /\ ~ Frozen(op[p].target)
           /\ head' = Forgotten(op[p].target) /\ born' = born
  BY <1>1, <1>4, ForgottenKeeps
<1>5. CASE /\ op[p].target \in Items /\ op[p].action \in {"restore", "undo"}
           /\ Restorable(op[p].target, op[p].action)
           /\ head' = Restored(op[p].target, op[p].action) /\ born' = born
  BY <1>1, <1>5, RestoredKeeps
<1>6. ASSUME NEW fresh \in Items, head[fresh] = Missing,
             born' = [born EXCEPT ![fresh] = commits + 1],
             \/ head' = [head EXCEPT ![fresh] = Created({})]
             \/ /\ op[p].inputs \in SUBSET Items /\ Mergeable(op[p].inputs)
                /\ head' = Merged(fresh, op[p].inputs)
      PROVE  Relations'
  BY <1>1, <1>6, CreatedKeeps, MergedKeeps
<1>7. QED BY <1>2, <1>3, <1>4, <1>5, <1>6, CommitKinds

--------------------------------------------------------------------------------
(* Steps.                                                                  *)

\* A step either commits a plan, and its operation ends, or leaves Artifacts
\* alone and starts, continues or ends an operation.
Committing(p) == CommitWrites(p) /\ op' = [op EXCEPT ![p] = Idle]

Keeping == UNCHANGED <<head, commits, born>>

\* Every step is of one of the two kinds.
LEMMA StepKinds ==
    ASSUME Next
    PROVE  (\E p \in Ops : Committing(p)) \/ Keeping
<1> USE DEF Keeping, Committing
<1>1. PICK p \in Ops : Client(p) \/ Reviewer(p) \/ Flush(p) \/ Abandon(p)
  BY DEF Next
<1>2. CASE Client(p)
  BY <1>2 DEF Client, InspectCreate, InspectEdit, InspectMerge, InspectRestore, Commit
<1>3. CASE Reviewer(p)
  BY <1>3 DEF Reviewer, Propose, ReviseCandidate, RejectCandidate, InspectApprove, CommitApprove
<1>4. CASE Flush(p)
  BY <1>4 DEF Flush, AddSource, WindowRead, WindowPlanNothing, WindowPlanCreate, WindowPlanChange,
              WindowPlanMerge, WindowPlan, WindowReduce, WindowPublish
<1>5. CASE Abandon(p)
  BY <1>5 DEF Abandon
<1>6. QED BY <1>1, <1>2, <1>3, <1>4, <1>5

\* No plan is a sound one.
LEMMA IdleSound == PlanSound(Idle)
BY DEF PlanSound, Idle, Actions, Restores

\* A step that changes one operation to one with a sound plan.
LEMMA PlansKept ==
    ASSUME Plans, NEW p \in Ops, NEW o, op' = [op EXCEPT ![p] = o], PlanSound(o)
    PROVE  Plans'
<1>1. op' = [q \in Ops |-> IF q = p THEN o ELSE op[q]]
  BY DEF Plans
<1>2. \A q \in Ops : op'[q] = IF q = p THEN o ELSE op[q]
  BY <1>1
<1>3. op' = [q \in Ops |-> op'[q]]
  BY <1>1
<1>4. \A q \in Ops : PlanSound(op'[q])
  BY <1>2 DEF Plans
<1>5. \A q \in Ops : PlanSound(op[q])'
  BY <1>4 DEF PlanSound, Actions, Restores
<1>6. QED BY <1>3, <1>5 DEF Plans

\* The reads of a group are of each of its Artifacts.
LEMMA ReadsOfGroup ==
    ASSUME NEW group
    PROVE  DOMAIN ReadsOf(group) = group /\ \A a \in group : ReadsOf(group)[a] = ReadOf(a)
BY DEF ReadsOf

\* Every inspection leaves a sound plan.
LEMMA InspectedSound ==
    ASSUME NEW o, NEW a, o.target = a
    PROVE  /\ (a \in Items /\ Editable(a) /\ o.action = "change" /\ o.reads = ReadsOf({a}))
                  => PlanSound(o)
           /\ (a \in Items /\ Editable(a) /\ head[a].state = "active" /\ o.action = "forget"
                  /\ o.reads = ReadsOf({a})) => PlanSound(o)
           /\ (o.inputs \in SUBSET Items /\ Mergeable(o.inputs) /\ o.action = "merge"
                  /\ o.reads = ReadsOf(o.inputs)) => PlanSound(o)
           /\ o.action \in {"none", "create"} => PlanSound(o)
           /\ (a \in Items /\ o.action \in {"restore", "undo"}) => PlanSound(o)
<1> USE DEF Actions, Restores
<1>1. ASSUME a \in Items, Editable(a), o.reads = ReadsOf({a}),
             o.action = "change" \/ (o.action = "forget" /\ head[a].state = "active")
      PROVE  PlanSound(o)
  <2>1. DOMAIN o.reads = {a} /\ o.reads[a] = ReadOf(a)
    BY <1>1, ReadsOfGroup
  <2>2. o.reads[a].into = None /\ o.reads[a].state = head[a].state
    BY <1>1, <2>1, ReadFields DEF Editable, Frozen
  <2>3. QED BY <1>1, <2>1, <2>2 DEF PlanSound, Editable, Live
<1>2. ASSUME o.inputs \in SUBSET Items, Mergeable(o.inputs), o.action = "merge",
             o.reads = ReadsOf(o.inputs)
      PROVE  PlanSound(o)
  <2>1. DOMAIN o.reads = o.inputs /\ \A i \in o.inputs : o.reads[i] = ReadOf(i)
    BY <1>2, ReadsOfGroup
  <2>2. \A i \in o.inputs : o.reads[i].state = "active" /\ o.reads[i].into = None
    BY <1>2, <2>1, ReadFields DEF Mergeable, Frozen
  <2>3. QED BY <1>2, <2>1, <2>2 DEF PlanSound, Mergeable
<1>3. o.action \in {"none", "create"} => PlanSound(o)
  BY DEF PlanSound
<1>4. (a \in Items /\ o.action \in {"restore", "undo"}) => PlanSound(o)
  BY DEF PlanSound
<1>5. QED BY <1>1, <1>2, <1>3, <1>4

\* Candidates that exist have an Artifact for target.
Cases == cand \in [Cands -> CandRows]
         /\ \A c \in Cands : cand[c].status # "none" => cand[c].item \in Items

\* Every step leaves sound plans.
LEMMA PlansStep ==
    ASSUME Plans, Relations, Cases, Next
    PROVE  Plans'
<1> USE DEF Idle
<1>1. PICK p \in Ops : Client(p) \/ Reviewer(p) \/ Flush(p) \/ Abandon(p)
  BY DEF Next
<1>2. CASE op' = op
  BY <1>2 DEF Plans, PlanSound, Actions, Restores
<1>3. CASE op' = [op EXCEPT ![p] = Idle]
  BY <1>3, PlansKept, IdleSound
<1>4. ASSUME NEW a \in Items, NEW action \in {"change", "forget"}, InspectEdit(p, a, action)
      PROVE  Plans'
  <2> DEFINE o == [Idle EXCEPT !.by = "client", !.action = action, !.target = a,
                               !.inputs = {}, !.reads = ReadsOf({a})]
  <2>1. op' = [op EXCEPT ![p] = o] /\ Editable(a) /\ (action = "forget" => head[a].state = "active")
    BY <1>4 DEF InspectEdit, Busy
  <2>2. o.target = a /\ o.action = action /\ o.reads = ReadsOf({a})
    OBVIOUS
  <2> HIDE DEF o
  <2>3. PlanSound(o)
    BY <2>1, <2>2, InspectedSound
  <2>4. QED BY <2>1, <2>3, PlansKept
<1>5. ASSUME NEW inputs \in SUBSET Items, InspectMerge(p, inputs)
      PROVE  Plans'
  <2> DEFINE o == [Idle EXCEPT !.by = "client", !.action = "merge", !.target = None,
                               !.inputs = inputs, !.reads = ReadsOf(inputs)]
  <2>1. op' = [op EXCEPT ![p] = o] /\ Mergeable(inputs)
    BY <1>5 DEF InspectMerge, Busy
  <2>2. o.inputs = inputs /\ o.action = "merge" /\ o.reads = ReadsOf(inputs)
    OBVIOUS
  <2> HIDE DEF o
  <2>3. PlanSound(o)
    BY <2>1, <2>2, InspectedSound
  <2>4. QED BY <2>1, <2>3, PlansKept
<1>6. ASSUME NEW a \in Items, NEW action \in {"restore", "undo"}, InspectRestore(p, a, action)
      PROVE  Plans'
  <2> DEFINE o == [Idle EXCEPT !.by = "client", !.action = action, !.target = a,
                               !.inputs = {}, !.reads = ReadsOf(Group(a, action))]
  <2>1. op' = [op EXCEPT ![p] = o]
    BY <1>6 DEF InspectRestore, Busy
  <2>2. o.target = a /\ o.action = action
    OBVIOUS
  <2> HIDE DEF o
  <2>3. PlanSound(o)
    BY <2>2, InspectedSound
  <2>4. QED BY <2>1, <2>3, PlansKept
<1>7. ASSUME InspectCreate(p)
      PROVE  Plans'
  <2> DEFINE o == [Idle EXCEPT !.by = "client", !.action = "create", !.target = None,
                               !.inputs = {}, !.reads = ReadsOf({})]
  <2>1. op' = [op EXCEPT ![p] = o]
    BY <1>7 DEF InspectCreate, Busy
  <2>2. o.action = "create"
    OBVIOUS
  <2> HIDE DEF o
  <2>3. PlanSound(o)
    BY <2>2, InspectedSound
  <2>4. QED BY <2>1, <2>3, PlansKept
<1>8. ASSUME NEW c \in Cands, InspectApprove(p, c)
      PROVE  Plans'
  <2> DEFINE a == cand[c].item
             o == [Idle EXCEPT !.by = "reviewer", !.action = "change", !.target = a,
                               !.cand = c, !.reads = ReadsOf({a}), !.version = cand[c].version]
  <2>1. op' = [op EXCEPT ![p] = o] /\ head[a].state = "active" /\ cand[c].status = "pending"
    BY <1>8 DEF InspectApprove
  <2>2. o.target = a /\ o.action = "change" /\ o.reads = ReadsOf({a})
    OBVIOUS
  <2>3. a \in Items
    BY <2>1 DEF Cases
  <2>4. Editable(a)
    BY <2>1, <2>3 DEF Relations, FrozenIsMarked, Editable, Frozen, Live
  <2> HIDE DEF o
  <2>5. PlanSound(o)
    BY <2>2, <2>3, <2>4, InspectedSound
  <2>6. QED BY <2>1, <2>5, PlansKept
<1>9. ASSUME WindowRead(p)
      PROVE  Plans'
  <2> DEFINE o == [Idle EXCEPT !.by = "reading", !.after = cursor.seq, !.gen = cursor.gen,
                               !.through = Least(rows, cursor.seq + Limit), !.water = rows]
  <2>1. op' = [op EXCEPT ![p] = o]
    BY <1>9 DEF WindowRead
  <2>2. o.action = "none"
    OBVIOUS
  <2> HIDE DEF o
  <2>3. PlanSound(o)
    BY <2>2, InspectedSound
  <2>4. QED BY <2>1, <2>3, PlansKept
<1>10. ASSUME NEW action, NEW target, NEW inputs, NEW group,
              WindowPlan(p, action, target, inputs, group),
              \/ action \in {"none", "create"}
              \/ /\ target \in Items /\ Editable(target) /\ action = "change" /\ group = {target}
              \/ /\ inputs \in SUBSET Items /\ Mergeable(inputs) /\ action = "merge"
                 /\ group = inputs
       PROVE  Plans'
  <2> DEFINE o == [Idle EXCEPT !.by = "window", !.action = action, !.target = target,
                               !.inputs = inputs, !.reads = ReadsOf(group),
                               !.after = op[p].after, !.through = op[p].through,
                               !.gen = op[p].gen, !.water = op[p].water]
  <2>1. op' = [op EXCEPT ![p] = o]
    BY <1>10 DEF WindowPlan
  <2>2. o.target = target /\ o.action = action /\ o.reads = ReadsOf(group) /\ o.inputs = inputs
    OBVIOUS
  <2> HIDE DEF o
  <2>3. PlanSound(o)
    BY <1>10, <2>2, InspectedSound
  <2>4. QED BY <2>1, <2>3, PlansKept
<1> HIDE DEF Idle
<1>11. CASE Client(p)
  BY <1>11, <1>3, <1>4, <1>5, <1>6, <1>7 DEF Client, Commit
<1>12. CASE Reviewer(p)
  BY <1>12, <1>2, <1>3, <1>8
     DEF Reviewer, Propose, ReviseCandidate, RejectCandidate, CommitApprove
<1>13. CASE Flush(p)
  <2>1. ASSUME NEW a \in Items, WindowPlanChange(p, a)
        PROVE  Plans'
    BY <2>1, <1>10 DEF WindowPlanChange
  <2>2. ASSUME NEW inputs \in SUBSET Items, WindowPlanMerge(p, inputs)
        PROVE  Plans'
    BY <2>2, <1>10 DEF WindowPlanMerge
  <2>3. CASE WindowPlanNothing(p) \/ WindowPlanCreate(p)
    BY <2>3, <1>10 DEF WindowPlanNothing, WindowPlanCreate
  <2>4. CASE AddSource
    BY <2>4, <1>2 DEF AddSource
  <2>5. CASE WindowReduce(p) \/ WindowPublish(p)
    BY <2>5, <1>3 DEF WindowReduce, WindowPublish
  <2>6. QED BY <1>13, <1>9, <2>1, <2>2, <2>3, <2>4, <2>5 DEF Flush
<1>14. CASE Abandon(p)
  BY <1>14, <1>3 DEF Abandon
<1>15. QED BY <1>1, <1>11, <1>12, <1>13, <1>14

--------------------------------------------------------------------------------
(* Revisions and state versions only grow.                                 *)

Newer(x) == /\ head'[x].rev >= head[x].rev /\ head'[x].gen >= head[x].gen
            /\ head'[x].rev > head[x].rev \/ head'[x].gen > head[x].gen

\* A commit leaves an Artifact as it was, or newer.
LEMMA CommitMonotone ==
    ASSUME Relations, NEW p \in Ops, PlanSound(op[p]), CommitWrites(p), NEW x \in Items
    PROVE  /\ head'[x] = head[x] \/ Newer(x)
           /\ op[p].action = "change" /\ x = op[p].target => head'[x].rev = head[x].rev + 1
<1>1. TypeHead
  BY DEF Relations
<1>2. head[x] \in HeadRows /\ head[x].rev \in Nat /\ head[x].gen \in Nat
  BY <1>1 DEF TypeHead, HeadRows
<1> DEFINE t == op[p].target
<1>3. CASE t \in Items /\ head' = Changed(t)
  BY <1>1, <1>2, <1>3 DEF Changed, Newer, TypeHead, HeadRows
<1>4. ASSUME op[p].action = "change"
      PROVE  t \in Items /\ head' = Changed(t)
  BY <1>4 DEF CommitWrites, Creates, Outcome, PlanSound
<1>5. CASE t \in Items /\ head' = Forgotten(t)
  <2>1. head'[x] = IF x = t THEN Transition(head[x], "deprecated", None, 0) ELSE head[x]
    BY <1>1, <1>5 DEF Forgotten, TypeHead
  <2>2. Transition(head[x], "deprecated", None, 0).rev = head[x].rev
        /\ Transition(head[x], "deprecated", None, 0).gen = head[x].gen + 1
    BY <1>2 DEF Transition
  <2>3. QED BY <1>2, <1>3, <1>4, <2>1, <2>2 DEF Newer
<1>6. CASE t \in Items /\ head' = Restored(t, op[p].action)
  <2>1. head'[x] = head[x] \/ (head'[x].rev = head[x].rev + 1 /\ head'[x].gen = head[x].gen + 1)
    BY <1>1, <1>6, RestoredRows
  <2>2. QED BY <1>2, <1>3, <1>4, <2>1 DEF Newer
<1>7. ASSUME NEW fresh \in Items, head[fresh] = Missing, NEW marked,
             head'[fresh] = Created(marked)
      PROVE  Newer(fresh)
  BY <1>7 DEF Missing, Created, Newer
<1>8. ASSUME NEW fresh \in Items, head[fresh] = Missing,
             head' = [head EXCEPT ![fresh] = Created({})]
      PROVE  head'[x] = head[x] \/ Newer(x)
  BY <1>1, <1>7, <1>8 DEF TypeHead
<1>9. ASSUME NEW fresh \in Items, head[fresh] = Missing, NEW inputs \in SUBSET Items,
             head' = Merged(fresh, inputs)
      PROVE  head'[x] = head[x] \/ Newer(x)
  <2>1. CASE x = fresh
    BY <1>7, <1>9, <2>1 DEF Merged
  <2>2. CASE x # fresh
    <3>1. head'[x] = head[x] \/ head'[x] = Transition(head[x], "deprecated", fresh, 0)
      BY <1>9, <2>2 DEF Merged
    <3>2. Transition(head[x], "deprecated", fresh, 0).rev = head[x].rev
          /\ Transition(head[x], "deprecated", fresh, 0).gen = head[x].gen + 1
      BY <1>2 DEF Transition
    <3>3. QED BY <1>2, <3>1, <3>2 DEF Newer
  <2>3. QED BY <2>1, <2>2
<1>10. head'[x] = head[x] \/ Newer(x)
  BY <1>3, <1>5, <1>6, <1>8, <1>9, CommitKinds
<1>11. QED BY <1>3, <1>4, <1>10

--------------------------------------------------------------------------------
(* Reviews.                                                                *)

\* An approval under way is of a Candidate, and changes its target.
Approvals ==
    \A p \in Ops : op[p].by = "reviewer" =>
        /\ op[p].cand \in Cands /\ op[p].version \in 0..MaxVersion
        /\ op[p].action = "change"
        /\ cand[op[p].cand].status # "none"
        /\ op[p].target = cand[op[p].cand].item

\* What was approved is not above the head that it went into.
Published ==
    \A c \in Cands : cand[c].status = "approved" =>
        /\ cand[c].text = cand[c].version
        /\ cand[c].result = cand[c].rev + 1
        /\ cand[c].result <= head[cand[c].item].rev

Reviews == Relations /\ Plans /\ Cases /\ Approvals /\ Published /\ ReviewedIsPublished

\* Steps that leave Candidates alone.
LEMMA CandidatesAlone ==
    ASSUME Reviews, NEW p \in Ops, NEW o, op' = [op EXCEPT ![p] = o], cand' = cand,
           o.by = "reviewer" => /\ o.cand \in Cands /\ o.version \in 0..MaxVersion
                                /\ o.action = "change" /\ cand[o.cand].status # "none"
                                /\ o.target = cand[o.cand].item
    PROVE  Cases' /\ Approvals'
<1>1. \A q \in Ops : op'[q] = IF q = p THEN o ELSE op[q]
  BY DEF Reviews, Plans
<1>2. Cases'
  BY DEF Reviews, Cases
<1>3. Approvals'
  BY <1>1 DEF Reviews, Approvals
<1>4. QED BY <1>2, <1>3

\* Steps that leave Candidates alone take no revision back.
LEMMA PublishedStep ==
    ASSUME Reviews, Next, cand' = cand
    PROVE  Published' /\ ReviewedIsPublished'
<1>1. \A x \in Items : head'[x].rev >= head[x].rev
  <2>1. \A x \in Items : head[x].rev \in Nat
    BY DEF Reviews, Relations, TypeHead, HeadRows
  <2>2. CASE Keeping
    BY <2>1, <2>2 DEF Keeping
  <2>3. ASSUME NEW p \in Ops, CommitWrites(p), NEW x \in Items
        PROVE  head'[x].rev >= head[x].rev
    BY <2>1, <2>3, CommitMonotone DEF Reviews, Plans, Newer
  <2>4. QED BY <2>2, <2>3, StepKinds DEF Committing
<1>2. \A x \in Items : head[x].rev \in Nat /\ head'[x].rev \in Nat
  <2>1. Relations'
    BY StepKinds, CommitKeeps, UnchangedKeeps DEF Reviews, Plans, Keeping, Committing
  <2>2. QED BY <2>1 DEF Reviews, Relations, TypeHead, HeadRows
<1>3. \A c \in Cands : cand[c].result \in Nat
  BY DEF Reviews, Cases, CandRows
<1>4. Published'
  BY <1>1, <1>2, <1>3 DEF Reviews, Published, Cases
<1>5. ReviewedIsPublished'
  BY DEF Reviews, ReviewedIsPublished
<1>6. QED BY <1>4, <1>5

\* A step on one Candidate that does not approve it, with no other change.
LEMMA CandidateMoved ==
    ASSUME Reviews, NEW c \in Cands, NEW row \in CandRows, op' = op, head' = head,
           cand' = [cand EXCEPT ![c] = row], cand[c].status # "approved",
           row.status \in {"pending", "rejected"}, row.item \in Items,
           cand[c].status # "none" => row.item = cand[c].item
    PROVE  Cases' /\ Approvals' /\ Published' /\ ReviewedIsPublished'
<1>1. \A d \in Cands : cand'[d] = IF d = c THEN row ELSE cand[d]
  BY DEF Reviews, Cases
<1>2. Cases'
  <2>1. cand' \in [Cands -> CandRows]
    BY DEF Reviews, Cases
  <2>2. QED BY <1>1, <2>1 DEF Reviews, Cases
<1>3. Approvals'
  BY <1>1 DEF Reviews, Approvals
<1>4. Published'
  BY <1>1 DEF Reviews, Published
<1>5. ReviewedIsPublished'
  BY <1>1 DEF Reviews, ReviewedIsPublished
<1>6. QED BY <1>2, <1>3, <1>4, <1>5

\* The approval of a Candidate for which the head is still the target.
LEMMA ApprovalPublishes ==
    ASSUME Reviews, NEW p \in Ops, CommitApprove(p)
    PROVE  Cases' /\ Approvals' /\ Published' /\ ReviewedIsPublished'
<1> DEFINE c == op[p].cand
           a == op[p].target
           row == [status |-> "approved", version |-> cand[c].version, item |-> cand[c].item,
                   rev |-> cand[c].rev, result |-> head[a].rev + 1, text |-> op[p].version]
<1>1. /\ op[p].by = "reviewer" /\ cand[c].status = "pending" /\ cand[c].version = op[p].version
      /\ head[cand[c].item].rev = cand[c].rev /\ CommitWrites(p)
      /\ cand' = [cand EXCEPT ![c] = row]
      /\ op' = [op EXCEPT ![p] = Idle]
  BY DEF CommitApprove, LockPending, TargetIsHead
<1>2. /\ c \in Cands /\ op[p].version \in 0..MaxVersion /\ op[p].action = "change"
      /\ a = cand[c].item /\ a \in Items /\ PlanSound(op[p])
  BY <1>1 DEF Reviews, Approvals, Plans, Cases
<1>3. head[a].rev \in Nat /\ cand \in [Cands -> CandRows] /\ Relations
  BY <1>2 DEF Reviews, Cases, Relations, TypeHead, HeadRows
<1>4. head'[a].rev = head[a].rev + 1
  BY <1>1, <1>2, <1>3, CommitMonotone
<1>5. \A x \in Items : /\ head[x].rev \in Nat
                       /\ head'[x].rev \in Nat /\ head'[x].rev >= head[x].rev
  <2>1. Relations'
    BY <1>1, <1>2, <1>3, CommitKeeps
  <2>2. \A x \in Items : head[x].rev \in Nat /\ head'[x].rev \in Nat
    BY <1>3, <2>1 DEF Relations, TypeHead, HeadRows
  <2>3. \A x \in Items : head'[x] = head[x] \/ Newer(x)
    BY <1>1, <1>2, <1>3, CommitMonotone
  <2>4. QED BY <2>2, <2>3 DEF Newer
<1>6. /\ cand' \in [Cands -> CandRows]
      /\ \A d \in Cands \ {c} : cand'[d] = cand[d]
      /\ cand'[c].status = "approved" /\ cand'[c].result = head[a].rev + 1
      /\ cand'[c].text = op[p].version /\ cand'[c].version = cand[c].version
      /\ cand'[c].rev = cand[c].rev /\ cand'[c].item = cand[c].item
  <2>1. cand[c] \in CandRows
    BY <1>2, <1>3
  <2>2. row \in CandRows
    BY <1>2, <1>3, <2>1 DEF CandRows
  <2>3. cand'[c] = row /\ \A d \in Cands \ {c} : cand'[d] = cand[d]
    BY <1>1, <1>2, <1>3
  <2>4. QED BY <1>1, <1>3, <2>2, <2>3
<1>7. \A q \in Ops : op'[q] = IF q = p THEN Idle ELSE op[q]
  BY <1>1 DEF Reviews, Plans
<1>8. Cases'
  BY <1>2, <1>6 DEF Reviews, Cases
<1>9. Approvals'
  BY <1>6, <1>7 DEF Reviews, Approvals, Idle
<1>10. \A d \in Cands : cand[d].result \in Nat
  BY <1>3 DEF CandRows
<1>11. Published'
  <2>1. SUFFICES ASSUME NEW d \in Cands, cand'[d].status = "approved"
                 PROVE  /\ cand'[d].text = cand'[d].version
                        /\ cand'[d].result = cand'[d].rev + 1
                        /\ cand'[d].result <= head'[cand'[d].item].rev
    BY DEF Published
  <2>2. CASE d = c
    <3>1. cand'[d].item = a /\ cand'[d].result = head'[a].rev
      BY <2>2, <1>2, <1>4, <1>6
    <3>2. cand'[d].text = cand'[d].version /\ cand'[d].result = cand'[d].rev + 1
      BY <2>2, <1>1, <1>2, <1>6
    <3>3. head'[a].rev <= head'[a].rev
      BY <1>2, <1>5
    <3>4. QED BY <3>1, <3>2, <3>3
  <2>3. CASE d # c
    <3>1. cand'[d] = cand[d] /\ cand[d].status = "approved" /\ cand[d].item \in Items
      BY <1>6, <2>1, <2>3 DEF Reviews, Cases
    <3>2. /\ cand[d].text = cand[d].version /\ cand[d].result = cand[d].rev + 1
          /\ cand[d].result <= head[cand[d].item].rev
      BY <3>1 DEF Reviews, Published
    <3>3. cand[d].result <= head'[cand[d].item].rev
      BY <1>5, <1>10, <3>1, <3>2
    <3>4. QED BY <3>1, <3>2, <3>3
  <2>4. QED BY <2>2, <2>3
<1>12. ASSUME NEW d \in Cands \ {c}, cand[d].status = "approved", cand[d].item = a
       PROVE  cand[d].result # head[a].rev + 1
  <2>1. cand[d].result <= head[a].rev
    BY <1>12 DEF Reviews, Published
  <2>2. QED BY <1>3, <1>10, <2>1
<1>13. ReviewedIsPublished'
  <2>1. ASSUME NEW d \in Cands, NEW e \in Cands \ {d}, cand'[d].status = "approved",
               cand'[e].status = "approved", cand'[e].item = cand'[d].item
        PROVE  cand'[e].result # cand'[d].result
    <3>1. CASE d = c
      BY <3>1, <2>1, <1>2, <1>6, <1>12
    <3>2. CASE e = c
      BY <3>2, <2>1, <1>2, <1>6, <1>12
    <3>3. CASE d # c /\ e # c
      BY <3>3, <2>1, <1>6 DEF Reviews, ReviewedIsPublished
    <3>4. QED BY <3>1, <3>2, <3>3
  <2>2. QED BY <2>1, <1>11 DEF ReviewedIsPublished, Published
<1>14. QED BY <1>8, <1>9, <1>11, <1>13

\* The invariant is inductive.
LEMMA ReviewsStep ==
    ASSUME Reviews, Next
    PROVE  Reviews'
<1>1. Relations'
  BY StepKinds, CommitKeeps, UnchangedKeeps DEF Reviews, Plans, Keeping, Committing
<1>2. Plans'
  BY PlansStep DEF Reviews
<1>3. PICK p \in Ops : Client(p) \/ Reviewer(p) \/ Flush(p) \/ Abandon(p)
  BY DEF Next
<1> DEFINE Goal == Cases' /\ Approvals' /\ Published' /\ ReviewedIsPublished'
<1>4. ASSUME cand' = cand, NEW o, op' = [op EXCEPT ![p] = o],
             o.by = "reviewer" => /\ o.cand \in Cands /\ o.version \in 0..MaxVersion
                                  /\ o.action = "change" /\ cand[o.cand].status # "none"
                                  /\ o.target = cand[o.cand].item
      PROVE  Goal
  BY <1>4, CandidatesAlone, PublishedStep
<1>5. ASSUME cand' = cand, op' = op
      PROVE  Goal
  <2>1. Cases' /\ Approvals'
    BY <1>5 DEF Reviews, Cases, Approvals
  <2>2. QED BY <1>5, <2>1, PublishedStep
<1>6. ASSUME cand' = cand, op' = [op EXCEPT ![p] = Idle]
      PROVE  Goal
  <2>1. Idle.by # "reviewer"
    BY DEF Idle
  <2>2. QED BY <1>4, <1>6, <2>1
<1>7. ASSUME NEW action, NEW target, NEW inputs, NEW group, cand' = cand,
             Busy(p, "client", action, target, inputs, group)
      PROVE  Goal
  <2> DEFINE o == [Idle EXCEPT !.by = "client", !.action = action, !.target = target,
                               !.inputs = inputs, !.reads = ReadsOf(group)]
  <2>1. o.by # "reviewer"
    BY DEF Idle
  <2>2. op' = [op EXCEPT ![p] = o]
    BY <1>7 DEF Busy
  <2> HIDE DEF o
  <2>3. QED BY <1>4, <1>7, <2>1, <2>2
<1>8. ASSUME WindowRead(p)
      PROVE  Goal
  <2> DEFINE o == [Idle EXCEPT !.by = "reading", !.after = cursor.seq, !.gen = cursor.gen,
                               !.through = Least(rows, cursor.seq + Limit), !.water = rows]
  <2>1. o.by # "reviewer"
    BY DEF Idle
  <2>2. op' = [op EXCEPT ![p] = o] /\ cand' = cand
    BY <1>8 DEF WindowRead
  <2> HIDE DEF o
  <2>3. QED BY <1>4, <2>1, <2>2
<1>9. ASSUME NEW action, NEW target, NEW inputs, NEW group,
             WindowPlan(p, action, target, inputs, group)
      PROVE  Goal
  <2> DEFINE o == [Idle EXCEPT !.by = "window", !.action = action, !.target = target,
                               !.inputs = inputs, !.reads = ReadsOf(group),
                               !.after = op[p].after, !.through = op[p].through,
                               !.gen = op[p].gen, !.water = op[p].water]
  <2>1. o.by # "reviewer"
    BY DEF Idle
  <2>2. op' = [op EXCEPT ![p] = o] /\ cand' = cand
    BY <1>9 DEF WindowPlan
  <2> HIDE DEF o
  <2>3. QED BY <1>4, <2>1, <2>2
<1>10. ASSUME NEW c \in Cands, InspectApprove(p, c)
       PROVE  Goal
  <2> DEFINE a == cand[c].item
             o == [Idle EXCEPT !.by = "reviewer", !.action = "change", !.target = a,
                               !.cand = c, !.reads = ReadsOf({a}), !.version = cand[c].version]
  <2>1. op' = [op EXCEPT ![p] = o] /\ cand' = cand /\ cand[c].status = "pending"
    BY <1>10 DEF InspectApprove
  <2>2. o.cand = c /\ o.version = cand[c].version /\ o.action = "change" /\ o.target = a
    BY DEF Idle
  <2>3. cand[c].version \in 0..MaxVersion
    BY DEF Reviews, Cases, CandRows
  <2> HIDE DEF o
  <2>4. QED BY <1>4, <2>1, <2>2, <2>3
<1>11. ASSUME NEW c \in Cands, NEW a \in Items, Propose(c, a)
       PROVE  Goal
  <2> DEFINE row == Unpublished("pending", 1, a, head[a].rev)
  <2>1. /\ op' = op /\ head' = head /\ cand' = [cand EXCEPT ![c] = row]
        /\ cand[c].status = "none"
    BY <1>11 DEF Propose, NoCand, Unpublished
  <2>2. head[a].rev \in Nat /\ 1 \in 0..MaxVersion /\ 0 \in 0..MaxVersion
    BY BoundAssumption DEF Reviews, Relations, TypeHead, HeadRows
  <2>3. row \in CandRows /\ row.status = "pending" /\ row.item = a
    BY <2>2 DEF CandRows, Unpublished
  <2> HIDE DEF row
  <2>4. QED BY <2>1, <2>3, CandidateMoved
<1>12. ASSUME NEW c \in Cands, ReviseCandidate(c)
       PROVE  Goal
  <2> DEFINE row == Unpublished("pending", cand[c].version + 1, cand[c].item, cand[c].rev)
  <2>1. /\ op' = op /\ head' = head /\ cand' = [cand EXCEPT ![c] = row]
        /\ cand[c].status = "pending" /\ cand[c].version < MaxVersion
    BY <1>12 DEF ReviseCandidate
  <2>2. cand[c].item \in Items /\ cand[c] \in CandRows
    BY <2>1 DEF Reviews, Cases
  <2>3. cand[c].version + 1 \in 0..MaxVersion /\ 0 \in 0..MaxVersion /\ cand[c].rev \in Nat
    BY <2>1, <2>2, BoundAssumption DEF CandRows
  <2>4. row \in CandRows /\ row.status = "pending" /\ row.item = cand[c].item
    BY <2>2, <2>3 DEF CandRows, Unpublished
  <2> HIDE DEF row
  <2>5. QED BY <2>1, <2>2, <2>4, CandidateMoved
<1>13. ASSUME NEW c \in Cands, RejectCandidate(c)
       PROVE  Goal
  <2> DEFINE row == Unpublished("rejected", cand[c].version, cand[c].item, cand[c].rev)
  <2>1. /\ op' = op /\ head' = head /\ cand' = [cand EXCEPT ![c] = row]
        /\ cand[c].status = "pending"
    BY <1>13 DEF RejectCandidate
  <2>2. cand[c].item \in Items /\ cand[c] \in CandRows
    BY <2>1 DEF Reviews, Cases
  <2>3. cand[c].version \in 0..MaxVersion /\ 0 \in 0..MaxVersion /\ cand[c].rev \in Nat
    BY <2>2, BoundAssumption DEF CandRows
  <2>4. row \in CandRows /\ row.status = "rejected" /\ row.item = cand[c].item
    BY <2>2, <2>3 DEF CandRows, Unpublished
  <2> HIDE DEF row
  <2>5. QED BY <2>1, <2>2, <2>4, CandidateMoved
<1>15. SUFFICES Goal
  BY <1>1, <1>2 DEF Reviews
<1> HIDE DEF Goal
<1>16. CASE Client(p)
  BY <1>16, <1>6, <1>7
     DEF Client, InspectCreate, InspectEdit, InspectMerge, InspectRestore, Commit
<1>17. CASE Reviewer(p)
  <2>1. CASE CommitApprove(p)
    BY <2>1, ApprovalPublishes DEF Goal
  <2>2. QED BY <1>17, <1>10, <1>11, <1>12, <1>13, <2>1 DEF Reviewer
<1>18. CASE Flush(p)
  <2>1. CASE AddSource
    BY <2>1, <1>5 DEF AddSource
  <2>2. CASE WindowReduce(p) \/ WindowPublish(p)
    BY <2>2, <1>6 DEF WindowReduce, WindowPublish
  <2>3. QED
    BY <1>18, <1>8, <1>9, <2>1, <2>2
       DEF Flush, WindowPlanNothing, WindowPlanCreate, WindowPlanChange, WindowPlanMerge
<1>19. CASE Abandon(p)
  BY <1>19, <1>6 DEF Abandon
<1>20. QED BY <1>3, <1>16, <1>17, <1>18, <1>19

\* It holds at first.
LEMMA ReviewsInit == Init => Reviews
<1> SUFFICES ASSUME Init
             PROVE  Reviews
  OBVIOUS
<1>1. \A a \in Items : head[a] = Created({}) \/ head[a] = Missing
  BY DEF Init
<1>2. \A a \in Items : /\ head[a] \in HeadRows
                       /\ head[a].into = None /\ head[a].inputs = {}
                       /\ head[a].state = "none" => head[a] = Missing
  <2>1. Created({}) \in HeadRows /\ Missing \in HeadRows
    BY DEF Created, Missing, HeadRows, States
  <2>2. /\ Created({}).into = None /\ Created({}).inputs = {} /\ Created({}).state = "active"
        /\ Missing.into = None /\ Missing.inputs = {}
    BY DEF Created, Missing
  <2>3. QED BY <1>1, <2>1, <2>2
<1>3. TypeHead
  <2>1. head = [a \in Items |-> head[a]]
    BY DEF Init
  <2>2. QED BY <1>2, <2>1 DEF TypeHead
<1>4. Births
  BY DEF Init, Births
<1>5. FrozenIsMarked /\ MarkedIsFrozen /\ ResultsYounger /\ InputsPlural /\ UnusedIsMissing
  BY <1>2 DEF FrozenIsMarked, MarkedIsFrozen, ResultsYounger, InputsPlural, UnusedIsMissing
<1>6. Plans
  BY IdleSound DEF Init, Plans
<1>7. \A c \in Cands : cand[c] \in CandRows /\ cand[c].status = "none"
  BY BoundAssumption DEF Init, NoCand, Unpublished, CandRows
<1>8. Cases
  <2>1. cand = [c \in Cands |-> cand[c]]
    BY DEF Init
  <2>2. QED BY <1>7, <2>1 DEF Cases
<1>9. Approvals
  BY DEF Init, Approvals, Idle
<1>10. Published /\ ReviewedIsPublished
  BY <1>7 DEF Published, ReviewedIsPublished
<1>11. QED BY <1>3, <1>4, <1>5, <1>6, <1>8, <1>9, <1>10 DEF Reviews, Relations

\* It holds when nothing changes.
LEMMA ReviewsStutter ==
    ASSUME Reviews, UNCHANGED vars
    PROVE  Reviews'
<1> USE DEF vars
<1>1. Relations'
  BY UnchangedKeeps DEF Reviews
<1>2. Plans'
  BY DEF Reviews, Plans, PlanSound, Restores
<1>3. Cases' /\ Approvals' /\ Published' /\ ReviewedIsPublished'
  BY DEF Reviews, Cases, Approvals, Published, ReviewedIsPublished
<1>4. QED BY <1>1, <1>2, <1>3 DEF Reviews

\* So it always holds.
LEMMA ReviewsHold == Spec => []Reviews
<1>1. Reviews /\ [Next]_vars => Reviews'
  BY ReviewsStep, ReviewsStutter
<1>2. QED BY <1>1, ReviewsInit, PTL DEF Spec

\* Whatever clients, reviewers and flushes do at the same time, a deprecated
\* Artifact can be restored and a merge in effect can be undone.
THEOREM RestorableAlways == Spec => []AlwaysRestorable
<1>1. Reviews => AlwaysRestorable
  BY RelationsRestorable DEF Reviews
<1>2. QED BY <1>1, ReviewsHold, PTL

\* Whatever approvals, edits and changes overlap, an approval publishes the
\* version that was reviewed as the successor of the revision it was for.
THEOREM ReviewedPublished == Spec => []ReviewedIsPublished
<1>1. Reviews => ReviewedIsPublished
  BY DEF Reviews
<1>2. QED BY <1>1, ReviewsHold, PTL

--------------------------------------------------------------------------------
(* Source windows.                                                         *)

\* A window under way lies within the journal.  If the cursor still has the
\* generation that was read, the cursor is where the window starts.
WindowSound(o) ==
    o.by \in {"reading", "window"} =>
        /\ {o.after, o.through, o.gen, o.water} \subseteq Nat
        /\ o.after <= o.through /\ o.through <= o.water /\ o.water <= rows
        /\ o.through - o.after <= WindowLimit
        /\ o.gen <= cursor.gen
        /\ o.gen = cursor.gen => o.after = cursor.seq

TypeWindow ==
    /\ rows \in 0..MaxRows
    /\ cursor.seq \in 0..rows /\ cursor.gen \in Nat
    /\ hint.through \in 0..rows
    /\ hint.limit \in Nat
    /\ hint.through > 0 => hint.limit \in 1..WindowLimit

Windows ==
    /\ op = [p \in Ops |-> op[p]]
    /\ TypeWindow
    /\ applied \in [1..MaxRows -> Nat]
    /\ RowsOnce
    /\ \A p \in Ops : WindowSound(op[p])

\* What a step may do to the windows under way.
LEMMA WindowSteps ==
    ASSUME Windows, Next
    PROVE  \E p \in Ops :
              /\ \A q \in Ops \ {p} : op'[q] = op[q]
              /\ op' = [q \in Ops |-> op'[q]]
              /\ \/ /\ op'[p] = op[p] \/ op'[p].by \in {"nobody", "client", "reviewer"}
                    /\ \/ UNCHANGED <<rows, cursor, hint, applied>>
                       \/ AddSource
                       \/ WindowReduce(p)
                       \/ WindowPublish(p)
                 \/ /\ UNCHANGED <<rows, cursor, hint, applied>>
                    /\ op[p].by = "reading"
                    /\ op'[p].after = op[p].after /\ op'[p].through = op[p].through
                    /\ op'[p].gen = op[p].gen /\ op'[p].water = op[p].water
                 \/ /\ UNCHANGED <<rows, cursor, hint, applied>>
                    /\ rows > cursor.seq
                    /\ op'[p].after = cursor.seq /\ op'[p].gen = cursor.gen
                    /\ op'[p].through = Least(rows, cursor.seq + Limit)
                    /\ op'[p].water = rows
<1>1. PICK p \in Ops : Client(p) \/ Reviewer(p) \/ Flush(p) \/ Abandon(p)
  BY DEF Next
<1> DEFINE Same == /\ \A q \in Ops \ {p} : op'[q] = op[q]
                   /\ op' = [q \in Ops |-> op'[q]]
           Still == UNCHANGED <<rows, cursor, hint, applied>>
           Ends == op'[p] = op[p] \/ op'[p].by \in {"nobody", "client", "reviewer"}
           Quiet == Ends /\ (Still \/ AddSource \/ WindowReduce(p) \/ WindowPublish(p))
           Planned == /\ Still
                      /\ op[p].by = "reading"
                      /\ op'[p].after = op[p].after /\ op'[p].through = op[p].through
                      /\ op'[p].gen = op[p].gen /\ op'[p].water = op[p].water
           Read == /\ Still
                   /\ rows > cursor.seq
                   /\ op'[p].after = cursor.seq /\ op'[p].gen = cursor.gen
                   /\ op'[p].through = Least(rows, cursor.seq + Limit)
                   /\ op'[p].water = rows
<1>2. ASSUME NEW o, op' = [op EXCEPT ![p] = o]
      PROVE  Same /\ op'[p] = o
  BY <1>2 DEF Windows
<1>3. ASSUME op' = op
      PROVE  Same /\ op'[p] = op[p]
  BY <1>3 DEF Windows
<1>4. ASSUME op' = [op EXCEPT ![p] = Idle]
      PROVE  Same /\ Ends
  BY <1>2, <1>4 DEF Idle
<1>5. ASSUME NEW action, NEW target, NEW inputs, NEW group,
             Busy(p, "client", action, target, inputs, group)
      PROVE  Same /\ Ends
  <2> DEFINE o == [Idle EXCEPT !.by = "client", !.action = action, !.target = target,
                               !.inputs = inputs, !.reads = ReadsOf(group)]
  <2>1. o.by = "client"
    BY DEF Idle
  <2>2. op' = [op EXCEPT ![p] = o]
    BY <1>5 DEF Busy
  <2> HIDE DEF o
  <2>3. QED BY <1>2, <2>1, <2>2
<1>6. ASSUME NEW c \in Cands, InspectApprove(p, c)
      PROVE  Same /\ Ends
  <2> DEFINE a == cand[c].item
             o == [Idle EXCEPT !.by = "reviewer", !.action = "change", !.target = a,
                               !.cand = c, !.reads = ReadsOf({a}), !.version = cand[c].version]
  <2>1. op' = [op EXCEPT ![p] = o]
    BY <1>6 DEF InspectApprove
  <2>2. o.by = "reviewer"
    BY DEF Idle
  <2> HIDE DEF o
  <2>3. QED BY <1>2, <2>1, <2>2
<1>7. ASSUME WindowRead(p)
      PROVE  Same /\ Read
  <2> DEFINE o == [Idle EXCEPT !.by = "reading", !.after = cursor.seq, !.gen = cursor.gen,
                               !.through = Least(rows, cursor.seq + Limit), !.water = rows]
  <2>1. op' = [op EXCEPT ![p] = o] /\ Still /\ rows > cursor.seq
    BY <1>7 DEF WindowRead
  <2>2. /\ o.after = cursor.seq /\ o.gen = cursor.gen
        /\ o.through = Least(rows, cursor.seq + Limit) /\ o.water = rows
    BY DEF Idle
  <2> HIDE DEF o
  <2>3. QED BY <1>2, <2>1, <2>2
<1>8. ASSUME NEW action, NEW target, NEW inputs, NEW group,
             WindowPlan(p, action, target, inputs, group)
      PROVE  Same /\ Planned
  <2> DEFINE o == [Idle EXCEPT !.by = "window", !.action = action, !.target = target,
                               !.inputs = inputs, !.reads = ReadsOf(group),
                               !.after = op[p].after, !.through = op[p].through,
                               !.gen = op[p].gen, !.water = op[p].water]
  <2>1. op' = [op EXCEPT ![p] = o] /\ Still /\ op[p].by = "reading"
    BY <1>8 DEF WindowPlan
  <2>2. /\ o.after = op[p].after /\ o.through = op[p].through
        /\ o.gen = op[p].gen /\ o.water = op[p].water
    BY DEF Idle
  <2> HIDE DEF o
  <2>3. QED BY <1>2, <2>1, <2>2
<1> HIDE DEF Same, Ends, Planned, Read
<1>9. CASE Client(p)
  <2>1. Still
    BY <1>9 DEF Client, InspectCreate, InspectEdit, InspectMerge, InspectRestore, Commit
  <2>2. Same /\ Ends
    BY <1>9, <1>4, <1>5
       DEF Client, InspectCreate, InspectEdit, InspectMerge, InspectRestore, Commit
  <2>3. QED BY <2>1, <2>2 DEF Same, Ends
<1>10. CASE Reviewer(p)
  <2>1. Still
    BY <1>10 DEF Reviewer, Propose, ReviseCandidate, RejectCandidate, InspectApprove,
                 CommitApprove
  <2>2. Same /\ Ends
    <3>1. CASE op' = op
      BY <1>3, <3>1 DEF Ends
    <3>2. QED
      BY <1>10, <1>4, <1>6, <3>1
         DEF Reviewer, Propose, ReviseCandidate, RejectCandidate, CommitApprove
  <2>3. QED BY <2>1, <2>2 DEF Same, Ends
<1>11. CASE Flush(p)
  <2>1. CASE AddSource
    <3>1. op' = op
      BY <2>1 DEF AddSource
    <3>2. Same /\ Ends
      BY <1>3, <3>1 DEF Ends
    <3>3. QED BY <2>1, <3>2 DEF Same, Ends
  <2>2. CASE WindowReduce(p) \/ WindowPublish(p)
    <3>1. op' = [op EXCEPT ![p] = Idle]
      BY <2>2 DEF WindowReduce, WindowPublish
    <3>2. Same /\ Ends
      BY <1>4, <3>1
    <3>3. QED BY <2>2, <3>2 DEF Same, Ends
  <2>3. CASE WindowRead(p)
    BY <1>7, <2>3 DEF Same, Read
  <2>4. ASSUME NEW action, NEW target, NEW inputs, NEW group,
               WindowPlan(p, action, target, inputs, group)
        PROVE  Same /\ Planned
    BY <1>8, <2>4
  <2>5. CASE Same /\ Planned
    BY <2>5 DEF Same, Planned
  <2>6. QED
    BY <1>11, <2>1, <2>2, <2>3, <2>4, <2>5
       DEF Flush, WindowPlanNothing, WindowPlanCreate, WindowPlanChange, WindowPlanMerge
<1>12. CASE Abandon(p)
  <2>1. Still /\ Same /\ Ends
    BY <1>12, <1>4 DEF Abandon
  <2>2. QED BY <2>1 DEF Same, Ends
<1>13. QED BY <1>1, <1>9, <1>10, <1>11, <1>12

\* The window that activate() returns is within the journal and the limit.
LEMMA WindowFits ==
    ASSUME TypeWindow, rows > cursor.seq
    PROVE  LET through == Least(rows, cursor.seq + Limit) IN
           /\ through \in Nat /\ cursor.seq <= through /\ through <= rows
           /\ through - cursor.seq <= WindowLimit
<1>1. /\ rows \in Nat /\ cursor.seq \in Nat /\ hint.limit \in Nat
      /\ hint.through > 0 => hint.limit <= WindowLimit
  BY DEF TypeWindow
<1>2. Limit \in Nat /\ Limit <= WindowLimit
  BY <1>1, WindowAssumption DEF Limit, Least, TypeWindow
<1>3. QED BY <1>1, <1>2, WindowAssumption DEF Least

\* A window that is cut back keeps at least one source.
LEMMA HalfFits ==
    ASSUME NEW n \in Nat, n > 1, n <= WindowLimit
    PROVE  Half(n) \in 1..WindowLimit
BY WindowAssumption DEF Half

\* The invariant of the source windows is inductive.
LEMMA WindowsStep ==
    ASSUME Windows, Next
    PROVE  Windows'
<1>1. PICK p \in Ops :
              /\ \A q \in Ops \ {p} : op'[q] = op[q]
              /\ op' = [q \in Ops |-> op'[q]]
              /\ \/ /\ op'[p] = op[p] \/ op'[p].by \in {"nobody", "client", "reviewer"}
                    /\ \/ UNCHANGED <<rows, cursor, hint, applied>>
                       \/ AddSource
                       \/ WindowReduce(p)
                       \/ WindowPublish(p)
                 \/ /\ UNCHANGED <<rows, cursor, hint, applied>>
                    /\ op[p].by = "reading"
                    /\ op'[p].after = op[p].after /\ op'[p].through = op[p].through
                    /\ op'[p].gen = op[p].gen /\ op'[p].water = op[p].water
                 \/ /\ UNCHANGED <<rows, cursor, hint, applied>>
                    /\ rows > cursor.seq
                    /\ op'[p].after = cursor.seq /\ op'[p].gen = cursor.gen
                    /\ op'[p].through = Least(rows, cursor.seq + Limit)
                    /\ op'[p].water = rows
  BY WindowSteps
<1>2. TypeWindow /\ RowsOnce /\ applied \in [1..MaxRows -> Nat]
  BY DEF Windows
<1>3. \A q \in Ops : WindowSound(op[q])
  BY DEF Windows
<1>4. /\ rows \in Nat /\ cursor.seq \in Nat /\ cursor.gen \in Nat
      /\ hint.through \in Nat /\ hint.limit \in Nat
  BY <1>2 DEF TypeWindow
<1>5. ASSUME UNCHANGED <<rows, cursor, hint, applied>>, WindowSound(op'[p])
      PROVE  Windows'
  <2>1. TypeWindow' /\ RowsOnce' /\ (applied \in [1..MaxRows -> Nat])'
    BY <1>2, <1>5 DEF TypeWindow, RowsOnce
  <2>2. \A q \in Ops : WindowSound(op'[q])
    BY <1>1, <1>3, <1>5
  <2>3. \A q \in Ops : WindowSound(op[q])'
    BY <1>5, <2>2 DEF WindowSound
  <2>4. QED BY <1>1, <2>1, <2>3 DEF Windows
<1>6. CASE /\ op'[p] = op[p] \/ op'[p].by \in {"nobody", "client", "reviewer"}
           /\ UNCHANGED <<rows, cursor, hint, applied>>
  <2>1. WindowSound(op'[p])
    BY <1>3, <1>6 DEF WindowSound
  <2>2. QED BY <1>5, <1>6, <2>1
<1>7. CASE /\ UNCHANGED <<rows, cursor, hint, applied>>
           /\ op[p].by = "reading"
           /\ op'[p].after = op[p].after /\ op'[p].through = op[p].through
           /\ op'[p].gen = op[p].gen /\ op'[p].water = op[p].water
  <2>1. WindowSound(op'[p])
    BY <1>3, <1>7 DEF WindowSound
  <2>2. QED BY <1>5, <1>7, <2>1
<1>8. CASE /\ UNCHANGED <<rows, cursor, hint, applied>>
           /\ rows > cursor.seq
           /\ op'[p].after = cursor.seq /\ op'[p].gen = cursor.gen
           /\ op'[p].through = Least(rows, cursor.seq + Limit)
           /\ op'[p].water = rows
  <2> DEFINE through == Least(rows, cursor.seq + Limit)
  <2>1. /\ through \in Nat /\ cursor.seq <= through /\ through <= rows
        /\ through - cursor.seq <= WindowLimit
    BY <1>2, <1>8, WindowFits
  <2> HIDE DEF through
  <2>2. op'[p].through = through
    BY <1>8 DEF through
  <2>3. WindowSound(op'[p])
    BY <1>4, <1>8, <2>1, <2>2 DEF WindowSound
  <2>4. QED BY <1>5, <1>8, <2>3
<1>9. CASE AddSource
  <2>1. rows < MaxRows /\ rows' = rows + 1 /\ UNCHANGED <<op, cursor, hint, applied>>
    BY <1>9 DEF AddSource
  <2>2. TypeWindow'
    BY <1>2, <1>4, <2>1, WindowAssumption DEF TypeWindow
  <2>3. RowsOnce' /\ (applied \in [1..MaxRows -> Nat])'
    BY <1>2, <2>1 DEF RowsOnce
  <2>4. ASSUME NEW q \in Ops
        PROVE  WindowSound(op[q])'
    BY <1>3, <1>4, <2>1 DEF WindowSound
  <2>5. QED BY <1>1, <2>2, <2>3, <2>4 DEF Windows
<1>10. ASSUME op'[p].by \in {"nobody", "client", "reviewer"}, rows' = rows,
              cursor' = [seq |-> cursor'.seq, gen |-> cursor.gen + 1]
       PROVE  \A q \in Ops : WindowSound(op[q])'
  <2>1. cursor'.gen = cursor.gen + 1
    BY <1>10
  <2>2. WindowSound(op[p])'
    BY <1>10 DEF WindowSound
  <2>3. ASSUME NEW q \in Ops \ {p}
        PROVE  WindowSound(op[q])'
    <3>1. op'[q] = op[q] /\ WindowSound(op[q])
      BY <1>1, <1>3
    <3>2. QED BY <1>4, <1>10, <2>1, <3>1 DEF WindowSound
  <2>4. QED BY <2>2, <2>3
<1>11. CASE WindowReduce(p)
  <2> DEFINE o == op[p]
  <2>1. /\ o.by = "reading" /\ o.through - o.after > 1 /\ o.gen = cursor.gen
        /\ cursor' = [seq |-> o.after, gen |-> cursor.gen + 1]
        /\ hint' = [through |-> o.water, limit |-> Half(o.through - o.after)]
        /\ op' = [op EXCEPT ![p] = Idle] /\ rows' = rows /\ applied' = applied
    BY <1>11 DEF WindowReduce, CursorUnmoved
  <2>2. /\ o.after \in Nat /\ o.through \in Nat /\ o.water \in Nat
        /\ o.after <= o.through /\ o.through <= o.water /\ o.water <= rows
        /\ o.through - o.after <= WindowLimit /\ o.after = cursor.seq
    BY <1>3, <2>1 DEF WindowSound
  <2>3. cursor'.seq = cursor.seq /\ cursor'.gen = cursor.gen + 1
        /\ hint'.through = o.water /\ hint'.limit = Half(o.through - o.after)
    BY <2>1, <2>2
  <2>4. o.through - o.after \in Nat
    BY <2>2
  <2>5. Half(o.through - o.after) \in 1..WindowLimit
    BY <2>1, <2>2, <2>4, HalfFits
  <2>6. TypeWindow'
    BY <1>2, <1>4, <2>1, <2>2, <2>3, <2>5, WindowAssumption DEF TypeWindow
  <2>7. RowsOnce' /\ (applied \in [1..MaxRows -> Nat])'
    BY <1>2, <2>1, <2>3 DEF RowsOnce
  <2>8. op'[p].by = "nobody"
    BY <2>1 DEF Windows, Idle
  <2>9. \A q \in Ops : WindowSound(op[q])'
    BY <1>10, <2>1, <2>3, <2>8
  <2>10. QED BY <1>1, <2>6, <2>7, <2>9 DEF Windows
<1>12. CASE WindowPublish(p)
  <2> DEFINE o == op[p]
  <2>1. /\ o.by = "window" /\ o.gen = cursor.gen /\ cursor.seq = o.after
        /\ cursor' = [seq |-> o.through, gen |-> cursor.gen + 1]
        /\ hint' = IF hint.through <= o.through THEN [through |-> 0, limit |-> 0] ELSE hint
        /\ applied' = [i \in 1..MaxRows |->
                         IF o.after < i /\ i <= o.through THEN applied[i] + 1 ELSE applied[i]]
        /\ op' = [op EXCEPT ![p] = Idle] /\ rows' = rows
    BY <1>12 DEF WindowPublish, CursorUnmoved
  <2>2. /\ o.after \in Nat /\ o.through \in Nat /\ o.water \in Nat
        /\ o.after <= o.through /\ o.through <= o.water /\ o.water <= rows
    BY <1>3, <2>1 DEF WindowSound
  <2>3. cursor'.seq = o.through /\ cursor'.gen = cursor.gen + 1
    BY <2>1
  <2>4. hint' = hint \/ (hint'.through = 0 /\ hint'.limit = 0)
    BY <2>1
  <2>5. TypeWindow'
    BY <1>2, <1>4, <2>1, <2>2, <2>3, <2>4 DEF TypeWindow
  <2>6. ASSUME NEW i \in 1..MaxRows
        PROVE  applied'[i] = (IF i <= o.through THEN 1 ELSE 0)
    <3>1. applied[i] = IF i <= o.after THEN 1 ELSE 0
      BY <1>2, <2>1 DEF RowsOnce
    <3>2. applied'[i] = IF o.after < i /\ i <= o.through THEN applied[i] + 1 ELSE applied[i]
      BY <2>1
    <3>3. QED BY <2>2, <3>1, <3>2, WindowAssumption
  <2>7. RowsOnce' /\ (applied \in [1..MaxRows -> Nat])'
    <3>1. RowsOnce'
      BY <2>3, <2>6 DEF RowsOnce
    <3>2. applied' = [i \in 1..MaxRows |-> applied'[i]]
      BY <2>1
    <3>3. \A i \in 1..MaxRows : applied'[i] \in Nat
      BY <2>6
    <3>4. QED BY <3>1, <3>2, <3>3
  <2>8. op'[p].by = "nobody"
    BY <2>1 DEF Windows, Idle
  <2>9. \A q \in Ops : WindowSound(op[q])'
    BY <1>10, <2>1, <2>3, <2>8
  <2>10. QED BY <1>1, <2>5, <2>7, <2>9 DEF Windows
<1>13. QED BY <1>1, <1>6, <1>7, <1>8, <1>9, <1>11, <1>12

\* So it always holds, from the first state on.
LEMMA WindowsHold == Spec => []Windows
<1>1. Init => Windows
  <2> SUFFICES ASSUME Init
               PROVE  Windows
    OBVIOUS
  <2>1. \A p \in Ops : op[p] = Idle
    BY DEF Init
  <2>2. \A p \in Ops : WindowSound(op[p])
    BY <2>1 DEF WindowSound, Idle
  <2>3. TypeWindow /\ RowsOnce /\ applied \in [1..MaxRows -> Nat]
    BY WindowAssumption DEF Init, TypeWindow, RowsOnce
  <2>4. QED BY <2>2, <2>3 DEF Windows, Init
<1>2. Windows /\ [Next]_vars => Windows'
  <2>1. Windows /\ UNCHANGED vars => Windows'
    BY DEF Windows, vars, TypeWindow, RowsOnce, WindowSound
  <2>2. QED BY <2>1, WindowsStep
<1>3. QED BY <1>1, <1>2, PTL DEF Spec

\* Overlapping flushes, retries and reductions of a window publish every
\* source up to the cursor once, and none beyond it.
THEOREM SourcesOnce == Spec => []RowsOnce
<1>1. Windows => RowsOnce
  BY DEF Windows
<1>2. QED BY <1>1, WindowsHold, PTL

--------------------------------------------------------------------------------
(* Restorations under way.                                                 *)

Later(a, read) == /\ head[a].rev >= read.rev /\ head[a].gen >= read.gen
                  /\ head[a].rev > read.rev \/ head[a].gen > read.gen

\* The group that a restoration read has one endpoint, and with each frozen
\* Artifact the result it was merged into.  It is as it was read, or else its
\* endpoint has been written since.
Bound(o) ==
    Restores(o.action) =>
        /\ DOMAIN o.reads \subseteq Items
        /\ \A e, f \in DOMAIN o.reads :
              o.reads[e].into = None /\ o.reads[f].into = None => e = f
        /\ \A x \in DOMAIN o.reads :
              /\ o.reads[x].rev \in Nat /\ o.reads[x].gen \in Nat
              /\ o.reads[x].into # None => o.reads[x].into \in DOMAIN o.reads
        /\ \/ Current(o.reads)
           \/ \E e \in DOMAIN o.reads : o.reads[e].into = None /\ Later(e, o.reads[e])

\* A commit that writes a frozen Artifact writes what it was merged into.
LEMMA CommitUpwards ==
    ASSUME Relations, NEW p \in Ops, PlanSound(op[p]), CommitWrites(p), NEW x \in Items,
           head'[x] # head[x], head[x].into # None
    PROVE  /\ head[x].into \in Items
           /\ head'[head[x].into] # head[head[x].into]
<1> DEFINE t == op[p].target
           action == op[p].action
<1>1. TypeHead
  BY DEF Relations
<1>2. head[x].into \in Items
  BY <1>1 DEF TypeHead, HeadRows
<1>3. CASE t \in Items /\ ~ Frozen(t) /\ (head' = Changed(t) \/ head' = Forgotten(t))
  <2>1. x = t
    BY <1>1, <1>3 DEF TypeHead, Changed, Forgotten
  <2>2. QED BY <1>3, <2>1 DEF Frozen
<1>4. CASE /\ t \in Items /\ action \in {"restore", "undo"} /\ Restorable(t, action)
           /\ head' = Restored(t, action)
  <2>1. x \in Undone(t, action) \cup Released(t, action)
    BY <1>1, <1>4, RestoredRows
  <2>2. head[x].into \in Undone(t, action)
    BY <1>4, <2>1, WrittenUpwards
  <2>3. head'[head[x].into].rev = head[head[x].into].rev + 1
    BY <1>1, <1>2, <1>4, <2>2, RestoredRows
  <2>4. head[head[x].into].rev \in Nat
    BY <1>1, <1>2 DEF TypeHead, HeadRows
  <2>5. QED BY <1>2, <2>3, <2>4
<1>5. ASSUME NEW fresh \in Items, head[fresh] = Missing
      PROVE  x # fresh
  BY <1>5 DEF Missing
<1>6. ASSUME NEW fresh \in Items, head[fresh] = Missing,
             head' = [head EXCEPT ![fresh] = Created({})]
      PROVE  FALSE
  BY <1>1, <1>5, <1>6 DEF TypeHead
<1>7. ASSUME NEW fresh \in Items, head[fresh] = Missing, op[p].inputs \in SUBSET Items,
             Mergeable(op[p].inputs), head' = Merged(fresh, op[p].inputs)
      PROVE  FALSE
  <2>1. x # fresh
    BY <1>5, <1>7
  <2>2. x \in op[p].inputs
    BY <1>7, <2>1 DEF Merged
  <2>3. QED BY <1>7, <2>2 DEF Mergeable, Frozen
<1>8. QED BY <1>2, <1>3, <1>4, <1>6, <1>7, CommitKinds

\* What was read is as it was, or is later, after any commit.
LEMMA BoundKept ==
    ASSUME Relations, NEW p \in Ops, PlanSound(op[p]), CommitWrites(p),
           NEW q \in Ops, op'[q] = op[q], Bound(op[q])
    PROVE  Bound(op[q])'
<1> DEFINE reads == op[q].reads
           D == DOMAIN reads
<1>1. SUFFICES ASSUME Restores(op[q].action)
               PROVE  \/ Current(reads)'
                      \/ \E e \in D : reads[e].into = None /\ Later(e, reads[e])'
  BY DEF Bound, Restores
<1>2. /\ D \subseteq Items
      /\ \A x \in D : /\ reads[x].rev \in Nat /\ reads[x].gen \in Nat
                      /\ reads[x].into # None => reads[x].into \in D
  BY <1>1 DEF Bound
<1>3. /\ TypeHead
      /\ \A x \in Items : head[x].rev \in Nat /\ head[x].gen \in Nat
  BY DEF Relations, TypeHead, HeadRows
<1>4. \A x \in Items : head'[x] = head[x] \/ Newer(x)
  BY CommitMonotone
<1>5. \A x \in Items : head'[x].rev \in Nat /\ head'[x].gen \in Nat
  <2>1. Relations'
    BY CommitKeeps
  <2>2. QED BY <2>1 DEF Relations, TypeHead, HeadRows
<1>6. ASSUME NEW e \in D, reads[e].into = None, Later(e, reads[e])
      PROVE  Later(e, reads[e])'
  <2>1. e \in Items
    BY <1>2
  <2>2. /\ head'[e].rev >= head[e].rev /\ head'[e].gen >= head[e].gen
    BY <1>3, <1>4, <2>1 DEF Newer
  <2>3. /\ head'[e].rev >= reads[e].rev /\ head'[e].gen >= reads[e].gen
        /\ head'[e].rev > reads[e].rev \/ head'[e].gen > reads[e].gen
    BY <1>2, <1>3, <1>5, <1>6, <2>1, <2>2 DEF Later
  <2>4. QED BY <2>3 DEF Later
<1>7. CASE \E e \in D : reads[e].into = None /\ Later(e, reads[e])
  BY <1>6, <1>7
<1>8. CASE Current(reads)
  <2>1. \A x \in D : ReadOf(x) = reads[x]
    BY <1>8 DEF Current
  <2>2. \A x \in D : /\ head[x].rev = reads[x].rev /\ head[x].gen = reads[x].gen
                     /\ head[x].into = reads[x].into
    BY <2>1, ReadFields
  <2> DEFINE T == {x \in D : head'[x] # head[x]}
  <2>3. CASE T = {}
    <3>1. \A x \in D : head'[x] = head[x]
      BY <2>3
    <3>2. \A x \in D : ReadOf(x)' = reads[x]
      BY <2>1, <3>1 DEF ReadOf
    <3>3. QED BY <3>2 DEF Current
  <2>4. CASE T # {}
    <3>1. T \subseteq Items
      BY <1>2
    <3>2. ASSUME NEW x \in T, head[x].into # None
          PROVE  head[x].into \in T
      <4>1. head[x].into \in D
        BY <1>2, <2>2, <3>2
      <4>2. head'[head[x].into] # head[head[x].into]
        BY <3>1, <3>2, CommitUpwards
      <4>3. QED BY <4>1, <4>2
    <3>3. PICK e \in T : head[e].into = None
      <4> HIDE DEF T
      <4> QED BY <2>4, <3>1, <3>2, ClosedHasEndpoint
    <3>4. e \in D /\ e \in Items /\ reads[e].into = None
      BY <1>2, <2>2, <3>3
    <3>5. Newer(e)
      BY <1>4, <3>3, <3>4
    <3>6. Later(e, reads[e])'
      BY <2>2, <3>4, <3>5 DEF Newer, Later
    <3>7. QED BY <3>4, <3>6
  <2>5. QED BY <2>3, <2>4
<1>9. QED BY <1>1, <1>7, <1>8 DEF Bound

\* What a restoration reads when it is inspected.
LEMMA GroupInspected ==
    ASSUME Relations, NEW a \in Items, NEW action \in {"restore", "undo"},
           Restorable(a, action), NEW o, o.reads = ReadsOf(Group(a, action))
    PROVE  Bound(o)
<1> DEFINE G == Group(a, action)
           U == Undone(a, action)
<1>1. TypeHead
  BY DEF Relations
<1>2. a \in Path(a) /\ Path(a) \subseteq Items
  BY <1>1, PathClosed
<1>3. U \subseteq Path(a)
  BY <1>2 DEF Undone
<1>4. ASSUME NEW x \in G, x \notin Path(a)
      PROVE  x \in Items /\ head[x].into \in Path(a) /\ head[x].into \in Items
  <2>1. PICK r \in U : x \in InputIds(r)
    BY <1>4 DEF Group
  <2>2. PICK input \in head[r].inputs : x = input[1]
    BY <2>1 DEF InputIds
  <2>3. r \in Items /\ r \in Path(a)
    BY <1>2, <1>3, <2>1
  <2>4. head[r].inputs \subseteq (Items \X Nat)
    BY <1>1, <2>3 DEF TypeHead, HeadRows
  <2>5. head[x].into = r
    BY <2>1, <2>2 DEF Restorable
  <2>6. QED BY <2>2, <2>3, <2>4, <2>5
<1>5. G \subseteq Items /\ Path(a) \subseteq G
  BY <1>2, <1>4 DEF Group
<1>6. DOMAIN o.reads = G /\ \A x \in G : o.reads[x] = ReadOf(x)
  BY ReadsOfGroup
<1> HIDE DEF G, U
<1>7. \A x \in G : /\ o.reads[x].rev = head[x].rev /\ o.reads[x].gen = head[x].gen
                   /\ o.reads[x].into = head[x].into
  BY <1>6, ReadFields
<1>8. \A x \in G : head[x].rev \in Nat /\ head[x].gen \in Nat
  BY <1>1, <1>5 DEF TypeHead, HeadRows
<1>9. ASSUME NEW x \in G, head[x].into # None
      PROVE  head[x].into \in G
  <2>1. CASE x \in Path(a)
    BY <1>1, <1>5, <1>9, <2>1, PathClosed
  <2>2. CASE x \notin Path(a)
    BY <1>4, <1>5, <2>2
  <2>3. QED BY <2>1, <2>2
<1>10. ASSUME NEW e \in G, head[e].into = None
       PROVE  e \in Path(a)
  BY <1>4, <1>10, ItemAssumption
<1>11. ASSUME NEW e \in G, NEW f \in G, head[e].into = None, head[f].into = None
       PROVE  e = f
  <2>1. e \in Path(a) /\ f \in Path(a)
    BY <1>10, <1>11
  <2>2. QED BY <1>1, <1>11, <2>1, OneEndpoint
<1>12. Current(o.reads)
  BY <1>6 DEF Current
<1>13. QED BY <1>5, <1>6, <1>7, <1>8, <1>9, <1>11, <1>12 DEF Bound

\* The reads of a group of Artifacts have their type.
LEMMA ReadsTyped ==
    ASSUME TypeHead, NEW group, group \subseteq Items
    PROVE  /\ DOMAIN ReadsOf(group) \subseteq Items
           /\ \A a \in DOMAIN ReadsOf(group) : ReadsOf(group)[a] \in Reads
<1>1. \A a \in group : ReadOf(a) \in Reads
  BY DEF TypeHead, HeadRows, ReadOf, Reads
<1>2. QED BY <1>1, ReadsOfGroup

\* The operations under way have their type, and restorations are bound.
Operations == \A p \in Ops : TypeOp(op[p]) /\ Bound(op[p])

\* No operation has the type of one, and restores nothing.
LEMMA IdleTyped == TypeOp(Idle) /\ ~ Restores(Idle.action)
BY DEF TypeOp, Idle, Actions, Restores

\* The invariant of the operations is inductive, relative to the other two.
LEMMA OperationsStep ==
    ASSUME Reviews, Windows, Operations, Next
    PROVE  Operations'
<1>1. PICK p \in Ops : Client(p) \/ Reviewer(p) \/ Flush(p) \/ Abandon(p)
  BY DEF Next
<1>2. TypeHead /\ Relations /\ Plans /\ Cases
  BY DEF Reviews, Relations
<1>3. ASSUME NEW q \in Ops, op'[q] = op[q]
      PROVE  (TypeOp(op[q]) /\ Bound(op[q]))'
  <2>1. TypeOp(op[q]) /\ Bound(op[q])
    BY DEF Operations
  <2>2. TypeOp(op[q])'
    BY <1>3, <2>1 DEF TypeOp, Actions, Reads, States
  <2>3. CASE Keeping
    <3>1. head' = head
      BY <2>3 DEF Keeping
    <3>2. Bound(op[q])'
      BY <1>3, <2>1, <3>1 DEF Bound, Restores, Current, ReadOf, Later
    <3>3. QED BY <2>2, <3>2
  <2>4. ASSUME NEW r \in Ops, CommitWrites(r)
        PROVE  Bound(op[q])'
    BY <1>2, <1>3, <2>1, <2>4, BoundKept DEF Plans
  <2>5. QED BY <2>2, <2>3, <2>4, StepKinds DEF Committing
<1>4. ASSUME NEW o, op' = [op EXCEPT ![p] = o], TypeOp(o),
             ~ Restores(o.action) \/ (head' = head /\ Bound(o))
      PROVE  Operations'
  <2>1. op'[p] = o /\ \A q \in Ops \ {p} : op'[q] = op[q]
    BY <1>2, <1>4 DEF Plans
  <2>2. TypeOp(op[p])'
    BY <1>4, <2>1 DEF TypeOp, Actions, Reads, States
  <2>3. CASE ~ Restores(o.action)
    <3>1. Bound(op[p])'
      BY <2>1, <2>3 DEF Bound, Restores
    <3>2. QED BY <1>3, <2>1, <2>2, <3>1 DEF Operations
  <2>4. CASE head' = head /\ Bound(o)
    <3>1. Bound(op[p])'
      BY <2>1, <2>4 DEF Bound, Restores, Current, ReadOf, Later
    <3>2. QED BY <1>3, <2>1, <2>2, <3>1 DEF Operations
  <2>5. QED BY <1>4, <2>3, <2>4
<1>5. ASSUME op' = op
      PROVE  Operations'
  BY <1>3, <1>5 DEF Operations
<1>6. ASSUME op' = [op EXCEPT ![p] = Idle]
      PROVE  Operations'
  BY <1>4, <1>6, IdleTyped
<1>7. ASSUME NEW action \in Actions, NEW target \in Items \cup {None},
             NEW inputs \in SUBSET Items, NEW group \in SUBSET Items, head' = head,
             Busy(p, "client", action, target, inputs, group),
             \/ ~ Restores(action)
             \/ /\ target \in Items /\ action \in {"restore", "undo"}
                /\ Restorable(target, action) /\ group = Group(target, action)
      PROVE  Operations'
  <2> DEFINE o == [Idle EXCEPT !.by = "client", !.action = action, !.target = target,
                               !.inputs = inputs, !.reads = ReadsOf(group)]
  <2>1. op' = [op EXCEPT ![p] = o]
    BY <1>7 DEF Busy
  <2>2. /\ o.by = "client" /\ o.action = action /\ o.target = target /\ o.inputs = inputs
        /\ o.reads = ReadsOf(group) /\ o.cand = None /\ o.version = 0 /\ o.after = 0
        /\ o.through = 0 /\ o.gen = 0 /\ o.water = 0
    BY DEF Idle
  <2> HIDE DEF o
  <2>3. TypeOp(o)
    BY <1>2, <2>2, ReadsTyped DEF TypeOp
  <2>4. ~ Restores(o.action) \/ (head' = head /\ Bound(o))
    BY <1>2, <1>7, <2>2, GroupInspected
  <2>5. QED BY <1>4, <2>1, <2>3, <2>4
<1>8. ASSUME NEW c \in Cands, InspectApprove(p, c)
      PROVE  Operations'
  <2> DEFINE a == cand[c].item
             o == [Idle EXCEPT !.by = "reviewer", !.action = "change", !.target = a,
                               !.cand = c, !.reads = ReadsOf({a}), !.version = cand[c].version]
  <2>1. op' = [op EXCEPT ![p] = o] /\ cand[c].status = "pending"
    BY <1>8 DEF InspectApprove
  <2>2. /\ o.by = "reviewer" /\ o.action = "change" /\ o.target = a /\ o.inputs = {}
        /\ o.reads = ReadsOf({a}) /\ o.cand = c /\ o.version = cand[c].version /\ o.after = 0
        /\ o.through = 0 /\ o.gen = 0 /\ o.water = 0
    BY DEF Idle
  <2>3. a \in Items /\ cand[c].version \in Nat
    BY <1>2, <2>1 DEF Cases, CandRows
  <2> HIDE DEF o, a
  <2>4. TypeOp(o)
    BY <1>2, <2>2, <2>3, ReadsTyped DEF TypeOp, Actions
  <2>5. QED BY <1>4, <2>1, <2>2, <2>4 DEF Restores
<1>9. ASSUME WindowRead(p)
      PROVE  Operations'
  <2> DEFINE through == Least(rows, cursor.seq + Limit)
             o == [Idle EXCEPT !.by = "reading", !.after = cursor.seq, !.gen = cursor.gen,
                               !.through = through, !.water = rows]
  <2>1. op' = [op EXCEPT ![p] = o] /\ rows > cursor.seq
    BY <1>9 DEF WindowRead
  <2>2. TypeWindow
    BY DEF Windows
  <2>3. through \in Nat /\ cursor.seq \in Nat /\ cursor.gen \in Nat /\ rows \in Nat
    BY <2>1, <2>2, WindowFits DEF TypeWindow
  <2> HIDE DEF through
  <2>4. /\ o.by = "reading" /\ o.action = "none" /\ o.target = None /\ o.inputs = {}
        /\ o.reads = [a \in {} |-> Missing] /\ o.cand = None /\ o.version = 0
        /\ o.after = cursor.seq /\ o.through = through /\ o.gen = cursor.gen /\ o.water = rows
    BY DEF Idle
  <2> HIDE DEF o
  <2>5. TypeOp(o)
    BY <2>3, <2>4 DEF TypeOp, Actions
  <2>6. QED BY <1>4, <2>1, <2>4, <2>5 DEF Restores
<1>10. ASSUME NEW action \in {"none", "create", "change", "merge"},
              NEW target \in Items \cup {None}, NEW inputs \in SUBSET Items,
              NEW group \in SUBSET Items, WindowPlan(p, action, target, inputs, group)
       PROVE  Operations'
  <2> DEFINE o == [Idle EXCEPT !.by = "window", !.action = action, !.target = target,
                               !.inputs = inputs, !.reads = ReadsOf(group),
                               !.after = op[p].after, !.through = op[p].through,
                               !.gen = op[p].gen, !.water = op[p].water]
  <2>1. op' = [op EXCEPT ![p] = o]
    BY <1>10 DEF WindowPlan
  <2>2. /\ o.by = "window" /\ o.action = action /\ o.target = target /\ o.inputs = inputs
        /\ o.reads = ReadsOf(group) /\ o.cand = None /\ o.version = 0
        /\ o.after = op[p].after /\ o.through = op[p].through /\ o.gen = op[p].gen
        /\ o.water = op[p].water
    BY DEF Idle
  <2>3. {op[p].after, op[p].through, op[p].gen, op[p].water} \subseteq Nat
    BY DEF Operations, TypeOp
  <2> HIDE DEF o
  <2>4. TypeOp(o)
    BY <1>2, <2>2, <2>3, ReadsTyped DEF TypeOp, Actions
  <2>5. QED BY <1>4, <2>1, <2>2, <2>4 DEF Restores
<1>11. CASE Client(p)
  <2>1. CASE InspectCreate(p)
    BY <2>1, <1>7 DEF InspectCreate, Actions, Restores
  <2>2. ASSUME NEW a \in Items, NEW action \in {"change", "forget"}, InspectEdit(p, a, action)
        PROVE  Operations'
    BY <2>2, <1>7 DEF InspectEdit, Actions, Restores
  <2>3. ASSUME NEW inputs \in SUBSET Items, InspectMerge(p, inputs)
        PROVE  Operations'
    BY <2>3, <1>7 DEF InspectMerge, Actions, Restores
  <2>4. ASSUME NEW a \in Items, NEW action \in {"restore", "undo"}, InspectRestore(p, a, action)
        PROVE  Operations'
    <3>1. /\ head' = head /\ Restorable(a, action)
          /\ Busy(p, "client", action, a, {}, Group(a, action))
      BY <2>4 DEF InspectRestore
    <3>2. Bound([Idle EXCEPT !.reads = ReadsOf(Group(a, action)), !.action = action])
      BY <1>2, <3>1, GroupInspected DEF Idle
    <3>3. Group(a, action) \in SUBSET Items
      BY <3>2, ReadsOfGroup DEF Bound, Idle, Restores
    <3>4. QED BY <1>7, <3>1, <3>3 DEF Actions
  <2>5. QED BY <1>11, <1>6, <2>1, <2>2, <2>3, <2>4 DEF Client, Commit
<1>12. CASE Reviewer(p)
  BY <1>12, <1>5, <1>6, <1>8
     DEF Reviewer, Propose, ReviseCandidate, RejectCandidate, CommitApprove
<1>13. CASE Flush(p)
  <2>1. CASE AddSource \/ WindowReduce(p) \/ WindowPublish(p)
    BY <2>1, <1>5, <1>6 DEF AddSource, WindowReduce, WindowPublish
  <2>2. CASE WindowPlanNothing(p) \/ WindowPlanCreate(p)
    BY <2>2, <1>10 DEF WindowPlanNothing, WindowPlanCreate
  <2>3. ASSUME NEW a \in Items, WindowPlanChange(p, a)
        PROVE  Operations'
    BY <2>3, <1>10 DEF WindowPlanChange
  <2>4. ASSUME NEW inputs \in SUBSET Items, WindowPlanMerge(p, inputs)
        PROVE  Operations'
    BY <2>4, <1>10 DEF WindowPlanMerge
  <2>5. QED BY <1>13, <1>9, <2>1, <2>2, <2>3, <2>4 DEF Flush
<1>14. CASE Abandon(p)
  BY <1>14, <1>6 DEF Abandon
<1>15. QED BY <1>1, <1>11, <1>12, <1>13, <1>14

\* So it always holds with them.
LEMMA OperationsHold == Spec => []Operations
<1>1. Init => Operations
  <2>1. ASSUME Init, NEW p \in Ops
        PROVE  TypeOp(op[p]) /\ Bound(op[p])
    BY <2>1, IdleTyped DEF Init, Bound
  <2>2. QED BY <2>1 DEF Operations
<1>2. Reviews /\ Windows /\ Operations /\ [Next]_vars => Operations'
  <2>1. ASSUME Operations, UNCHANGED vars
        PROVE  Operations'
    <3>1. op' = op /\ head' = head
      BY <2>1 DEF vars
    <3>2. ASSUME NEW q \in Ops
          PROVE  (TypeOp(op[q]) /\ Bound(op[q]))'
      <4>1. TypeOp(op[q])'
        BY <2>1, <3>1 DEF Operations, TypeOp, Actions, Reads, States
      <4>2. Bound(op[q])'
        BY <2>1, <3>1 DEF Operations, Bound, Restores, Current, ReadOf, Later
      <4>3. QED BY <4>1, <4>2
    <3>3. QED BY <3>2 DEF Operations
  <2>2. QED BY <2>1, OperationsStep
<1>3. QED BY <1>1, <1>2, ReviewsHold, WindowsHold, PTL DEF Spec

\* The endpoint that a preview token keeps binds the whole group: while it is
\* as it was, whatever was committed meanwhile, so is everything inspected.
THEOREM EndpointAlwaysBinds == Spec => []EndpointBinds
<1>1. Operations => EndpointBinds
  <2> SUFFICES ASSUME Operations, NEW p \in Ops, Restores(op[p].action),
                      NEW e \in DOMAIN op[p].reads, op[p].reads[e].into = None,
                      ReadOf(e) = op[p].reads[e]
               PROVE  Current(op[p].reads)
    BY DEF EndpointBinds
  <2> DEFINE reads == op[p].reads
  <2>1. Bound(op[p])
    BY DEF Operations
  <2>2. ASSUME NEW f \in DOMAIN reads, reads[f].into = None, Later(f, reads[f])
        PROVE  FALSE
    <3>1. f = e
      BY <2>1, <2>2 DEF Bound
    <3>2. head[e].rev = reads[e].rev /\ head[e].gen = reads[e].gen
      BY ReadFields
    <3>3. reads[e].rev \in Nat /\ reads[e].gen \in Nat
      BY <2>1 DEF Bound
    <3>4. QED BY <2>2, <3>1, <3>2, <3>3 DEF Later
  <2>3. QED BY <2>1, <2>2 DEF Bound
<1>2. QED BY <1>1, OperationsHold, PTL

\* Roles do not change, and commits stay within their bound.
Callers == /\ role \in [Ops -> {"client", "reviewer", "flush"}]
           /\ commits \in 0..CommitBound

\* Both are invariants.
LEMMA CallersHold == Spec => []Callers
<1>1. Init => Callers
  BY BoundAssumption DEF Init, Callers, CommitBound
<1>2. Callers /\ [Next]_vars => Callers'
  <2> SUFFICES ASSUME Callers, [Next]_vars
               PROVE  Callers'
    OBVIOUS
  <2>1. role' = role
    <3>1. CASE Next
      BY <3>1 DEF Next, Client, InspectCreate, InspectEdit, InspectMerge, InspectRestore, Commit,
                  Reviewer, Propose, ReviseCandidate, RejectCandidate, InspectApprove,
                  CommitApprove, Flush, AddSource, WindowRead, WindowPlanNothing,
                  WindowPlanCreate, WindowPlanChange, WindowPlanMerge, WindowPlan,
                  WindowReduce, WindowPublish, Abandon
    <3>2. QED BY <3>1 DEF vars
  <2>2. CommitBound' = CommitBound /\ CommitBound \in Nat
    BY <2>1, BoundAssumption DEF CommitBound
  <2>3. CASE commits' = commits
    BY <2>1, <2>2, <2>3 DEF Callers
  <2>4. ASSUME NEW p \in Ops, CommitWrites(p)
        PROVE  Callers'
    <3>1. commits < CommitBound /\ commits' = commits + 1
      BY <2>4 DEF CommitWrites
    <3>2. commits' \in 0..CommitBound'
      BY <2>2, <3>1 DEF Callers
    <3>3. QED BY <2>1, <3>2 DEF Callers
  <2>5. QED BY <2>3, <2>4, StepKinds DEF Committing, Keeping, vars
<1>3. QED BY <1>1, <1>2, PTL DEF Spec

\* Every variable keeps its type, for every value of the constants.
THEOREM TypeCorrect == Spec => []TypeOK
<1>1. Reviews /\ Windows /\ Operations /\ Callers => TypeOK
  <2> SUFFICES ASSUME Reviews, Windows, Operations, Callers
               PROVE  TypeOK
    OBVIOUS
  <2>1. TypeHead /\ Births /\ cand \in [Cands -> CandRows]
    BY DEF Reviews, Relations, Cases
  <2>2. \A p \in Ops : TypeOp(op[p])
    BY DEF Operations
  <2>3. born \in [Items -> 0..commits]
    BY <2>1 DEF Births
  <2>4. QED BY <2>1, <2>2, <2>3 DEF TypeOK, Windows, TypeWindow, Callers
<1>2. QED BY <1>1, ReviewsHold, WindowsHold, OperationsHold, CallersHold, PTL
================================================================================
