------------------------- MODULE SupervisorLoopProofs --------------------------
(***************************************************************************)
(* Proofs about SupervisorLoop, for every number of scopes, every set of   *)
(* scopes that can block, and every size of the pool, the queue, its       *)
(* channels and the retry table.                                           *)
(***************************************************************************)
EXTENDS SupervisorLoop, SequenceTheorems, FiniteSetTheorems,
        WellFoundedInduction, TLAPS

--------------------------------------------------------------------------------
(* Sequences without repetition: the deque and the tables.                 *)

LEMMA LeastMember ==
    ASSUME NEW T, T \subseteq Nat, T # {}
    PROVE  \E m \in T : \A k \in T : m <= k
<1>1. PICK m \in T : \A k \in T : ~ (<<k, m>> \in OpToRel(<, Nat))
    BY NatLessThanWellFounded, WFMin
<1>2. \A k \in T : ~ (k < m)
    BY <1>1 DEF OpToRel
<1> QED
    BY <1>2

LEMMA IntervalFinite ==
    ASSUME NEW n \in Nat
    PROVE  IsFiniteSet(1..n) /\ Cardinality(1..n) = n
<1>1. 1 \in Int /\ n \in Int
    OBVIOUS
<1>2. IsFiniteSet(1..n) /\ Cardinality(1..n) = IF 1 > n THEN 0 ELSE n - 1 + 1
    BY <1>1, FS_Interval
<1> QED
    BY <1>2

\* The range of a sequence is finite, and as large as the sequence is long
\* exactly when nothing is repeated.
LEMMA RangeSize ==
    ASSUME NEW S, NEW q \in Seq(S)
    PROVE  /\ IsFiniteSet(Range(q))
           /\ Cardinality(Range(q)) \in Nat
           /\ Cardinality(Range(q)) <= Len(q)
           /\ IsInjective(q) => Cardinality(Range(q)) = Len(q)
<1>1. Len(q) \in Nat /\ q \in [1..Len(q) -> S] /\ DOMAIN q = 1..Len(q)
    BY LenProperties
<1>2. q \in Surjection(1..Len(q), Range(q))
    BY <1>1 DEF Surjection, Range
<1>3. IsFiniteSet(1..Len(q)) /\ Cardinality(1..Len(q)) = Len(q)
    BY <1>1, IntervalFinite
<1>4. /\ IsFiniteSet(Range(q))
      /\ Cardinality(Range(q)) <= Cardinality(1..Len(q))
      /\ Cardinality(Range(q)) = Cardinality(1..Len(q))
            <=> q \in Injection(1..Len(q), Range(q))
    BY <1>2, <1>3, FS_Surjection
<1>5. IsInjective(q) => q \in Injection(1..Len(q), Range(q))
    BY <1>1 DEF Injection, Range
<1>6. Cardinality(Range(q)) \in Nat
    BY <1>4, FS_CardinalityType
<1> QED
    BY <1>3, <1>4, <1>5, <1>6

\* How far into the kept places a place is.
Rank(places, i) == Cardinality({j \in places : j <= i})

LEMMA RankFacts ==
    ASSUME NEW places, places \subseteq Nat, IsFiniteSet(places)
    PROVE  /\ Cardinality(places) \in Nat
           /\ \A i \in places : Rank(places, i) \in 1..Cardinality(places)
           /\ \A i, k \in places : Rank(places, i) = Rank(places, k) => i = k
           /\ \A n \in 1..Cardinality(places) :
                  \E i \in places : Rank(places, i) = n
<1> DEFINE upto(i) == {j \in places : j <= i}
           m == Cardinality(places)
           rank == [i \in places |-> Rank(places, i)]
<1>1. m \in Nat
    BY FS_CardinalityType
<1>2. ASSUME NEW i \in places
      PROVE  /\ IsFiniteSet(upto(i)) /\ Cardinality(upto(i)) \in 1..m
             /\ Cardinality(upto(i)) = Rank(places, i)
    <2>1. upto(i) \in SUBSET places /\ i \in upto(i)
        OBVIOUS
    <2>2. IsFiniteSet(upto(i)) /\ Cardinality(upto(i)) <= m
        BY <2>1, FS_Subset
    <2>3. Cardinality(upto(i)) \in Nat
        BY <2>2, FS_CardinalityType
    <2>4. Cardinality(upto(i)) # 0
        BY <2>1, <2>2, FS_EmptySet
    <2> QED
        BY <1>1, <2>2, <2>3, <2>4 DEF Rank
<1>3. ASSUME NEW i \in places, NEW k \in places, Rank(places, i) = Rank(places, k)
      PROVE  ~ (i < k)
    <2> SUFFICES ASSUME i < k PROVE FALSE
        OBVIOUS
    <2>0. \A j \in places : j <= i => j <= k
        BY places \subseteq Nat
    <2>1. upto(i) \in SUBSET upto(k)
        BY <2>0
    <2>2. k \in upto(k) /\ k \notin upto(i)
        OBVIOUS
    <2>3. Cardinality(upto(i)) = Cardinality(upto(k))
        BY <1>2, <1>3
    <2>4. IsFiniteSet(upto(k))
        BY <1>2
    <2> HIDE DEF upto
    <2> QED
        BY <2>1, <2>2, <2>3, <2>4, FS_Subset
<1>4. \A i, k \in places : Rank(places, i) = Rank(places, k) => i = k
    BY <1>3
<1>5. rank \in Injection(places, 1..m)
    <2>1. rank \in [places -> 1..m]
        BY <1>2
    <2> QED
        BY <2>1, <1>4 DEF Injection, IsInjective
<1>6. IsFiniteSet(1..m) /\ Cardinality(1..m) = m
    BY <1>1, IntervalFinite
<1>7. rank \in Surjection(places, 1..m)
    <2> HIDE DEF rank
    <2> QED
        BY <1>5, <1>6, FS_Injection
<1>8. \A n \in 1..m : \E i \in places : Rank(places, i) = n
    BY <1>7 DEF Surjection
<1> QED
    BY <1>1, <1>2, <1>4, <1>8

\* What is kept of a sequence is a sequence, holds exactly the members asked
\* for, and repeats nothing that was not repeated.
LEMMA KeptFacts ==
    ASSUME NEW S, NEW q \in Seq(S), NEW T
    PROVE  /\ Kept(q, T) \in Seq(S)
           /\ Range(Kept(q, T)) = Range(q) \cap T
           /\ Len(Kept(q, T)) <= Len(q)
           /\ IsInjective(q) => IsInjective(Kept(q, T))
<1> DEFINE places == {i \in DOMAIN q : q[i] \in T}
           m == Cardinality(places)
           place(n) == CHOOSE i \in places : Cardinality({j \in places : j <= i}) = n
           kept == [n \in 1..m |-> q[place(n)]]
<1>1. Len(q) \in Nat /\ q \in [1..Len(q) -> S] /\ DOMAIN q = 1..Len(q)
    BY LenProperties
<1>2. places \in SUBSET (1..Len(q))
    BY <1>1
<1>3. IsFiniteSet(1..Len(q)) /\ Cardinality(1..Len(q)) = Len(q)
    BY <1>1, IntervalFinite
<1>4. IsFiniteSet(places) /\ m <= Len(q)
    <2> HIDE DEF places
    <2> QED
        BY <1>2, <1>3, FS_Subset
<1>5. places \subseteq Nat
    BY <1>1
<1>6. /\ m \in Nat
      /\ \A i \in places : Rank(places, i) \in 1..m
      /\ \A i, k \in places : Rank(places, i) = Rank(places, k) => i = k
      /\ \A n \in 1..m : \E i \in places : Rank(places, i) = n
    <2> HIDE DEF places
    <2> QED
        BY <1>4, <1>5, RankFacts
<1>7. \A n \in 1..m : place(n) \in places /\ Rank(places, place(n)) = n
    <2> SUFFICES ASSUME NEW n \in 1..m
                 PROVE  place(n) \in places /\ Rank(places, place(n)) = n
        OBVIOUS
    <2>1. \E i \in places : Cardinality({j \in places : j <= i}) = n
        BY <1>6 DEF Rank
    <2> HIDE DEF places
    <2> QED
        BY <2>1 DEF Rank
<1>8. \A i \in places : \E n \in 1..m : place(n) = i
    BY <1>6, <1>7
<1>9. \A n, k \in 1..m : place(n) = place(k) => n = k
    BY <1>7
<1>10. Kept(q, T) = kept
    BY DEF Kept
<1> HIDE DEF place
<1>11. kept \in Seq(S) /\ Len(kept) = m
    <2>1. \A n \in 1..m : q[place(n)] \in S
        BY <1>1, <1>7
    <2>2. kept \in [1..m -> S]
        BY <2>1
    <2> HIDE DEF kept, places, m
    <2> QED
        BY <2>2, <1>6
<1>12. Range(kept) = Range(q) \cap T
    <2>1. \A n \in 1..m : q[place(n)] \in Range(q) \cap T
        BY <1>7 DEF Range
    <2>2. ASSUME NEW x \in Range(q) \cap T PROVE x \in Range(kept)
        <3>1. PICK i \in DOMAIN q : q[i] = x
            BY DEF Range
        <3>2. i \in places
            BY <3>1
        <3>3. PICK n \in 1..m : place(n) = i
            BY <1>8, <3>2
        <3> QED
            BY <3>1, <3>3 DEF Range
    <2> QED
        BY <2>1, <2>2 DEF Range
<1>13. ASSUME IsInjective(q) PROVE IsInjective(kept)
    <2>1. \A i, k \in DOMAIN q : q[i] = q[k] => i = k
        BY <1>13 DEF IsInjective
    <2>2. \A n \in 1..m : place(n) \in DOMAIN q
        BY <1>7
    <2>3. \A n, k \in 1..m : q[place(n)] = q[place(k)] => n = k
        BY <1>9, <2>1, <2>2
    <2> QED
        BY <2>3 DEF IsInjective
<1> HIDE DEF kept
<1> QED
    BY <1>4, <1>10, <1>11, <1>12, <1>13

\* Sequences without a member in common follow each other without repetition.
LEMMA ConcatFacts ==
    ASSUME NEW S, NEW p \in Seq(S), NEW q \in Seq(S)
    PROVE  /\ p \o q \in Seq(S)
           /\ Len(p \o q) = Len(p) + Len(q)
           /\ Range(p \o q) = Range(p) \cup Range(q)
           /\ (IsInjective(p) /\ IsInjective(q) /\ Range(p) \cap Range(q) = {})
                 => IsInjective(p \o q)
<1>1. /\ p \o q \in Seq(S) /\ Len(p \o q) = Len(p) + Len(q)
      /\ \A i \in 1..Len(p) + Len(q) :
             (p \o q)[i] = IF i <= Len(p) THEN p[i] ELSE q[i - Len(p)]
    BY ConcatProperties
<1>2. Range(p \o q) = Range(p) \cup Range(q)
    BY RangeConcatenation
<1>3. /\ Len(p) \in Nat /\ DOMAIN p = 1..Len(p)
      /\ Len(q) \in Nat /\ DOMAIN q = 1..Len(q)
      /\ DOMAIN (p \o q) = 1..Len(p) + Len(q)
    BY <1>1, LenProperties
<1>4. ASSUME IsInjective(p), IsInjective(q), Range(p) \cap Range(q) = {},
             NEW i \in 1..Len(p) + Len(q), NEW k \in 1..Len(p) + Len(q),
             (p \o q)[i] = (p \o q)[k]
      PROVE  i = k
    <2>1. \A a, b \in DOMAIN p : p[a] = p[b] => a = b
        BY <1>4 DEF IsInjective
    <2>2. \A a, b \in DOMAIN q : q[a] = q[b] => a = b
        BY <1>4 DEF IsInjective
    <2>3. \A a \in DOMAIN p, b \in DOMAIN q : p[a] # q[b]
        BY <1>4 DEF Range
    <2>4. \A j \in 1..Len(p) + Len(q) :
              \/ j \in DOMAIN p /\ (p \o q)[j] = p[j] /\ j <= Len(p)
              \/ j - Len(p) \in DOMAIN q /\ (p \o q)[j] = q[j - Len(p)] /\ j > Len(p)
        BY <1>1, <1>3
    <2>5. CASE i <= Len(p) /\ k <= Len(p)
        BY <2>1, <2>4, <2>5, <1>4, <1>3
    <2>6. CASE i > Len(p) /\ k > Len(p)
        <3> DEFINE a == i - Len(p)
                   b == k - Len(p)
        <3>1. a \in DOMAIN q /\ b \in DOMAIN q
            BY <2>4, <2>6, <1>3
        <3>2. q[a] = q[b]
            BY <2>4, <2>6, <1>4, <1>3
        <3>3. a = b
            <4> HIDE DEF a, b
            <4> QED
                BY <2>2, <3>1, <3>2
        <3> QED
            BY <3>3, <1>3
    <2>7. CASE (i <= Len(p) /\ k > Len(p)) \/ (i > Len(p) /\ k <= Len(p))
        BY <2>3, <2>4, <2>7, <1>4, <1>3
    <2> QED
        BY <2>5, <2>6, <2>7, <1>3
<1> QED
    BY <1>1, <1>2, <1>3, <1>4 DEF IsInjective

LEMMA AppendFacts ==
    ASSUME NEW S, NEW p \in Seq(S), NEW s \in S
    PROVE  /\ Append(p, s) \in Seq(S)
           /\ Len(Append(p, s)) = Len(p) + 1
           /\ Range(Append(p, s)) = Range(p) \cup {s}
           /\ (IsInjective(p) /\ s \notin Range(p)) => IsInjective(Append(p, s))
<1> DEFINE q == <<s>>
<1>1. q \in Seq(S) /\ Len(q) = 1 /\ Range(q) = {s} /\ IsInjective(q)
    BY DEF Range, IsInjective
<1>2. Append(p, s) = p \o q
    BY AppendIsConcat
<1>3. Len(p) \in Nat
    BY LenProperties
<1> HIDE DEF q
<1> QED
    BY <1>1, <1>2, <1>3, ConcatFacts

\* Taking the head leaves the others, when nothing is repeated.
LEMMA TailFacts ==
    ASSUME NEW S, NEW q \in Seq(S), q # <<>>, IsInjective(q)
    PROVE  /\ Head(q) \in S /\ Head(q) \in Range(q)
           /\ Tail(q) \in Seq(S)
           /\ Len(Tail(q)) = Len(q) - 1 /\ Len(q) \in Nat \ {0}
           /\ Range(Tail(q)) = Range(q) \ {Head(q)}
           /\ IsInjective(Tail(q))
<1>1. /\ Head(q) \in S /\ Tail(q) \in Seq(S) /\ Len(Tail(q)) = Len(q) - 1
      /\ \A i \in 1..Len(Tail(q)) : Tail(q)[i] = q[i + 1]
    BY HeadTailProperties
<1>2. /\ Len(q) \in Nat \ {0} /\ DOMAIN q = 1..Len(q)
      /\ DOMAIN Tail(q) = 1..Len(q) - 1
    BY <1>1, LenProperties, EmptySeq
<1>3. Head(q) = q[1] /\ 1 \in DOMAIN q
    BY <1>2
<1>4. \A i, k \in 1..Len(q) : q[i] = q[k] => i = k
    BY <1>2 DEF IsInjective
<1>5. \A i \in 1..Len(q) - 1 : Tail(q)[i] = q[i + 1] /\ i + 1 \in 1..Len(q) /\ i + 1 # 1
    BY <1>1, <1>2
<1>6. \A i \in 1..Len(q) : i # 1 => (i - 1 \in 1..Len(q) - 1 /\ Tail(q)[i - 1] = q[i])
    <2> SUFFICES ASSUME NEW i \in 1..Len(q), i # 1
                 PROVE  i - 1 \in 1..Len(q) - 1 /\ Tail(q)[i - 1] = q[i]
        OBVIOUS
    <2>1. i - 1 \in 1..Len(q) - 1 /\ (i - 1) + 1 = i
        BY <1>2
    <2> QED
        BY <2>1, <1>5
<1>7. Range(Tail(q)) = Range(q) \ {Head(q)}
    <2>1. ASSUME NEW x \in Range(Tail(q)) PROVE x \in Range(q) \ {Head(q)}
        <3>1. PICK i \in 1..Len(q) - 1 : x = Tail(q)[i]
            BY <1>2 DEF Range
        <3>2. x = q[i + 1] /\ i + 1 \in 1..Len(q) /\ i + 1 # 1
            BY <1>5, <3>1
        <3>3. q[i + 1] # q[1]
            BY <1>2, <1>3, <1>4, <3>2
        <3> QED
            BY <1>2, <1>3, <3>2, <3>3 DEF Range
    <2>2. ASSUME NEW x \in Range(q) \ {Head(q)} PROVE x \in Range(Tail(q))
        <3>1. PICK i \in 1..Len(q) : x = q[i]
            BY <1>2 DEF Range
        <3>2. i # 1
            BY <1>3, <3>1
        <3> QED
            BY <1>2, <1>6, <3>1, <3>2 DEF Range
    <2> QED
        BY <2>1, <2>2
<1>8. IsInjective(Tail(q))
    <2> SUFFICES ASSUME NEW i \in 1..Len(q) - 1, NEW k \in 1..Len(q) - 1,
                        Tail(q)[i] = Tail(q)[k]
                 PROVE  i = k
        BY <1>2 DEF IsInjective
    <2>1. i + 1 = k + 1
        BY <1>4, <1>5
    <2> QED
        BY <2>1, <1>2
<1> QED
    BY <1>1, <1>2, <1>3, <1>7, <1>8 DEF Range

\* The front of a sequence.
LEMMA FrontFacts ==
    ASSUME NEW S, NEW q \in Seq(S), NEW n \in Int, n <= Len(q)
    PROVE  /\ SubSeq(q, 1, n) \in Seq(S)
           /\ Len(SubSeq(q, 1, n)) = IF n >= 1 THEN n ELSE 0
           /\ Range(SubSeq(q, 1, n)) \subseteq Range(q)
           /\ IsInjective(q) => IsInjective(SubSeq(q, 1, n))
<1> DEFINE front == SubSeq(q, 1, n)
<1>1. Len(q) \in Nat /\ DOMAIN q = 1..Len(q) /\ \A i \in 1..Len(q) : q[i] \in S
    BY LenProperties, ElementOfSeq
<1>2. \A i \in 1..n : q[i] \in S /\ i \in DOMAIN q
    BY <1>1
<1>3. /\ front \in Seq(S) /\ Len(front) = IF 1 <= n THEN n - 1 + 1 ELSE 0
      /\ \A i \in 1..n - 1 + 1 : front[i] = q[1 + i - 1]
    <2>1. 1 \in Int
        OBVIOUS
    <2> QED
        BY <1>2, <2>1, SubSeqProperties
<1>4. DOMAIN front = 1..n
    <2>1. DOMAIN front = 1..Len(front)
        BY <1>3, LenProperties
    <2> HIDE DEF front
    <2> QED
        BY <1>3, <2>1
<1>5. \A i \in 1..n : front[i] = q[i]
    <2> SUFFICES ASSUME NEW i \in 1..n PROVE front[i] = q[i]
        OBVIOUS
    <2>1. i \in 1..n - 1 + 1 /\ 1 + i - 1 = i
        OBVIOUS
    <2> HIDE DEF front
    <2> QED
        BY <1>3, <2>1
<1> HIDE DEF front
<1>6. Range(front) \subseteq Range(q)
    BY <1>2, <1>4, <1>5 DEF Range
<1>7. IsInjective(q) => IsInjective(front)
    BY <1>2, <1>4, <1>5 DEF IsInjective
<1>8. Len(front) = IF n >= 1 THEN n ELSE 0
    BY <1>3
<1> QED
    BY <1>3, <1>6, <1>7, <1>8 DEF front
--------------------------------------------------------------------------------
(* The page a discovery transaction reads.                                 *)

\* The first members of a set of numbers, up to a limit.
First(found, limit) ==
    {s \in found : Cardinality({t \in found : t < s}) < limit}

\* They are at most as many as the limit; and when a member is left out, they
\* are exactly as many and all before it.
LEMMA FirstFacts ==
    ASSUME NEW m \in Nat, NEW found \in SUBSET (1..m), NEW limit \in Nat
    PROVE  /\ IsFiniteSet(First(found, limit))
           /\ Cardinality(First(found, limit)) <= limit
           /\ \A s \in found \ First(found, limit) :
                  /\ Cardinality(First(found, limit)) >= limit
                  /\ \A t \in First(found, limit) : t < s
<1> DEFINE first == First(found, limit)
           below(s) == {t \in found : t < s}
<1>1. \A s \in found : s \in first <=> Cardinality(below(s)) < limit
    BY DEF First
<1>2. first \in SUBSET found
    BY DEF First
<1>0. IsFiniteSet(found) /\ found \subseteq Nat
    <2>1. IsFiniteSet(1..m)
        BY IntervalFinite
    <2>2. IsFiniteSet(found)
        BY <2>1, FS_Subset
    <2> QED
        BY <2>2
<1> HIDE DEF first
<1>3. IsFiniteSet(first) /\ Cardinality(first) \in Nat
    BY <1>0, <1>2, FS_Subset, FS_CardinalityType
<1>4. ASSUME NEW s PROVE IsFiniteSet(below(s)) /\ Cardinality(below(s)) \in Nat
    <2>1. below(s) \in SUBSET found
        OBVIOUS
    <2> HIDE DEF below
    <2> QED
        BY <1>0, <2>1, FS_Subset, FS_CardinalityType
<1>5. ASSUME NEW T, T \subseteq found, T # {}, \A g \in T : \E h \in T : g < h
      PROVE  FALSE
    <2> DEFINE gaps == {m - k : k \in T}
    <2>3. gaps \subseteq Nat /\ gaps # {}
        <3>1. \A k \in T : k \in Nat /\ k <= m
            BY <1>5
        <3>2. \A k \in T : m - k \in Nat
            BY <3>1
        <3> QED
            BY <3>2, <1>5
    <2>4. PICK g \in gaps : \A h \in gaps : g <= h
        <3> HIDE DEF gaps
        <3> QED
            BY <2>3, LeastMember
    <2>5. PICK k \in T : g = m - k
        BY <2>4
    <2>6. PICK h \in T : k < h
        BY <1>5
    <2>7. m - k <= m - h
        BY <2>4, <2>5, <2>6
    <2> QED
        <3>1. k \in Nat /\ h \in Nat /\ m \in Nat
            BY <1>5
        <3> HIDE DEF gaps
        <3> QED
            BY <2>6, <2>7, <3>1
<1>6. Cardinality(first) <= limit
    <2>1. CASE first = {}
        BY <2>1, FS_EmptySet
    <2>2. CASE first # {}
        <3>1. PICK g \in first : \A h \in first : ~ (g < h)
            BY <1>2, <1>5, <2>2
        <3>2. first \ {g} \in SUBSET below(g)
            BY <1>0, <1>2, <3>1
        <3>3. Cardinality(first \ {g}) <= Cardinality(below(g))
            <4>1. IsFiniteSet(below(g))
                BY <1>4
            <4> HIDE DEF below
            <4> QED
                BY <3>2, <4>1, FS_Subset
        <3>4. Cardinality(first \ {g}) = Cardinality(first) - 1
            BY <1>3, FS_RemoveElement
        <3>5. Cardinality(below(g)) < limit /\ Cardinality(below(g)) \in Nat
            BY <1>1, <1>2, <1>4
        <3> HIDE DEF below
        <3> QED
            BY <1>3, <3>3, <3>4, <3>5
    <2> QED
        BY <2>1, <2>2
<1>7. ASSUME NEW s \in found \ first, NEW t \in first PROVE t < s
    <2> SUFFICES ASSUME s <= t PROVE FALSE
        BY <1>0, <1>2
    <2>1. s \in Nat /\ t \in Nat /\ t \in found
        BY <1>0, <1>2
    <2>2. \A u \in found : u < s => u < t
        BY <1>0, <2>1
    <2>3. below(s) \in SUBSET below(t)
        BY <2>2
    <2>4. IsFiniteSet(below(t)) /\ Cardinality(below(t)) \in Nat
          /\ Cardinality(below(s)) \in Nat
        BY <1>4
    <2>5. Cardinality(below(t)) < limit /\ ~ (Cardinality(below(s)) < limit)
        BY <1>1, <2>1
    <2> HIDE DEF below
    <2>6. Cardinality(below(s)) <= Cardinality(below(t))
        BY <2>3, <2>4, FS_Subset
    <2> QED
        BY <2>4, <2>5, <2>6
<1>8. ASSUME NEW s \in found \ first PROVE Cardinality(first) >= limit
    <2>1. PICK l \in found \ first : \A k \in found \ first : l <= k
        <3>1. found \ first \subseteq Nat /\ found \ first # {}
            BY <1>0
        <3> QED
            BY <3>1, LeastMember
    <2>2. below(l) \in SUBSET first
        <3>1. \A k \in found : k < l => ~ (l <= k)
            BY <1>0, <2>1
        <3> QED
            BY <2>1, <3>1
    <2>3. Cardinality(below(l)) <= Cardinality(first)
        <3> HIDE DEF below
        <3> QED
            BY <1>3, <2>2, FS_Subset
    <2>4. Cardinality(below(l)) \in Nat /\ ~ (Cardinality(below(l)) < limit)
        BY <1>1, <1>4
    <2> HIDE DEF below
    <2> QED
        BY <1>3, <2>3, <2>4
<1> QED
    BY <1>3, <1>6, <1>7, <1>8 DEF first
--------------------------------------------------------------------------------
(* The inductive invariant.                                                *)

Entries == [left : Nat, block : BOOLEAN, generation : Nat]

\* A scope has one place, and the deque and the table hold it once.
PlacesOnce ==
    /\ IsInjective(ready) /\ IsInjective(retries)
    /\ Queued \cap Running = {}
    /\ probe.scope \notin Queued \cup Running
    /\ retryQueued \subseteq Queued

\* While a work_block probe is awaited a slot stays free for its assignment.
ProbeHasSlot ==
    /\ pc # "probe" => probe = NoProbe
    /\ pc = "probe" => /\ probe.scope \in Scopes
                       /\ CanBlock # {}
                       /\ Cardinality(Running) < MaxWorkers

\* A page that has been read fits the queue, which only the loop fills, and is
\* of the walk's position; no overflow began since it was read.
PageFits ==
    pc = "apply" => /\ page.limit \in 1..FreshCapacity
                    /\ Len(page.rows) <= page.limit
                    /\ IsInjective(page.rows)
                    /\ \A s \in Range(page.rows) : s > requestedAfter
                    /\ overflow = 0

\* Only requests that were accepted are claimed.
ClaimsRequested ==
    /\ \A s \in Scopes : claimed[s] <= requested[s]
    /\ probe.scope \in Scopes => probe.generation <= requested[probe.scope]

LoopInv ==
    /\ TypeOK
    /\ BoundedMemory
    /\ PlacesOnce
    /\ ProbeHasSlot
    /\ PageFits
    /\ ClaimsRequested

LEMMA LoopConstants ==
    /\ N \in Nat /\ CanBlock \subseteq Scopes /\ Scopes \subseteq Nat
    /\ 0 \notin Scopes
    /\ MaxWorkers \in Nat \ {0} /\ PageSize \in Nat \ {0}
    /\ ChannelLimit \in Nat \ {0} /\ RetryLimit \in Nat \ {0}
    /\ Backoff \in Nat \ {0} /\ BlockCheck \in Nat \ {0}
    /\ MaxRequests \in Nat /\ MaxRestarts \in Nat
    /\ IsFiniteSet(Scopes) /\ Cardinality(Scopes) = N
    /\ Delays \subseteq Nat \ {0}
<1>1. N \in Nat
    BY LoopAssumption
<1>2. IsFiniteSet(Scopes) /\ Cardinality(Scopes) = N
    BY <1>1, IntervalFinite DEF Scopes
<1> QED
    BY <1>1, <1>2, LoopAssumption DEF Scopes, Delays

\* Sets of scopes are finite.
LEMMA ScopesFinite ==
    ASSUME NEW T, T \subseteq Scopes
    PROVE  IsFiniteSet(T) /\ Cardinality(T) \in Nat /\ Cardinality(T) <= N
<1>1. T \in SUBSET Scopes
    OBVIOUS
<1> QED
    BY <1>1, LoopConstants, FS_Subset, FS_CardinalityType

LEMMA WithoutFacts ==
    ASSUME NEW q \in Seq(Scopes), NEW s
    PROVE  /\ Without(q, s) \in Seq(Scopes)
           /\ Range(Without(q, s)) = Range(q) \ {s}
           /\ Len(Without(q, s)) <= Len(q)
           /\ IsInjective(q) => IsInjective(Without(q, s))
           /\ (IsInjective(q) /\ s \in Range(q)) => Len(Without(q, s)) = Len(q) - 1
<1> DEFINE w == Without(q, s)
<1>1. /\ w \in Seq(Scopes) /\ Range(w) = Range(q) \cap (Scopes \ {s})
      /\ Len(w) <= Len(q) /\ (IsInjective(q) => IsInjective(w))
    BY KeptFacts DEF Without
<1> HIDE DEF w
<1>2. Range(q) \subseteq Scopes
    BY RangeOfSeq
<1>3. Range(w) = Range(q) \ {s}
    BY <1>1, <1>2
<1>4. ASSUME IsInjective(q), s \in Range(q) PROVE Len(w) = Len(q) - 1
    <2>1. /\ Cardinality(Range(q)) = Len(q) /\ Cardinality(Range(w)) = Len(w)
          /\ IsFiniteSet(Range(q))
        BY <1>1, <1>4, RangeSize
    <2>2. Cardinality(Range(q) \ {s}) = Cardinality(Range(q)) - 1
        BY <1>4, <2>1, FS_RemoveElement
    <2> QED
        BY <1>3, <2>1, <2>2
<1> QED
    BY <1>1, <1>3, <1>4 DEF w

\* A retry table that holds another scope is not full with every scope in it.
LEMMA RoomForAll ==
    ASSUME retries \in Seq(Scopes), IsInjective(retries), NEW s \in Scopes,
           s \notin Range(retries)
    PROVE  Len(retries) < N
<1>1. Range(retries) \subseteq Scopes \ {s}
    BY RangeOfSeq
<1>2. Cardinality(Range(retries)) = Len(retries) /\ Len(retries) \in Nat
    BY RangeSize, LenProperties
<1>3. IsFiniteSet(Scopes \ {s}) /\ Cardinality(Scopes \ {s}) = N - 1
    BY LoopConstants, FS_RemoveElement
<1>4. Cardinality(Range(retries)) <= Cardinality(Scopes \ {s})
    <2>1. Range(retries) \in SUBSET (Scopes \ {s})
        BY <1>1
    <2> QED
        BY <1>3, <2>1, FS_Subset
<1> QED
    BY <1>2, <1>3, <1>4, LoopConstants
--------------------------------------------------------------------------------
(* _defer() and retries.pop().                                             *)

\* The parts of the invariant that concern the retry table.
TableOK ==
    /\ retries \in Seq(Scopes) /\ IsInjective(retries)
    /\ Len(retries) <= RetryLimit
    /\ retry \in [Scopes -> Entries]
    /\ overflow \in Nat /\ rescan \in Nat \cup {Never}

LEMMA SoonerType ==
    ASSUME rescan \in Nat \cup {Never}, NEW left \in Nat
    PROVE  Sooner(left) \in Nat
<1>1. rescan \in Nat \/ rescan = Never
    OBVIOUS
<1> QED
    BY <1>1 DEF Sooner, Least, Never

LEMMA EvictableFacts ==
    ASSUME TableOK, Evictable # <<>>
    PROVE  /\ Head(Evictable) \in Scopes /\ Head(Evictable) \in Range(retries)
           /\ \/ retry[Head(Evictable)].left = 0
              \/ retry[Head(Evictable)].block
<1> DEFINE T == {k \in Scopes : /\ retry[k].left = 0 \/ retry[k].block
                                /\ k \notin Queued
                                /\ k \notin Running}
<1>1. /\ Evictable \in Seq(Scopes) /\ Range(Evictable) = Range(retries) \cap T
      /\ IsInjective(Evictable)
    <2>1. Evictable = Kept(retries, T)
        BY DEF Evictable
    <2> HIDE DEF T
    <2> QED
        BY <2>1, KeptFacts DEF TableOK
<1>2. Head(Evictable) \in Range(retries) \cap T
    <2> HIDE DEF T
    <2> QED
        BY <1>1, TailFacts
<1> QED
    BY <1>2

\* What _defer() leaves: a table within its limit, in which the other entries
\* that are in backoff are untouched, and either the entry itself or, for a
\* failure, an overflow gate that lasts as long.
LEMMA DeferredFacts ==
    ASSUME TableOK, NEW s \in Scopes, NEW entry \in Entries
    PROVE  LET d == Deferred(s, entry)
           IN  /\ d.retries \in Seq(Scopes) /\ IsInjective(d.retries)
               /\ Len(d.retries) <= RetryLimit
               /\ d.retry \in [Scopes -> Entries]
               /\ d.overflow \in Nat /\ d.overflow >= overflow
               /\ d.rescan \in Nat \cup {Never}
               /\ Range(d.retries) \subseteq Range(retries) \cup {s}
               /\ \A k \in Range(retries) \ {s} :
                      (~ retry[k].block /\ retry[k].left > 0)
                         => (k \in Range(d.retries) /\ d.retry[k] = retry[k])
               /\ \/ s \in Range(d.retries) /\ d.retry[s] = entry
                  \/ /\ s \notin Range(d.retries)
                     /\ ~ entry.block => d.overflow >= entry.left
               /\ N <= RetryLimit => Range(d.retries) = Range(retries) \cup {s}
<1> DEFINE d == Deferred(s, entry)
           present == s \in Range(retries)
           full == Len(retries) >= RetryLimit
           e == Head(Evictable)
<1>t. /\ retries \in Seq(Scopes) /\ IsInjective(retries)
      /\ Len(retries) <= RetryLimit /\ Len(retries) \in Nat
      /\ retry \in [Scopes -> Entries]
      /\ overflow \in Nat /\ rescan \in Nat \cup {Never}
      /\ RetryLimit \in Nat
    BY LoopConstants, LenProperties DEF TableOK
<1>e. entry.left \in Nat /\ entry.block \in BOOLEAN
    BY DEF Entries
<1>1. ASSUME present \/ ~ full
      PROVE  d = [retries |-> IF present THEN retries ELSE Append(retries, s),
                  retry |-> [retry EXCEPT ![s] = entry],
                  overflow |-> overflow, rescan |-> rescan, wake |-> FALSE]
    BY <1>1 DEF Deferred
<1>2. ASSUME ~ present, full, Evictable # <<>>
      PROVE  d = [retries |-> Append(Without(retries, e), s),
                  retry |-> [[retry EXCEPT ![s] = entry] EXCEPT ![e] = NoRetry],
                  overflow |-> overflow,
                  rescan |-> IF retry[e].block THEN Sooner(retry[e].left) ELSE rescan,
                  wake |-> FALSE]
    BY <1>2 DEF Deferred
<1>3. ASSUME ~ present, full, Evictable = <<>>, entry.block
      PROVE  d = [retries |-> retries, retry |-> retry, overflow |-> overflow,
                  rescan |-> Sooner(entry.left), wake |-> FALSE]
    BY <1>3 DEF Deferred
<1>4. ASSUME ~ present, full, Evictable = <<>>, ~ entry.block
      PROVE  d = [retries |-> retries, retry |-> retry,
                  overflow |-> Greatest(overflow, entry.left),
                  rescan |-> rescan, wake |-> TRUE]
    BY <1>4 DEF Deferred
<1>r. \A k \in Scopes : retry[k] \in Entries /\ retry[k].left \in Nat
    BY <1>t DEF Entries
<1>5. CASE present
    <2>1. /\ d.retries = retries /\ d.retry = [retry EXCEPT ![s] = entry]
          /\ d.overflow = overflow /\ d.rescan = rescan
        BY <1>1, <1>5
    <2>2. d.retry \in [Scopes -> Entries] /\ d.retry[s] = entry
          /\ \A k \in Scopes \ {s} : d.retry[k] = retry[k]
        BY <1>t, <2>1
    <2>3. Range(retries) \subseteq Scopes
        BY <1>t, RangeOfSeq
    <2>4. d.overflow \in Nat /\ d.overflow >= overflow /\ d.rescan \in Nat \cup {Never}
        BY <1>t, <2>1
    <2> HIDE DEF d
    <2>5. Range(d.retries) = Range(retries) \cup {s}
        BY <1>5, <2>1
    <2>6. \A k \in Range(retries) \ {s} : k \in Range(d.retries) /\ d.retry[k] = retry[k]
        BY <2>1, <2>2, <2>3
    <2> QED
        BY <1>t, <2>1, <2>2, <2>4, <2>5, <2>6 DEF d
<1>6. CASE ~ present /\ ~ full
    <2>1. /\ d.retries = Append(retries, s) /\ d.retry = [retry EXCEPT ![s] = entry]
          /\ d.overflow = overflow /\ d.rescan = rescan
        BY <1>1, <1>6
    <2>2. d.retry \in [Scopes -> Entries] /\ d.retry[s] = entry
          /\ \A k \in Scopes \ {s} : d.retry[k] = retry[k]
        BY <1>t, <2>1
    <2>3. Range(retries) \subseteq Scopes
        BY <1>t, RangeOfSeq
    <2>4. /\ Append(retries, s) \in Seq(Scopes)
          /\ Len(Append(retries, s)) = Len(retries) + 1
          /\ Range(Append(retries, s)) = Range(retries) \cup {s}
          /\ IsInjective(Append(retries, s))
        BY <1>t, <1>6, AppendFacts
    <2>5. Len(d.retries) <= RetryLimit
        BY <1>t, <1>6, <2>1, <2>4
    <2>6. d.overflow \in Nat /\ d.overflow >= overflow /\ d.rescan \in Nat \cup {Never}
        BY <1>t, <2>1
    <2> HIDE DEF d
    <2>7. Range(d.retries) = Range(retries) \cup {s}
        BY <2>1, <2>4
    <2>8. \A k \in Range(retries) \ {s} : k \in Range(d.retries) /\ d.retry[k] = retry[k]
        BY <2>2, <2>3, <2>7
    <2> QED
        BY <2>1, <2>2, <2>4, <2>5, <2>6, <2>7, <2>8 DEF d
<1>7. CASE ~ present /\ full /\ Evictable # <<>>
    <2>1. /\ d.retries = Append(Without(retries, e), s)
          /\ d.retry = [[retry EXCEPT ![s] = entry] EXCEPT ![e] = NoRetry]
          /\ d.overflow = overflow
          /\ d.rescan = (IF retry[e].block THEN Sooner(retry[e].left) ELSE rescan)
        BY <1>2, <1>7
    <2>2. /\ e \in Scopes /\ e \in Range(retries) /\ e # s
          /\ retry[e].left = 0 \/ retry[e].block
        BY <1>7, EvictableFacts
    <2>3. NoRetry \in Entries
        BY DEF NoRetry, Entries
    <2>4. d.retry \in [Scopes -> Entries] /\ d.retry[s] = entry
          /\ \A k \in Scopes \ {s, e} : d.retry[k] = retry[k]
        BY <1>t, <2>1, <2>2, <2>3
    <2>5. Range(retries) \subseteq Scopes
        BY <1>t, RangeOfSeq
    <2>6. /\ Without(retries, e) \in Seq(Scopes)
          /\ Range(Without(retries, e)) = Range(retries) \ {e}
          /\ IsInjective(Without(retries, e))
          /\ Len(Without(retries, e)) = Len(retries) - 1
        BY <1>t, <2>2, WithoutFacts
    <2>7. /\ d.retries \in Seq(Scopes) /\ IsInjective(d.retries)
          /\ Len(d.retries) = Len(Without(retries, e)) + 1
          /\ Range(d.retries) = (Range(retries) \ {e}) \cup {s}
        BY <1>7, <2>1, <2>6, AppendFacts
    <2>8. d.rescan \in Nat \cup {Never}
        BY <1>t, <1>r, <2>1, <2>2, SoonerType
    <2>9. Len(d.retries) <= RetryLimit
        BY <1>t, <2>6, <2>7
    <2>10. N > RetryLimit
        BY <1>t, <1>7, RoomForAll, LoopConstants
    <2>11. d.overflow \in Nat /\ d.overflow >= overflow
        BY <1>t, <2>1
    <2>12. \A k \in Range(retries) \ {s} :
               (~ retry[k].block /\ retry[k].left > 0) => k # e
        BY <2>2
    <2>13. N \in Nat
        BY LoopConstants
    <2> HIDE DEF d, e
    <2>14. ~ (N <= RetryLimit)
        BY <1>t, <2>10, <2>13
    <2>15. \A k \in Range(retries) \ {s} :
               (~ retry[k].block /\ retry[k].left > 0)
                  => (k \in Range(d.retries) /\ d.retry[k] = retry[k])
        BY <2>4, <2>5, <2>7, <2>12
    <2> QED
        BY <2>4, <2>7, <2>8, <2>9, <2>11, <2>14, <2>15 DEF d
<1>8. CASE ~ present /\ full /\ Evictable = <<>>
    <2>1. /\ d.retries = retries /\ d.retry = retry
          /\ d.overflow = (IF entry.block THEN overflow ELSE Greatest(overflow, entry.left))
          /\ d.rescan = (IF entry.block THEN Sooner(entry.left) ELSE rescan)
        <3>1. CASE entry.block
            BY <1>3, <1>8, <3>1
        <3>2. CASE ~ entry.block
            BY <1>4, <1>8, <3>2
        <3> QED
            BY <3>1, <3>2
    <2>2. d.rescan \in Nat \cup {Never}
        BY <1>t, <1>e, <2>1, SoonerType
    <2>3. /\ d.overflow \in Nat /\ d.overflow >= overflow
          /\ ~ entry.block => d.overflow >= entry.left
        BY <1>t, <1>e, <2>1 DEF Greatest
    <2>4. ~ (N <= RetryLimit)
        <3>1. Len(retries) < N
            BY <1>t, <1>8, RoomForAll
        <3> QED
            BY <1>t, <1>8, <3>1, LoopConstants
    <2> HIDE DEF d
    <2> QED
        BY <1>t, <1>8, <2>1, <2>2, <2>3, <2>4 DEF d
<1> HIDE DEF d
<1>9. CASE present \/ ~ full \/ Evictable # <<>> \/ Evictable = <<>>
    BY <1>5, <1>6, <1>7, <1>8
<1> QED
    BY <1>9

LEMMA ForgetFacts ==
    ASSUME TableOK, NEW s \in Scopes, Forget(s)
    PROVE  /\ TableOK'
           /\ Range(retries') = Range(retries) \ {s}
           /\ \A k \in Scopes \ {s} : retry'[k] = retry[k]
<1>1. /\ retries' \in Seq(Scopes) /\ Range(retries') = Range(retries) \ {s}
      /\ Len(retries') <= Len(retries) /\ IsInjective(retries')
    BY WithoutFacts DEF Forget, TableOK
<1>2. NoRetry \in Entries
    BY DEF NoRetry, Entries
<1>3. retry' \in [Scopes -> Entries] /\ \A k \in Scopes \ {s} : retry'[k] = retry[k]
    BY <1>2 DEF Forget, TableOK
<1>4. Len(retries') <= RetryLimit
    <2>1. Len(retries') \in Nat /\ Len(retries) \in Nat /\ RetryLimit \in Nat
        BY <1>1, LenProperties, LoopConstants DEF TableOK
    <2> QED
        BY <1>1, <2>1 DEF TableOK
<1> QED
    BY <1>1, <1>3, <1>4 DEF Forget, TableOK
--------------------------------------------------------------------------------
(* The ready queue: popped, filled from a page, filled from the table.     *)

\* The parts of the invariant that concern the ready queue.
QueueOK ==
    /\ ready \in Seq(Scopes) /\ IsInjective(ready)
    /\ retryQueued \subseteq Queued
    /\ Len(ready) <= PageSize
    /\ Len(ready) - Cardinality(retryQueued) <= ChannelLimit

LEMMA QueueFacts ==
    ASSUME QueueOK
    PROVE  /\ Queued \subseteq Scopes /\ Len(ready) \in Nat
           /\ Cardinality(Queued) = Len(ready)
           /\ IsFiniteSet(retryQueued) /\ Cardinality(retryQueued) \in Nat
           /\ FreshCapacity \in Int
           /\ FreshCapacity <= PageSize - Len(ready)
           /\ FreshCapacity <= ChannelLimit - (Len(ready) - Cardinality(retryQueued))
<1>1. Queued \subseteq Scopes
    BY RangeOfSeq DEF QueueOK, Queued
<1>2. Cardinality(Queued) = Len(ready) /\ Len(ready) \in Nat
    BY RangeSize, LenProperties DEF QueueOK, Queued
<1>3. IsFiniteSet(retryQueued) /\ Cardinality(retryQueued) \in Nat
    BY <1>1, ScopesFinite DEF QueueOK
<1>4. PageSize \in Nat /\ ChannelLimit \in Nat
    BY LoopConstants
<1> QED
    BY <1>1, <1>2, <1>3, <1>4 DEF FreshCapacity, Least

LEMMA PopFacts ==
    ASSUME QueueOK, ready # <<>>, Pop
    PROVE  /\ QueueOK'
           /\ Head(ready) \in Scopes /\ Head(ready) \in Queued
           /\ Queued' = Queued \ {Head(ready)}
<1> DEFINE s == Head(ready)
<1>1. /\ s \in Scopes /\ s \in Queued
      /\ Tail(ready) \in Seq(Scopes) /\ IsInjective(Tail(ready))
      /\ Len(Tail(ready)) = Len(ready) - 1 /\ Len(ready) \in Nat \ {0}
      /\ Range(Tail(ready)) = Queued \ {s}
    BY TailFacts DEF QueueOK, Queued
<1>2. ready' = Tail(ready) /\ retryQueued' = retryQueued \ {s}
    BY DEF Pop
<1>3. Queued' = Queued \ {s}
    BY <1>1, <1>2 DEF Queued
<1>4. /\ Cardinality(retryQueued) \in Nat
      /\ Cardinality(retryQueued') = IF s \in retryQueued THEN Cardinality(retryQueued) - 1
                                     ELSE Cardinality(retryQueued)
    BY <1>2, QueueFacts, FS_RemoveElement
<1> HIDE DEF s
<1>5. Len(ready') <= PageSize /\ Len(ready') - Cardinality(retryQueued') <= ChannelLimit
    <2>1. Len(ready') = Len(ready) - 1
        BY <1>1, <1>2
    <2>2. PageSize \in Nat /\ ChannelLimit \in Nat
        BY LoopConstants
    <2> QED
        BY <1>1, <1>4, <2>1, <2>2 DEF QueueOK
<1>6. retryQueued' \subseteq Queued'
    BY <1>2, <1>3 DEF QueueOK
<1> QED
    BY <1>1, <1>2, <1>3, <1>5, <1>6 DEF QueueOK, s

LEMMA LoopInvParts ==
    ASSUME LoopInv
    PROVE  /\ QueueOK /\ TableOK
           /\ Running \subseteq Scopes
           /\ probe \in [scope : Scopes \cup {0}, generation : Nat]
           /\ IsFiniteSet(Running) /\ Cardinality(Running) \in Nat
<1>1. Running \subseteq Scopes
    BY DEF Running
<1> QED
    BY <1>1, ScopesFinite DEF LoopInv, TypeOK, BoundedMemory, PlacesOnce, QueueOK, TableOK, Entries

\* A page holds the first open requests of the rest of the walk: those it
\* leaves out come after a full page.
LEMMA ReadPageFacts ==
    ASSUME LoopInv, ReadPage
    PROVE  /\ page' \in [rows : Seq(Scopes), limit : Nat, generation : [Scopes -> Nat]]
           /\ page'.limit \in 1..FreshCapacity
           /\ Len(page'.rows) <= page'.limit
           /\ IsInjective(page'.rows)
           /\ \A s \in Range(page'.rows) : s > requestedAfter
           /\ \A s \in Scopes :
                  (Open(s) /\ s > requestedAfter)
                     => \/ s \in Range(page'.rows)
                        \/ /\ Len(page'.rows) >= page'.limit
                           /\ s > page'.rows[Len(page'.rows)]
<1> DEFINE limit == Least(FreshCapacity, PageSize)
           found == {s \in Scopes : s > requestedAfter /\ Open(s)}
           first == First(found, limit)
           all == [s \in Scopes |-> s]
           rows == Kept(all, first)
<1>1. limit \in 1..FreshCapacity /\ limit \in Nat /\ limit >= 1
    <2>1. FreshCapacity \in Int /\ FreshCapacity > 0
        BY LoopInvParts, QueueFacts DEF ReadPage, Discoverable
    <2>2. PageSize \in Nat \ {0}
        BY LoopConstants
    <2> QED
        BY <2>1, <2>2 DEF Least
<1> HIDE DEF limit
<1>2. page' = [rows |-> rows, limit |-> limit, generation |-> requested]
    BY DEF ReadPage, OpenRows, First, limit
<1>3. found \in SUBSET (1..N) /\ N \in Nat
    BY LoopConstants DEF Scopes
<1>4. /\ IsFiniteSet(first) /\ Cardinality(first) <= limit
      /\ \A s \in found \ first : Cardinality(first) >= limit /\ \A t \in first : t < s
    <2> HIDE DEF found
    <2> QED
        BY <1>1, <1>3, FirstFacts
<1>5. first \subseteq found /\ found \subseteq Scopes
    BY DEF First
<1>6. all \in Seq(Scopes) /\ Range(all) = Scopes /\ IsInjective(all)
    <2>1. all \in [1..N -> Scopes]
        BY DEF Scopes
    <2>2. all \in Seq(Scopes)
        <3> HIDE DEF all
        <3> QED
            BY <1>3, <2>1, SeqDef
    <2> QED
        BY <2>2 DEF Range, IsInjective
<1> HIDE DEF found, first, all
<1>7. rows \in Seq(Scopes) /\ Range(rows) = first /\ IsInjective(rows)
    <2>1. rows \in Seq(Scopes) /\ Range(rows) = Range(all) \cap first /\ IsInjective(rows)
        BY <1>6, KeptFacts
    <2> HIDE DEF rows
    <2> QED
        BY <1>5, <1>6, <2>1
<1> HIDE DEF rows
<1>8. Len(rows) = Cardinality(first) /\ Len(rows) \in Nat
    BY <1>7, RangeSize, LenProperties
<1>9. page'.rows = rows /\ page'.limit = limit
    BY <1>2
<1>10. \A s \in Range(rows) : s > requestedAfter
    BY <1>5, <1>7 DEF found
<1>11. ASSUME NEW s \in Scopes, Open(s), s > requestedAfter, s \notin Range(rows)
       PROVE  Len(rows) >= limit /\ s > rows[Len(rows)]
    <2>1. s \in found \ first
        BY <1>7, <1>11 DEF found
    <2>2. Len(rows) >= limit /\ \A t \in first : t < s
        BY <1>4, <1>8, <2>1
    <2>3. Len(rows) \in 1..Len(rows)
        BY <1>1, <1>8, <2>2
    <2>4. rows[Len(rows)] \in first
        <3>1. DOMAIN rows = 1..Len(rows)
            BY <1>7, LenProperties
        <3> QED
            BY <1>7, <2>3, <3>1 DEF Range
    <2>5. rows[Len(rows)] \in Nat /\ s \in Nat
        BY <1>5, <2>4, LoopConstants
    <2> QED
        BY <2>2, <2>4, <2>5
<1>12. page' \in [rows : Seq(Scopes), limit : Nat, generation : [Scopes -> Nat]]
    BY <1>1, <1>2, <1>7 DEF LoopInv, TypeOK
<1>13. Len(rows) <= limit
    BY <1>4, <1>8
<1> QED
    BY <1>1, <1>7, <1>9, <1>10, <1>11, <1>12, <1>13

\* Applying a page: every row has a place afterwards, and the queue keeps its
\* limits.
LEMMA ApplyPageFacts ==
    ASSUME LoopInv, ApplyPage
    PROVE  /\ QueueOK'
           /\ requestedAfter' \in Scopes \cup {0}
           /\ Queued \subseteq Queued'
           /\ \A s \in Queued' \ Queued : /\ s \in Scopes \ Running
                                          /\ s \notin Range(retries) \/ Requeued(s)
           /\ \A s \in Range(page.rows) : s \in Queued' \cup Running \cup Range(retries)
<1> DEFINE rows == page.rows
           T == {s \in Scopes : Enqueueable(s)}
           fresh == Kept(rows, T)
<1>1. rows \in Seq(Scopes) /\ page.limit \in Nat
    BY DEF LoopInv, TypeOK
<1>2. /\ page.limit >= 1 /\ page.limit <= FreshCapacity
      /\ Len(rows) <= page.limit /\ IsInjective(rows)
    <2>1. page.limit \in 1..FreshCapacity /\ Len(rows) <= page.limit /\ IsInjective(rows)
        BY DEF LoopInv, PageFits, ApplyPage
    <2>2. FreshCapacity \in Int
        BY LoopInvParts, QueueFacts
    <2> QED
        BY <2>1, <2>2
<1>3. /\ fresh \in Seq(Scopes) /\ IsInjective(fresh)
      /\ Len(fresh) <= Len(rows) /\ Range(fresh) = Range(rows) \cap T
    <2> HIDE DEF T
    <2> QED
        BY <1>1, <1>2, KeptFacts
<1>4. Range(fresh) \cap Queued = {}
    BY <1>3 DEF Enqueueable
<1>5. /\ ready' = ready \o fresh
      /\ retryQueued' = retryQueued \cup {s \in Range(fresh) : Requeued(s)}
      /\ requestedAfter' = NextAfter(rows, Len(rows) < page.limit)
    BY DEF ApplyPage
<1> HIDE DEF fresh
<1>6. /\ ready' \in Seq(Scopes) /\ IsInjective(ready')
      /\ Len(ready') = Len(ready) + Len(fresh)
      /\ Queued' = Queued \cup Range(fresh)
    <2>1. ready \in Seq(Scopes) /\ IsInjective(ready)
        BY LoopInvParts DEF QueueOK
    <2> QED
        BY <1>3, <1>4, <1>5, <2>1, ConcatFacts DEF Queued
<1>7. retryQueued' \subseteq Queued' /\ retryQueued \subseteq retryQueued'
    BY <1>5, <1>6, LoopInvParts DEF QueueOK
<1>8. Cardinality(retryQueued) <= Cardinality(retryQueued')
    <2>1. retryQueued' \subseteq Scopes
        BY <1>6, <1>7, RangeOfSeq DEF Queued
    <2>2. IsFiniteSet(retryQueued') /\ retryQueued \in SUBSET retryQueued'
        BY <1>7, <2>1, ScopesFinite
    <2> QED
        BY <2>2, FS_Subset
<1>9. Len(ready') <= PageSize /\ Len(ready') - Cardinality(retryQueued') <= ChannelLimit
    <2>1. PageSize \in Nat /\ ChannelLimit \in Nat
        BY LoopConstants
    <2>2. Len(fresh) \in Nat /\ Len(rows) \in Nat
        BY <1>1, <1>3, LenProperties
    <2>3. /\ Len(ready) \in Nat /\ Cardinality(retryQueued) \in Nat /\ FreshCapacity \in Int
          /\ FreshCapacity <= PageSize - Len(ready)
          /\ FreshCapacity <= ChannelLimit - (Len(ready) - Cardinality(retryQueued))
        BY LoopInvParts, QueueFacts
    <2>4. Cardinality(retryQueued') \in Nat
        <3>1. retryQueued' \subseteq Scopes
            BY <1>6, <1>7, RangeOfSeq DEF Queued
        <3> QED
            BY <3>1, ScopesFinite
    <2>5. Len(fresh) <= FreshCapacity
        BY <1>1, <1>2, <1>3, <2>2, <2>3
    <2> QED
        BY <1>6, <1>8, <2>1, <2>2, <2>3, <2>4, <2>5
<1>10. requestedAfter' \in Scopes \cup {0}
    <2>1. CASE Len(rows) < page.limit
        BY <1>5, <2>1 DEF NextAfter
    <2>2. CASE ~ (Len(rows) < page.limit)
        <3>1. Len(rows) \in Nat
            BY <1>1, LenProperties
        <3>2. Len(rows) \in 1..Len(rows)
            BY <1>1, <1>2, <2>2, <3>1
        <3>3. rows[Len(rows)] \in Scopes
            BY <1>1, <3>2, ElementOfSeq
        <3> QED
            BY <1>5, <2>2, <3>3 DEF NextAfter
    <2> QED
        BY <2>1, <2>2
<1>11. \A s \in Queued' \ Queued : /\ s \in Scopes \ Running
                                   /\ s \notin Range(retries) \/ Requeued(s)
    BY <1>3, <1>6 DEF Enqueueable
<1>12. ASSUME NEW s \in Range(rows) PROVE s \in Queued' \cup Running \cup Range(retries)
    <2>1. s \in Scopes
        BY <1>1, RangeOfSeq
    <2> QED
        BY <1>3, <1>6, <2>1 DEF Enqueueable
<1> QED
    BY <1>6, <1>7, <1>9, <1>10, <1>11, <1>12 DEF QueueOK

\* Due entries join the queue and stay in the table.
LEMMA ActivateFacts ==
    ASSUME LoopInv, ActivateRetries
    PROVE  /\ QueueOK' /\ TableOK'
           /\ Range(retries') = Range(retries)
           /\ Queued \subseteq Queued'
           /\ \A s \in Queued' \ Queued : s \in Range(retries) /\ s \in Scopes \ Running
<1> DEFINE T == {s \in Scopes : /\ retry[s].left = 0
                                /\ s \notin Running
                                /\ s \notin Queued}
           dueKeys == Kept(retries, T)
           allowance == Least(PageSize - Len(ready),
                              ChannelLimit - Cardinality(retryQueued))
           n == Least(Len(dueKeys), allowance)
           taken == SubSeq(dueKeys, 1, n)
           rest == Kept(retries, Scopes \ Range(taken))
<1>1. /\ ready' = ready \o taken
      /\ retryQueued' = retryQueued \cup Range(taken)
      /\ retries' = rest \o taken
      /\ UNCHANGED <<retry, overflow, rescan>>
    BY DEF ActivateRetries
<1>2. retries \in Seq(Scopes) /\ IsInjective(retries) /\ Range(retries) \subseteq Scopes
    <2>1. retries \in Seq(Scopes) /\ IsInjective(retries)
        BY LoopInvParts DEF TableOK
    <2> QED
        BY <2>1, RangeOfSeq
<1>3. /\ dueKeys \in Seq(Scopes) /\ IsInjective(dueKeys)
      /\ Range(dueKeys) = Range(retries) \cap T
    <2> HIDE DEF T
    <2> QED
        BY <1>2, KeptFacts
<1>4. \A s \in Range(dueKeys) : s \in Range(retries) /\ s \in Scopes \ Running /\ s \notin Queued
    BY <1>3
<1> HIDE DEF dueKeys
<1>5. /\ PageSize \in Nat /\ ChannelLimit \in Nat
      /\ Len(ready) \in Nat /\ Cardinality(retryQueued) \in Nat
      /\ Len(ready) <= PageSize
      /\ Len(ready) - Cardinality(retryQueued) <= ChannelLimit
      /\ ready \in Seq(Scopes) /\ IsInjective(ready) /\ retryQueued \subseteq Queued
      /\ IsFiniteSet(retryQueued)
    BY LoopConstants, LoopInvParts, QueueFacts DEF QueueOK
<1>6. n \in Int /\ n <= Len(dueKeys) /\ n <= PageSize - Len(ready)
    <2>1. Len(dueKeys) \in Nat
        BY <1>3, LenProperties
    <2> QED
        BY <1>5, <2>1 DEF Least
<1> HIDE DEF n
<1>7. /\ taken \in Seq(Scopes) /\ IsInjective(taken) /\ Range(taken) \subseteq Range(dueKeys)
      /\ Len(taken) = IF n >= 1 THEN n ELSE 0
    BY <1>3, <1>6, FrontFacts
<1> HIDE DEF taken
<1>8. /\ rest \in Seq(Scopes) /\ IsInjective(rest)
      /\ Range(rest) = Range(retries) \cap (Scopes \ Range(taken))
    BY <1>2, KeptFacts
<1> HIDE DEF rest
<1>9. /\ ready' \in Seq(Scopes) /\ IsInjective(ready')
      /\ Len(ready') = Len(ready) + Len(taken)
      /\ Queued' = Queued \cup Range(taken)
    <2>1. Range(ready) \cap Range(taken) = {}
        BY <1>4, <1>7 DEF Queued
    <2> QED
        BY <1>1, <1>5, <1>7, <2>1, ConcatFacts DEF Queued
<1>10. /\ retries' \in Seq(Scopes) /\ IsInjective(retries')
       /\ Range(retries') = Range(retries)
    <2>1. Range(rest) \cap Range(taken) = {}
        BY <1>8
    <2>2. Range(rest) \cup Range(taken) = Range(retries)
        BY <1>2, <1>4, <1>7, <1>8
    <2> QED
        BY <1>1, <1>7, <1>8, <2>1, <2>2, ConcatFacts
<1>11. Len(retries') <= RetryLimit
    <2>1. Len(retries') = Cardinality(Range(retries'))
        BY <1>10, RangeSize
    <2>2. Len(retries) = Cardinality(Range(retries))
        BY <1>2, RangeSize
    <2> QED
        BY <1>10, <2>1, <2>2, LoopInvParts DEF TableOK
<1>12. Cardinality(retryQueued') = Cardinality(retryQueued) + Len(taken)
    <2>1. retryQueued \cap Range(taken) = {}
        BY <1>4, <1>5, <1>7
    <2>2. /\ IsFiniteSet(Range(taken)) /\ Cardinality(Range(taken)) = Len(taken)
        BY <1>7, RangeSize
    <2>3. Cardinality(retryQueued \cup Range(taken))
            = Cardinality(retryQueued) + Cardinality(Range(taken))
                 - Cardinality(retryQueued \cap Range(taken))
        BY <1>5, <2>2, FS_Union
    <2>4. Cardinality(retryQueued \cap Range(taken)) = 0
        BY <2>1, FS_EmptySet
    <2>5. Len(taken) \in Nat
        BY <1>7, LenProperties
    <2> QED
        BY <1>1, <1>5, <2>2, <2>3, <2>4, <2>5
<1>13. Len(ready') <= PageSize /\ Len(ready') - Cardinality(retryQueued') <= ChannelLimit
    <2>1. Len(taken) \in Nat
        BY <1>7, LenProperties
    <2> QED
        BY <1>5, <1>6, <1>7, <1>9, <1>12, <2>1
<1>14. QueueOK'
    BY <1>1, <1>5, <1>9, <1>13 DEF QueueOK
<1>15. TableOK'
    BY <1>1, <1>10, <1>11, LoopInvParts DEF TableOK
<1> QED
    BY <1>4, <1>7, <1>9, <1>10, <1>14, <1>15
--------------------------------------------------------------------------------
(* Which steps move what.                                                  *)

Reaps == \E s \in Scopes, d \in Delays : Reap(s, d)

ProbesDefer == \E rejected \in BOOLEAN, d \in Delays : ProbeDefers(rejected, d)

WorkersEnd == \E s \in Scopes, o \in Outcomes, a \in BOOLEAN : WorkerEnds(s, o, a)

Requests == \E s \in Scopes : RequestScope(s)

\* The family's memory is cleared, between two cycles as after the loop.
Clears ==
    /\ ClearedFamily
    /\ pc' \in {"idle", "removed"}
    /\ discoveryDelay' \in {0, discoveryDelay}
    /\ UNCHANGED durable

\* The steps that move each part of the state; any other step leaves it alone.
QueueMoves ==
    UNCHANGED queue \/ ApplyPage \/ ActivateRetries \/ PopIdle \/ PopOpen \/ Clears

TableMoves ==
    \/ UNCHANGED backoff \/ Tick \/ Reaps \/ EndReap \/ ActivateRetries
    \/ PopIdle \/ ProbePasses \/ ProbesDefer \/ Clears

WorkersMove ==
    UNCHANGED workers \/ WorkersEnd \/ Reaps \/ PopOpen \/ ProbePasses \/ Clears

ProbeMoves ==
    \/ UNCHANGED probe /\ (pc = "probe" <=> pc' = "probe")
    \/ PopOpen \/ ProbePasses \/ ProbesDefer \/ Clears

WalkMoves ==
    \/ UNCHANGED <<requestedAfter, page>> /\ (pc = "apply" <=> pc' = "apply")
    \/ ReadPage \/ DiscoveryFails \/ ApplyPage \/ Clears

NoticeMoves ==
    \/ UNCHANGED wakeup \/ Wake \/ Reaps \/ EndReap \/ ReadPage \/ ApplyPage
    \/ ProbesDefer \/ Clears

CoolingMoves ==
    UNCHANGED cooling \/ Tick \/ Reaps \/ ProbesDefer \/ Clears

RowsMove ==
    UNCHANGED <<requested, handled>> \/ Requests \/ WorkersEnd

WakeMoves ==
    UNCHANGED wakeOwed \/ Requests \/ Wake \/ Clears

LEMMA Moves ==
    ASSUME [Next]_vars, TypeOK
    PROVE  /\ QueueMoves /\ TableMoves /\ WorkersMove /\ ProbeMoves
           /\ WalkMoves /\ NoticeMoves /\ CoolingMoves /\ RowsMove /\ WakeMoves
<1> USE DEF QueueMoves, TableMoves, WorkersMove, ProbeMoves, WalkMoves, NoticeMoves,
            CoolingMoves, RowsMove, WakeMoves, durable, queue, workers, backoff, discovery, wakeup
<1>1. CASE Requests
    BY <1>1 DEF Requests, RequestScope
<1>2. CASE Wake
    BY <1>2 DEF Wake
<1>3. CASE \E s \in Scopes : Unblock(s)
    BY <1>3 DEF Unblock
<1>4. CASE WorkersEnd
    BY <1>4 DEF WorkersEnd, WorkerEnds
<1>5. CASE Tick
    BY <1>5 DEF Tick
<1>6. CASE BeginCycle
    BY <1>6 DEF BeginCycle
<1>7. CASE Reaps
    BY <1>7 DEF Reaps, Reap
<1>8. CASE EndReap
    BY <1>8 DEF EndReap
<1>9. CASE ReadPage
    BY <1>9 DEF ReadPage
<1>10. CASE SkipDiscovery
    BY <1>10 DEF SkipDiscovery
<1>11. CASE DiscoveryFails
    BY <1>11 DEF DiscoveryFails
<1>12. CASE ApplyPage
    BY <1>12 DEF ApplyPage
<1>13. CASE ActivateRetries
    BY <1>13 DEF ActivateRetries
<1>14. CASE PopIdle
    BY <1>14 DEF PopIdle, CanPop
<1>15. CASE PopOpen
    BY <1>15 DEF PopOpen, CanPop
<1>16. CASE ProbePasses
    BY <1>16 DEF ProbePasses
<1>17. CASE ProbesDefer
    BY <1>17 DEF ProbesDefer, ProbeDefers
<1>18. CASE EndDispatch
    BY <1>18 DEF EndDispatch
<1>19. CASE (\E restart \in BOOLEAN : LoseTerm(restart)) \/ RemoveBinding
    <2>1. Clears
        BY <1>19 DEF LoseTerm, RemoveBinding, Clears
    <2>2. UNCHANGED <<requested, handled>>
        BY <2>1 DEF Clears
    <2> QED
        BY <2>1, <2>2
<1>20. CASE RegisterBinding
    BY <1>20 DEF RegisterBinding
<1>21. CASE UNCHANGED vars
    BY <1>21 DEF vars
<1> QED
    BY <1>1, <1>2, <1>3, <1>4, <1>5, <1>6, <1>7, <1>8, <1>9, <1>10, <1>11,
       <1>12, <1>13, <1>14, <1>15, <1>16, <1>17, <1>18, <1>19, <1>20, <1>21
       DEF Next, Requests, WorkersEnd, Reaps, ProbesDefer

LEMMA QueueStep ==
    ASSUME LoopInv, [Next]_vars
    PROVE  QueueOK'
<1>1. CASE UNCHANGED queue
    BY <1>1, LoopInvParts DEF queue, QueueOK, Queued
<1>2. CASE ApplyPage
    BY <1>2, ApplyPageFacts
<1>3. CASE ActivateRetries
    BY <1>3, ActivateFacts
<1>4. CASE PopIdle
    BY <1>4, LoopInvParts, PopFacts DEF PopIdle, CanPop
<1>5. CASE PopOpen
    BY <1>5, LoopInvParts, PopFacts DEF PopOpen, CanPop
<1>6. CASE Clears
    <2>1. ready' = <<>> /\ retryQueued' = {}
        BY <1>6 DEF Clears, ClearedFamily
    <2>2. Cardinality(retryQueued') = 0 /\ PageSize \in Nat /\ ChannelLimit \in Nat
        BY <2>1, FS_EmptySet, LoopConstants
    <2> QED
        BY <2>1, <2>2 DEF QueueOK, IsInjective
<1> QED
    BY <1>1, <1>2, <1>3, <1>4, <1>5, <1>6, Moves DEF QueueMoves, LoopInv

\* The entries that a worker's end, a probe or _defer_admission_error() make.
LEMMA ReapEntry ==
    ASSUME LoopInv, NEW s \in Scopes, NEW d \in Delays, Reap(s, d), running[s] # "ok"
    PROVE  \E entry \in Entries :
              /\ Apply(Deferred(s, entry))
              /\ running[s] # "blocked" => ~ entry.block /\ entry.left = d
<1> DEFINE entry == IF running[s] = "blocked"
                    THEN [left |-> BlockCheck, block |-> TRUE, generation |-> claimed[s]]
                    ELSE [left |-> d, block |-> FALSE, generation |-> 0]
<1>1. Apply(Deferred(s, entry))
    BY DEF Reap
<1>2. BlockCheck \in Nat /\ d \in Nat /\ claimed[s] \in Nat
    BY LoopConstants DEF LoopInv, TypeOK
<1>3. entry \in Entries
    BY <1>2 DEF Entries
<1>4. running[s] # "blocked" => ~ entry.block /\ entry.left = d
    OBVIOUS
<1> HIDE DEF entry
<1> QED
    BY <1>1, <1>3, <1>4

LEMMA ProbeEntryType ==
    ASSUME LoopInv, pc = "probe", NEW rejected \in BOOLEAN, NEW d \in Delays
    PROVE  /\ ProbeEntry(probe.scope, rejected, d) \in Entries
           /\ ~ ProbeEntry(probe.scope, rejected, d).block
                 => ProbeEntry(probe.scope, rejected, d).left = d
<1>1. BlockCheck \in Nat /\ d \in Nat /\ probe.generation \in Nat
    BY LoopConstants DEF LoopInv, TypeOK
<1> QED
    BY <1>1 DEF ProbeEntry, Entries

LEMMA TableStep ==
    ASSUME LoopInv, [Next]_vars
    PROVE  TableOK'
<1>t. /\ retries \in Seq(Scopes) /\ IsInjective(retries)
      /\ Len(retries) <= RetryLimit
      /\ retry \in [Scopes -> Entries]
      /\ overflow \in Nat /\ rescan \in Nat \cup {Never}
    BY LoopInvParts DEF TableOK
<1>1. CASE UNCHANGED backoff
    BY <1>1, <1>t DEF backoff, TableOK
<1>2. CASE Tick
    <2>1. \A n \in Nat : Passed(n) \in Nat
        BY DEF Passed
    <2>2. Passed(rescan) \in Nat \cup {Never}
        BY <1>t DEF Passed, Never
    <2>3. retry' \in [Scopes -> Entries]
        <3>1. \A s \in Scopes : [retry[s] EXCEPT !.left = Passed(@)] \in Entries
            BY <1>t, <2>1 DEF Entries
        <3> QED
            BY <1>2, <3>1 DEF Tick
    <2>4. UNCHANGED retries /\ overflow' \in Nat /\ rescan' \in Nat \cup {Never}
        BY <1>2, <1>t, <2>1, <2>2 DEF Tick
    <2> QED
        BY <1>t, <2>3, <2>4 DEF TableOK
<1>d. ASSUME NEW s \in Scopes, NEW entry \in Entries, Apply(Deferred(s, entry))
      PROVE  TableOK'
    <2> DEFINE d == Deferred(s, entry)
    <2>1. /\ d.retries \in Seq(Scopes) /\ IsInjective(d.retries)
          /\ Len(d.retries) <= RetryLimit
          /\ d.retry \in [Scopes -> Entries]
          /\ d.overflow \in Nat /\ d.rescan \in Nat \cup {Never}
        BY LoopInvParts, DeferredFacts
    <2>2. /\ retries' = d.retries /\ retry' = d.retry
          /\ overflow' = d.overflow /\ rescan' = d.rescan
        BY <1>d DEF Apply
    <2> HIDE DEF d
    <2> QED
        BY <2>1, <2>2 DEF TableOK
<1>3. ASSUME NEW s \in Scopes, NEW d \in Delays, Reap(s, d) PROVE TableOK'
    <2>1. CASE running[s] = "ok"
        BY <1>3, <2>1, LoopInvParts, ForgetFacts DEF Reap
    <2>2. CASE running[s] # "ok"
        BY <1>3, <1>d, <2>2, ReapEntry
    <2> QED
        BY <2>1, <2>2
<1>4. CASE EndReap
    BY <1>4, <1>t DEF EndReap, TableOK
<1>5. CASE ActivateRetries
    BY <1>5, ActivateFacts
<1>6. CASE PopIdle
    <2>1. Head(ready) \in Scopes
        BY <1>6, LoopInvParts, PopFacts DEF PopIdle, CanPop
    <2>2. CASE UNCHANGED backoff
        BY <1>1, <2>2
    <2>3. CASE Forget(Head(ready))
        BY <2>1, <2>3, LoopInvParts, ForgetFacts
    <2> QED
        BY <1>6, <2>2, <2>3 DEF PopIdle
<1>7. CASE ProbePasses
    <2>1. retry' \in [Scopes -> Entries]
        <3> DEFINE s == probe.scope
        <3>1. s \in Scopes
            BY <1>7 DEF ProbePasses, LoopInv, ProbeHasSlot
        <3>2. retry' \in {retry, [retry EXCEPT ![s].left = 0, ![s].block = FALSE]}
            BY <1>7 DEF ProbePasses
        <3>3. [retry EXCEPT ![s].left = 0, ![s].block = FALSE] \in [Scopes -> Entries]
            BY <1>t, <3>1 DEF Entries
        <3> QED
            BY <1>t, <3>2, <3>3
    <2> QED
        BY <1>7, <1>t, <2>1 DEF ProbePasses, TableOK
<1>8. ASSUME NEW rejected \in BOOLEAN, NEW d \in Delays, ProbeDefers(rejected, d)
      PROVE  TableOK'
    <2>1. probe.scope \in Scopes /\ pc = "probe"
        BY <1>8 DEF ProbeDefers, LoopInv, ProbeHasSlot
    <2>2. Apply(Deferred(probe.scope, ProbeEntry(probe.scope, rejected, d)))
        BY <1>8 DEF ProbeDefers
    <2> QED
        BY <1>d, <2>1, <2>2, ProbeEntryType
<1>9. CASE Clears
    <2>1. /\ retries' = <<>> /\ retry' = [s \in Scopes |-> NoRetry]
          /\ overflow' = 0 /\ rescan' = Never
        BY <1>9 DEF Clears, ClearedFamily
    <2>2. NoRetry \in Entries /\ RetryLimit \in Nat
        BY LoopConstants DEF NoRetry, Entries
    <2> QED
        BY <2>1, <2>2 DEF TableOK, IsInjective
<1> QED
    BY <1>1, <1>2, <1>3, <1>4, <1>5, <1>6, <1>7, <1>8, <1>9, Moves
       DEF TableMoves, LoopInv, Reaps, ProbesDefer
--------------------------------------------------------------------------------
(* The slots and the places.                                               *)

LEMMA RunningAfter ==
    ASSUME LoopInv
    PROVE  /\ UNCHANGED workers \/ WorkersEnd => Running' = Running
           /\ \A s \in Scopes, d \in Delays : Reap(s, d) => Running' = Running \ {s}
           /\ PopOpen => Running' = IF CanBlock = {} THEN Running \cup {Head(ready)}
                                    ELSE Running
           /\ ProbePasses => Running' = Running \cup {probe.scope}
           /\ Clears => Running' = {}
<1>t. running \in [Scopes -> Outcomes \cup {"none", "active"}]
    BY DEF LoopInv, TypeOK
<1>1. ASSUME UNCHANGED workers PROVE Running' = Running
    BY <1>1 DEF workers, Running
<1>2. ASSUME WorkersEnd PROVE Running' = Running
    <2>1. PICK s \in Scopes, o \in Outcomes :
              running[s] = "active" /\ running' = [running EXCEPT ![s] = o]
        BY <1>2 DEF WorkersEnd, WorkerEnds
    <2>2. o # "none"
        BY DEF Outcomes
    <2> QED
        BY <1>t, <2>1, <2>2 DEF Running
<1>3. ASSUME NEW s \in Scopes, NEW d \in Delays, Reap(s, d) PROVE Running' = Running \ {s}
    <2>1. running' = [running EXCEPT ![s] = "none"]
        BY <1>3 DEF Reap
    <2> QED
        BY <1>t, <2>1 DEF Running
<1>4. ASSUME NEW s \in Scopes, running' = [running EXCEPT ![s] = "active"]
      PROVE  Running' = Running \cup {s}
    BY <1>t, <1>4 DEF Running
<1>5. ASSUME PopOpen PROVE Running' = IF CanBlock = {} THEN Running \cup {Head(ready)}
                                      ELSE Running
    <2>1. Head(ready) \in Scopes
        BY <1>5, LoopInvParts, PopFacts DEF PopOpen, CanPop
    <2>2. CASE CanBlock = {}
        BY <1>4, <1>5, <2>1, <2>2 DEF PopOpen
    <2>3. CASE CanBlock # {}
        BY <1>1, <1>5, <2>3 DEF PopOpen
    <2> QED
        BY <2>2, <2>3
<1>6. ASSUME ProbePasses PROVE Running' = Running \cup {probe.scope}
    BY <1>4, <1>6 DEF ProbePasses, LoopInv, ProbeHasSlot
<1>7. ASSUME Clears PROVE Running' = {}
    BY <1>7 DEF Clears, ClearedFamily, Running
<1> QED
    BY <1>1, <1>2, <1>3, <1>5, <1>6, <1>7

LEMMA SlotStep ==
    ASSUME LoopInv, [Next]_vars
    PROVE  Cardinality(Running') <= MaxWorkers
<1>1. /\ IsFiniteSet(Running) /\ Cardinality(Running) \in Nat
      /\ Cardinality(Running) <= MaxWorkers /\ MaxWorkers \in Nat
    BY LoopInvParts, LoopConstants DEF LoopInv, BoundedMemory
<1>2. ASSUME NEW s PROVE /\ Cardinality(Running \ {s}) <= Cardinality(Running)
                         /\ Cardinality(Running \cup {s}) <= Cardinality(Running) + 1
                         /\ Cardinality(Running \ {s}) \in Nat
                         /\ Cardinality(Running \cup {s}) \in Nat
    <2>1. /\ Cardinality(Running \ {s}) = IF s \in Running THEN Cardinality(Running) - 1
                                          ELSE Cardinality(Running)
          /\ IsFiniteSet(Running \ {s})
        BY <1>1, FS_RemoveElement
    <2>2. /\ Cardinality(Running \cup {s}) = IF s \in Running THEN Cardinality(Running)
                                             ELSE Cardinality(Running) + 1
          /\ IsFiniteSet(Running \cup {s})
        BY <1>1, FS_AddElement
    <2>3. Cardinality(Running \ {s}) \in Nat /\ Cardinality(Running \cup {s}) \in Nat
        BY <2>1, <2>2, FS_CardinalityType
    <2> QED
        BY <1>1, <2>1, <2>2, <2>3
<1>s. ASSUME NEW s, Running' = Running \ {s} PROVE Cardinality(Running') <= MaxWorkers
    <2>1. Cardinality(Running') = Cardinality(Running \ {s})
        BY <1>s
    <2>2. Cardinality(Running') \in Nat /\ Cardinality(Running') <= Cardinality(Running)
        BY ONLY <1>2, <2>1, Zenon
    <2> QED
        BY <1>1, <2>2
<1>l. ASSUME NEW s, Running' = Running \cup {s}, Cardinality(Running) < MaxWorkers
      PROVE  Cardinality(Running') <= MaxWorkers
    <2>1. Cardinality(Running') = Cardinality(Running \cup {s})
        BY <1>l
    <2>2. /\ Cardinality(Running') \in Nat
          /\ Cardinality(Running') <= Cardinality(Running) + 1
        BY ONLY <1>2, <2>1, Zenon
    <2> QED
        BY <1>1, <1>l, <2>2
<1>3. CASE UNCHANGED workers \/ WorkersEnd
    BY <1>1, <1>3, RunningAfter
<1>4. CASE Reaps
    BY <1>s, <1>4, RunningAfter DEF Reaps
<1>5. CASE PopOpen
    <2>1. Cardinality(Running) < MaxWorkers
        BY <1>5 DEF PopOpen, CanPop
    <2>2. Running' = Running \cup {Head(ready)} \/ Running' = Running
        BY <1>5, RunningAfter
    <2> QED
        BY <1>1, <1>l, <2>1, <2>2
<1>6. CASE ProbePasses
    <2>1. Cardinality(Running) < MaxWorkers
        BY <1>6 DEF ProbePasses, LoopInv, ProbeHasSlot
    <2> QED
        BY <1>l, <1>6, <2>1, RunningAfter
<1>7. CASE Clears
    BY <1>1, <1>7, RunningAfter, FS_EmptySet
<1> QED
    BY <1>3, <1>4, <1>5, <1>6, <1>7, Moves DEF WorkersMove, LoopInv

\* A scope that is popped leaves the queue for a slot or a probe.
LEMMA ApartStep ==
    ASSUME LoopInv, [Next]_vars
    PROVE  /\ Queued' \cap Running' = {}
           /\ probe'.scope \notin Queued' \cup Running'
<1>a. /\ Queued \cap Running = {} /\ probe.scope \notin Queued \cup Running
      /\ Queued \subseteq Scopes /\ Running \subseteq Scopes /\ 0 \notin Scopes
    BY LoopInvParts, QueueFacts, LoopConstants DEF LoopInv, PlacesOnce
<1>n. NoProbe.scope = 0
    BY DEF NoProbe
<1>1. CASE Clears
    <2>1. Queued' = {} /\ Running' = {}
        BY <1>1, RunningAfter DEF Clears, ClearedFamily, Queued, Range
    <2> QED
        BY <2>1
<1>2. CASE PopOpen
    <2>1. /\ Head(ready) \in Scopes /\ Head(ready) \in Queued
          /\ Queued' = Queued \ {Head(ready)}
        BY <1>2, LoopInvParts, PopFacts DEF PopOpen, CanPop
    <2>2. CASE CanBlock = {}
        <3>1. Running' = Running \cup {Head(ready)} /\ probe' = probe /\ probe = NoProbe
            BY <1>2, <2>2, RunningAfter DEF PopOpen, CanPop, LoopInv, ProbeHasSlot
        <3> QED
            BY <1>a, <1>n, <2>1, <3>1
    <2>3. CASE CanBlock # {}
        <3>1. Running' = Running /\ probe'.scope = Head(ready)
            BY <1>2, <2>3, RunningAfter DEF PopOpen
        <3> QED
            BY <1>a, <2>1, <3>1
    <2> QED
        BY <2>2, <2>3
<1>3. CASE ProbePasses
    <2>1. Running' = Running \cup {probe.scope} /\ probe' = NoProbe /\ Queued' = Queued
        BY <1>3, RunningAfter DEF ProbePasses, queue, Queued
    <2>2. probe.scope \in Scopes
        BY <1>3 DEF ProbePasses, LoopInv, ProbeHasSlot
    <2> QED
        BY <1>a, <1>n, <2>1, <2>2
<1>4. CASE ProbesDefer
    <2>1. UNCHANGED workers /\ UNCHANGED queue /\ probe' = NoProbe
        BY <1>4 DEF ProbesDefer, ProbeDefers
    <2>2. Running' = Running /\ Queued' = Queued
        BY <2>1, RunningAfter DEF queue, Queued
    <2> QED
        BY <1>a, <1>n, <2>1, <2>2
<1>5. CASE ApplyPage \/ ActivateRetries
    <2>1. UNCHANGED workers /\ UNCHANGED probe /\ probe = NoProbe
        BY <1>5 DEF ApplyPage, ActivateRetries, LoopInv, ProbeHasSlot
    <2>2. Running' = Running
        BY <2>1, RunningAfter
    <2>3. \A s \in Queued' \ Queued : s \in Scopes \ Running
        BY <1>5, ApplyPageFacts, ActivateFacts
    <2> QED
        BY <1>a, <1>n, <2>1, <2>2, <2>3
<1>6. CASE PopIdle
    <2>1. Queued' \subseteq Queued /\ UNCHANGED workers /\ UNCHANGED probe
        BY <1>6, LoopInvParts, PopFacts DEF PopIdle, CanPop
    <2>2. Running' = Running
        BY <2>1, RunningAfter
    <2> QED
        BY <1>a, <2>1, <2>2
<1>7. CASE Reaps
    <2>1. UNCHANGED queue /\ UNCHANGED probe
        BY <1>7 DEF Reaps, Reap
    <2>2. Running' \subseteq Running
        BY <1>7, RunningAfter DEF Reaps
    <2> QED
        BY <1>a, <2>1, <2>2 DEF queue, Queued
<1>8. CASE UNCHANGED queue /\ (UNCHANGED workers \/ WorkersEnd) /\ UNCHANGED probe
    <2>1. Running' = Running /\ Queued' = Queued
        BY <1>8, RunningAfter DEF queue, Queued
    <2> QED
        BY <1>a, <1>8, <2>1
<1> QED
    BY <1>1, <1>2, <1>3, <1>4, <1>5, <1>6, <1>7, <1>8, Moves
       DEF QueueMoves, WorkersMove, ProbeMoves, LoopInv

LEMMA ProbeStep ==
    ASSUME LoopInv, [Next]_vars
    PROVE  ProbeHasSlot'
<1>1. CASE Clears
    BY <1>1 DEF Clears, ClearedFamily, ProbeHasSlot
<1>2. CASE ProbePasses \/ ProbesDefer
    BY <1>2 DEF ProbePasses, ProbesDefer, ProbeDefers, ProbeHasSlot
<1>3. CASE PopOpen
    <2>1. Head(ready) \in Scopes
        BY <1>3, LoopInvParts, PopFacts DEF PopOpen, CanPop
    <2>2. CASE CanBlock = {}
        BY <1>3, <2>2 DEF PopOpen, CanPop, LoopInv, ProbeHasSlot
    <2>3. CASE CanBlock # {}
        <3>1. Running' = Running
            BY <1>3, <2>3, RunningAfter
        <3>2. Cardinality(Running') < MaxWorkers
            BY <1>3, <3>1 DEF PopOpen, CanPop
        <3>3. probe'.scope \in Scopes /\ pc' = "probe"
            BY <1>3, <2>1, <2>3 DEF PopOpen
        <3> QED
            BY <2>3, <3>2, <3>3 DEF ProbeHasSlot
    <2> QED
        BY <2>2, <2>3
<1>4. CASE UNCHANGED probe /\ (pc = "probe" <=> pc' = "probe") /\ pc # "probe"
    BY <1>4 DEF LoopInv, ProbeHasSlot
<1>5. CASE UNCHANGED probe /\ pc = "probe" /\ pc' = "probe" /\ (UNCHANGED workers \/ WorkersEnd)
    <2>1. Running' = Running
        BY <1>5, RunningAfter
    <2> QED
        BY <1>5, <2>1 DEF LoopInv, ProbeHasSlot
<1>6. pc = "probe" => ~ Reaps
    BY DEF Reaps, Reap
<1> QED
    BY <1>1, <1>2, <1>3, <1>4, <1>5, <1>6, Moves DEF WorkersMove, ProbeMoves, LoopInv
--------------------------------------------------------------------------------
(* The page, the claims and the types.                                     *)

LEMMA PageStep ==
    ASSUME LoopInv, [Next]_vars
    PROVE  PageFits'
<1>1. CASE Clears
    BY <1>1 DEF Clears, PageFits
<1>2. CASE DiscoveryFails \/ ApplyPage
    BY <1>2 DEF DiscoveryFails, ApplyPage, PageFits
<1>3. CASE ReadPage
    <2>1. /\ UNCHANGED queue /\ UNCHANGED requestedAfter /\ UNCHANGED overflow
          /\ overflow = 0
        BY <1>3 DEF ReadPage, Discoverable, backoff
    <2>2. FreshCapacity' = FreshCapacity
        BY <2>1 DEF FreshCapacity, queue
    <2>3. /\ page'.limit \in 1..FreshCapacity
          /\ Len(page'.rows) <= page'.limit
          /\ IsInjective(page'.rows)
          /\ \A s \in Range(page'.rows) : s > requestedAfter
        BY <1>3, ReadPageFacts
    <2> QED
        BY <2>1, <2>2, <2>3 DEF PageFits
<1>4. CASE UNCHANGED <<requestedAfter, page>> /\ (pc = "apply" <=> pc' = "apply") /\ ~ ApplyPage
    <2> SUFFICES ASSUME pc = "apply"
                 PROVE  PageFits'
        BY <1>4 DEF PageFits
    <2>1. UNCHANGED queue \/ Clears
        <3>1. ~ ActivateRetries /\ ~ PopIdle /\ ~ PopOpen
            BY DEF ActivateRetries, PopIdle, PopOpen, CanPop
        <3> QED
            BY <1>4, <3>1, Moves DEF QueueMoves, LoopInv
    <2>2. UNCHANGED overflow \/ Tick \/ Clears
        <3>1. ~ Reaps /\ ~ EndReap /\ ~ ActivateRetries /\ ~ PopIdle /\ ~ ProbePasses
              /\ ~ ProbesDefer
            BY DEF Reaps, Reap, EndReap, ActivateRetries, PopIdle, CanPop, ProbePasses,
                   ProbesDefer, ProbeDefers
        <3> QED
            BY <3>1, Moves DEF TableMoves, backoff, LoopInv
    <2>3. overflow' = 0 \/ Clears
        <3>1. overflow = 0
            BY DEF LoopInv, PageFits
        <3> QED
            BY <2>2, <3>1 DEF Tick, Passed
    <2>4. CASE UNCHANGED queue /\ overflow' = 0
        <3>1. FreshCapacity' = FreshCapacity
            BY <2>4 DEF FreshCapacity, queue
        <3> QED
            BY <1>4, <2>4, <3>1 DEF LoopInv, PageFits
    <2> QED
        BY <1>1, <2>1, <2>3, <2>4
<1> QED
    BY <1>1, <1>2, <1>3, <1>4, Moves DEF WalkMoves, LoopInv

LEMMA RowsStep ==
    ASSUME LoopInv, [Next]_vars
    PROVE  /\ requested' \in [Scopes -> Nat] /\ handled' \in [Scopes -> Nat]
           /\ \A s \in Scopes : requested[s] <= requested'[s] /\ handled'[s] <= requested'[s]
           /\ \A s \in Scopes : handled[s] <= handled'[s]
           /\ Requests \/ requested' = requested
<1>t. /\ requested \in [Scopes -> Nat] /\ handled \in [Scopes -> Nat]
      /\ claimed \in [Scopes -> Nat]
      /\ \A s \in Scopes : handled[s] <= requested[s] /\ claimed[s] <= requested[s]
    BY DEF LoopInv, TypeOK, ClaimsRequested
<1>1. CASE UNCHANGED <<requested, handled>>
    BY <1>1, <1>t
<1>2. CASE Requests
    <2>1. PICK s \in Scopes : /\ requested' = [requested EXCEPT ![s] = @ + 1]
                              /\ UNCHANGED handled
        BY <1>2 DEF Requests, RequestScope
    <2> QED
        BY <1>2, <1>t, <2>1
<1>3. CASE WorkersEnd
    <2>1. PICK s \in Scopes :
              /\ UNCHANGED requested
              /\ handled' \in {handled, [handled EXCEPT ![s] = Greatest(@, claimed[s])]}
        BY <1>3 DEF WorkersEnd, WorkerEnds
    <2>2. /\ Greatest(handled[s], claimed[s]) \in Nat
          /\ Greatest(handled[s], claimed[s]) <= requested[s]
          /\ Greatest(handled[s], claimed[s]) >= handled[s]
        BY <1>t DEF Greatest
    <2> QED
        BY <1>t, <2>1, <2>2
<1> QED
    BY <1>1, <1>2, <1>3, Moves DEF RowsMove, LoopInv

\* A claim is of a generation that the row has reached, whatever requests
\* arrive before the worker ends.
LEMMA ClaimsStep ==
    ASSUME LoopInv, [Next]_vars
    PROVE  ClaimsRequested' /\ claimed' \in [Scopes -> Nat]
<1>t. /\ requested \in [Scopes -> Nat] /\ claimed \in [Scopes -> Nat]
      /\ probe.scope \in Scopes \cup {0} /\ probe.generation \in Nat
      /\ \A s \in Scopes : claimed[s] <= requested[s]
      /\ probe.scope \in Scopes => probe.generation <= requested[probe.scope]
    BY DEF LoopInv, TypeOK, ClaimsRequested
<1>r. requested' \in [Scopes -> Nat] /\ \A s \in Scopes : requested[s] <= requested'[s]
    BY RowsStep
<1>n. NoProbe.scope \notin Scopes
    BY LoopConstants DEF NoProbe
<1>c. ASSUME NEW s \in Scopes, NEW g \in Nat, g <= requested[s],
             claimed' = [claimed EXCEPT ![s] = g]
      PROVE  claimed' \in [Scopes -> Nat] /\ \A k \in Scopes : claimed'[k] <= requested'[k]
    <2>1. claimed' \in [Scopes -> Nat]
        BY <1>c, <1>t
    <2>2. \A k \in Scopes : claimed'[k] <= requested[k]
        BY <1>c, <1>t
    <2> QED
        BY <1>r, <1>t, <2>1, <2>2
<1>u. ASSUME UNCHANGED claimed
      PROVE  claimed' \in [Scopes -> Nat] /\ \A k \in Scopes : claimed'[k] <= requested'[k]
    BY <1>t, <1>r, <1>u
<1>p. ASSUME UNCHANGED probe
      PROVE  probe'.scope \in Scopes => probe'.generation <= requested'[probe'.scope]
    BY <1>t, <1>r, <1>p
<1>1. CASE Clears
    <2>1. claimed' = [s \in Scopes |-> 0] /\ probe' = NoProbe
        BY <1>1 DEF Clears, ClearedFamily
    <2> QED
        BY <1>r, <1>n, <2>1 DEF ClaimsRequested
<1>2. CASE PopOpen
    <2>1. Head(ready) \in Scopes
        BY <1>2, LoopInvParts, PopFacts DEF PopOpen, CanPop
    <2>2. Claim(Head(ready)) \in Nat /\ Claim(Head(ready)) <= requested[Head(ready)]
        BY <1>t, <2>1 DEF Claim
    <2>3. CASE CanBlock = {}
        <3>1. claimed' = [claimed EXCEPT ![Head(ready)] = Claim(Head(ready))] /\ UNCHANGED probe
            BY <1>2, <2>3 DEF PopOpen
        <3> QED
            BY <1>c, <1>p, <2>1, <2>2, <3>1 DEF ClaimsRequested
    <2>4. CASE CanBlock # {}
        <3>1. /\ UNCHANGED claimed /\ probe'.scope = Head(ready)
              /\ probe'.generation = requested[Head(ready)]
            BY <1>2, <2>4 DEF PopOpen, workers, Claim
        <3>2. probe'.scope \in Scopes => probe'.generation <= requested'[probe'.scope]
            BY <1>r, <2>1, <3>1
        <3> QED
            BY <1>u, <3>1, <3>2 DEF ClaimsRequested
    <2> QED
        BY <2>3, <2>4
<1>3. CASE ProbePasses
    <2>1. probe.scope \in Scopes
        BY <1>3 DEF ProbePasses, LoopInv, ProbeHasSlot
    <2>2. /\ claimed' = [claimed EXCEPT ![probe.scope] = probe.generation]
          /\ probe' = NoProbe
        BY <1>3 DEF ProbePasses
    <2> QED
        BY <1>c, <1>n, <1>t, <2>1, <2>2 DEF ClaimsRequested
<1>4. CASE ProbesDefer
    <2>1. UNCHANGED claimed /\ probe' = NoProbe
        BY <1>4 DEF ProbesDefer, ProbeDefers, workers
    <2> QED
        BY <1>n, <1>u, <2>1 DEF ClaimsRequested
<1>5. CASE Reaps
    <2>1. PICK s \in Scopes : claimed' = [claimed EXCEPT ![s] = 0] /\ UNCHANGED probe
        BY <1>5 DEF Reaps, Reap
    <2>2. 0 \in Nat /\ 0 <= requested[s]
        BY <1>t
    <2> DEFINE zero == 0
    <2>3. zero \in Nat /\ zero <= requested[s] /\ claimed' = [claimed EXCEPT ![s] = zero]
        BY <2>1, <2>2
    <2> HIDE DEF zero
    <2> QED
        BY <1>c, <1>p, <2>1, <2>3 DEF ClaimsRequested
<1>6. CASE (UNCHANGED workers \/ WorkersEnd) /\ UNCHANGED probe
    <2>1. UNCHANGED claimed
        BY <1>6 DEF workers, WorkersEnd, WorkerEnds
    <2> QED
        BY <1>p, <1>u, <1>6, <2>1 DEF ClaimsRequested
<1> QED
    BY <1>1, <1>2, <1>3, <1>4, <1>5, <1>6, Moves DEF WorkersMove, ProbeMoves, LoopInv

LEMMA PassedType ==
    /\ \A n \in Nat : Passed(n) \in Nat
    /\ Passed(0) = 0
    BY DEF Passed

\* The rest of the types, which no other part of the invariant speaks of.
LEMMA ShapeStep ==
    ASSUME LoopInv, [Next]_vars
    PROVE  /\ blocked' \subseteq CanBlock
           /\ wakeOwed' \in BOOLEAN
           /\ pc' \in {"idle", "reap", "discover", "apply", "retries", "dispatch",
                       "more", "probe", "removed"}
           /\ running' \in [Scopes -> Outcomes \cup {"none", "active"}]
           /\ discoveryDelay' \in Nat
           /\ noticed' \in BOOLEAN /\ pending' \in BOOLEAN
           /\ restarts' \in Nat
           /\ cooling' \in [Scopes -> Nat]
<1> USE DEF durable, queue, workers, backoff, discovery, wakeup
<1>t. /\ blocked \subseteq CanBlock
      /\ wakeOwed \in BOOLEAN
      /\ pc \in {"idle", "reap", "discover", "apply", "retries", "dispatch",
                 "more", "probe", "removed"}
      /\ running \in [Scopes -> Outcomes \cup {"none", "active"}]
      /\ discoveryDelay \in Nat
      /\ noticed \in BOOLEAN /\ pending \in BOOLEAN
      /\ restarts \in Nat
      /\ cooling \in [Scopes -> Nat]
    BY DEF LoopInv, TypeOK
<1>1. CASE \E s \in Scopes : RequestScope(s)
    BY <1>1, <1>t DEF RequestScope
<1>2. CASE Wake
    BY <1>2, <1>t DEF Wake
<1>3. CASE \E s \in Scopes : Unblock(s)
    BY <1>3, <1>t DEF Unblock
<1>4. CASE \E s \in Scopes, o \in Outcomes, a \in BOOLEAN : WorkerEnds(s, o, a)
    BY <1>4, <1>t DEF WorkerEnds
<1>5. CASE Tick
    <2>1. cooling' \in [Scopes -> Nat] /\ discoveryDelay' \in Nat
        BY <1>5, <1>t, PassedType DEF Tick
    <2> QED
        BY <1>5, <1>t, <2>1 DEF Tick
<1>6. CASE BeginCycle
    BY <1>6, <1>t DEF BeginCycle
<1>7. CASE \E s \in Scopes, d \in Delays : Reap(s, d)
    BY <1>7, <1>t, LoopConstants DEF Reap
<1>8. CASE EndReap
    BY <1>8, <1>t DEF EndReap
<1>9. CASE ReadPage
    BY <1>9, <1>t DEF ReadPage
<1>10. CASE SkipDiscovery
    BY <1>10, <1>t DEF SkipDiscovery
<1>11. CASE DiscoveryFails
    BY <1>11, <1>t DEF DiscoveryFails
<1>12. CASE ApplyPage
    BY <1>12, <1>t DEF ApplyPage, DiscoveryOwed
<1>13. CASE ActivateRetries
    BY <1>13, <1>t DEF ActivateRetries
<1>14. CASE PopIdle
    BY <1>14, <1>t DEF PopIdle
<1>15. CASE PopOpen
    <2>1. Head(ready) \in Scopes
        BY <1>15, LoopInvParts, PopFacts DEF PopOpen, CanPop
    <2> QED
        BY <1>15, <1>t, <2>1 DEF PopOpen
<1>16. CASE ProbePasses
    <2>1. probe.scope \in Scopes
        BY <1>16 DEF ProbePasses, LoopInv, ProbeHasSlot
    <2> QED
        BY <1>16, <1>t, <2>1 DEF ProbePasses
<1>17. CASE \E rejected \in BOOLEAN, d \in Delays : ProbeDefers(rejected, d)
    <2>1. PICK rejected \in BOOLEAN, d \in Delays : ProbeDefers(rejected, d)
        BY <1>17
    <2>2. probe.scope \in Scopes
        BY <2>1 DEF ProbeDefers, LoopInv, ProbeHasSlot
    <2>3. cooling' \in [Scopes -> Nat]
        <3>1. \E n \in {cooling[probe.scope], d} : cooling' = [cooling EXCEPT ![probe.scope] = n]
            BY <2>1 DEF ProbeDefers
        <3>2. d \in Nat /\ cooling[probe.scope] \in Nat
            BY <1>t, <2>2, LoopConstants
        <3> QED
            BY <1>t, <2>2, <3>1, <3>2
    <2>4. noticed' \in BOOLEAN /\ pending' \in BOOLEAN
        BY <2>1 DEF ProbeDefers
    <2> QED
        BY <1>t, <2>1, <2>3, <2>4 DEF ProbeDefers
<1>18. CASE EndDispatch
    BY <1>18, <1>t DEF EndDispatch
<1>19. CASE \E restart \in BOOLEAN : LoseTerm(restart)
    BY <1>19, <1>t DEF LoseTerm, ClearedFamily
<1>20. CASE RemoveBinding
    BY <1>20, <1>t DEF RemoveBinding, ClearedFamily
<1>21. CASE RegisterBinding
    BY <1>21, <1>t DEF RegisterBinding
<1>22. CASE UNCHANGED vars
    BY <1>22, <1>t DEF vars
<1> QED
    BY <1>1, <1>2, <1>3, <1>4, <1>5, <1>6, <1>7, <1>8, <1>9, <1>10, <1>11,
       <1>12, <1>13, <1>14, <1>15, <1>16, <1>17, <1>18, <1>19, <1>20, <1>21, <1>22
       DEF Next

LEMMA WalkTypes ==
    ASSUME LoopInv, [Next]_vars
    PROVE  /\ requestedAfter' \in Scopes \cup {0}
           /\ page' \in [rows : Seq(Scopes), limit : Nat, generation : [Scopes -> Nat]]
           /\ probe' \in [scope : Scopes \cup {0}, generation : Nat]
<1>t. /\ requestedAfter \in Scopes \cup {0}
      /\ page \in [rows : Seq(Scopes), limit : Nat, generation : [Scopes -> Nat]]
      /\ probe \in [scope : Scopes \cup {0}, generation : Nat]
      /\ requested \in [Scopes -> Nat]
    BY DEF LoopInv, TypeOK
<1>p. NoPage \in [rows : Seq(Scopes), limit : Nat, generation : [Scopes -> Nat]]
    BY EmptySeq DEF NoPage
<1>n. NoProbe \in [scope : Scopes \cup {0}, generation : Nat]
    BY DEF NoProbe
<1>1. /\ requestedAfter' \in Scopes \cup {0}
      /\ page' \in [rows : Seq(Scopes), limit : Nat, generation : [Scopes -> Nat]]
    <2>1. CASE UNCHANGED <<requestedAfter, page>>
        BY <1>t, <2>1
    <2>2. CASE ReadPage
        BY <1>t, <2>2, ReadPageFacts DEF ReadPage
    <2>3. CASE DiscoveryFails
        BY <1>t, <1>p, <2>3 DEF DiscoveryFails
    <2>4. CASE ApplyPage
        BY <1>p, <2>4, ApplyPageFacts DEF ApplyPage
    <2>5. CASE Clears
        BY <1>p, <2>5 DEF Clears, ClearedFamily
    <2> QED
        BY <2>1, <2>2, <2>3, <2>4, <2>5, Moves DEF WalkMoves, LoopInv
<1>2. probe' \in [scope : Scopes \cup {0}, generation : Nat]
    <2>1. CASE UNCHANGED probe
        BY <1>t, <2>1
    <2>2. CASE PopOpen
        <3>1. Head(ready) \in Scopes
            BY <2>2, LoopInvParts, PopFacts DEF PopOpen, CanPop
        <3>2. Claim(Head(ready)) \in Nat
            BY <1>t, <3>1 DEF Claim
        <3>3. [scope |-> Head(ready), generation |-> Claim(Head(ready))]
                  \in [scope : Scopes \cup {0}, generation : Nat]
            BY <3>1, <3>2
        <3> QED
            BY <1>t, <2>2, <3>3 DEF PopOpen
    <2>3. CASE ProbePasses \/ ProbesDefer \/ Clears
        BY <1>n, <2>3 DEF ProbePasses, ProbesDefer, ProbeDefers, Clears, ClearedFamily
    <2> QED
        BY <2>1, <2>2, <2>3, Moves DEF ProbeMoves, LoopInv
<1> QED
    BY <1>1, <1>2

LEMMA LoopStep ==
    ASSUME LoopInv, [Next]_vars
    PROVE  LoopInv'
<1>1. QueueOK' /\ TableOK'
    BY QueueStep, TableStep
<1>2. ready' \in Seq(Scopes) /\ retryQueued' \subseteq Scopes
    <2>1. ready' \in Seq(Scopes) /\ retryQueued' \subseteq Range(ready')
        BY <1>1 DEF QueueOK, Queued
    <2> QED
        BY <2>1, RangeOfSeq
<1>3. TypeOK'
    BY <1>1, <1>2, RowsStep, ClaimsStep, ShapeStep, WalkTypes DEF TypeOK, TableOK, Entries
<1>4. BoundedMemory'
    BY <1>1, SlotStep DEF BoundedMemory, QueueOK, TableOK
<1>5. PlacesOnce'
    BY <1>1, ApartStep DEF PlacesOnce, QueueOK, TableOK
<1> QED
    BY <1>3, <1>4, <1>5, ProbeStep, PageStep, ClaimsStep DEF LoopInv

LEMMA LoopInit ==
    ASSUME Init
    PROVE  LoopInv
<1> USE DEF Init
<1>1. Queued = {} /\ Running = {}
    BY DEF Queued, Running, Range
<1>2. NoRetry \in [left : Nat, block : BOOLEAN, generation : Nat]
    BY DEF NoRetry
<1>3. NoPage \in [rows : Seq(Scopes), limit : Nat, generation : [Scopes -> Nat]]
    BY EmptySeq DEF NoPage
<1>4. NoProbe \in [scope : Scopes \cup {0}, generation : Nat] /\ NoProbe.scope = 0
    BY DEF NoProbe
<1>5. TypeOK
    <2>1. /\ requested \in [Scopes -> Nat] /\ handled \in [Scopes -> Nat]
          /\ \A s \in Scopes : handled[s] <= requested[s]
          /\ claimed \in [Scopes -> Nat] /\ cooling \in [Scopes -> Nat]
        OBVIOUS
    <2>2. /\ running \in [Scopes -> Outcomes \cup {"none", "active"}]
          /\ retry \in [Scopes -> [left : Nat, block : BOOLEAN, generation : Nat]]
        BY <1>2
    <2>3. ready \in Seq(Scopes) /\ retries \in Seq(Scopes) /\ retryQueued \subseteq Scopes
        BY EmptySeq
    <2>4. wakeOwed \in BOOLEAN /\ noticed \in BOOLEAN /\ pending \in BOOLEAN
        OBVIOUS
    <2> QED
        BY <1>3, <1>4, <2>1, <2>2, <2>3, <2>4 DEF TypeOK
<1>6. BoundedMemory
    BY <1>1, FS_EmptySet, EmptySeq, LoopConstants DEF BoundedMemory
<1>7. PlacesOnce
    BY <1>1 DEF PlacesOnce, IsInjective
<1>8. ClaimsRequested
    BY <1>4, LoopConstants DEF ClaimsRequested
<1> QED
    BY <1>5, <1>6, <1>7, <1>8 DEF LoopInv, ProbeHasSlot, PageFits

\* The supervisor's memory is consistent throughout: queue, probe and slots are
\* apart, a page that has been read still fits, and the tables keep their
\* limits, whatever requests, worker exits and restarts come in between.
THEOREM LoopInvariant == Spec => []LoopInv
<1>1. Init => LoopInv
    BY LoopInit
<1>2. LoopInv /\ [Next]_vars => LoopInv'
    BY LoopStep
<1> QED
    BY <1>1, <1>2, PTL DEF Spec
\* Type correctness of the family state and the intent rows (TypeOK).
THEOREM TypeCorrect == Spec => []TypeOK
<1>1. LoopInv => TypeOK
    BY DEF LoopInv
<1> QED
    BY <1>1, LoopInvariant, PTL

\* Pool, queue, fresh channel and retry table keep their fixed limits whatever
\* the backlog, the failures and the evictions (BoundedMemory).
THEOREM MemoryStaysBounded == Spec => []BoundedMemory
<1>1. LoopInv => BoundedMemory
    BY DEF LoopInv
<1> QED
    BY <1>1, LoopInvariant, PTL

\* No scope is queued twice, queued while it runs or is probed, or probed while
\* it runs: one invocation per key (OneInvocationPerKey).
THEOREM OneInvocation == Spec => []OneInvocationPerKey
<1>1. ASSUME LoopInv PROVE OneInvocationPerKey
    <2>1. Cardinality(Queued) = Len(ready)
        BY <1>1, LoopInvParts, QueueFacts
    <2>2. Cardinality(Range(retries)) = Len(retries)
        BY <1>1, RangeSize DEF LoopInv, TypeOK, PlacesOnce
    <2> QED
        BY <1>1, <2>1, <2>2 DEF LoopInv, PlacesOnce, OneInvocationPerKey
<1> QED
    BY <1>1, LoopInvariant, PTL

--------------------------------------------------------------------------------
(* Backoff.                                                                *)

\* What holds a scope back that failed c ticks of backoff ago: its entry, or
\* the overflow gate when the table had no room for it.
Held(s, c) ==
    IF s \in Range(retries)
    THEN ~ retry[s].block /\ retry[s].left >= c
    ELSE overflow >= c /\ s \notin Queued

\* The same after the step.
HeldNext(s, c) ==
    /\ s \in Range(retries') => ~ retry'[s].block /\ retry'[s].left >= c
    /\ s \notin Range(retries') => overflow' >= c /\ s \notin Queued'

\* A scope whose backoff has not passed is held back, and nowhere past the
\* queue.
CoolingHeld ==
    \A s \in Scopes :
        cooling[s] > 0 => s \notin Running /\ s # probe.scope /\ Held(s, cooling[s])

LEMMA CoolingTypes ==
    ASSUME LoopInv
    PROVE  /\ cooling \in [Scopes -> Nat]
           /\ retry \in [Scopes -> Entries]
           /\ \A s \in Scopes : retry[s].left \in Nat /\ cooling[s] \in Nat
           /\ overflow \in Nat
    BY DEF LoopInv, TypeOK, Entries

\* _defer() of one scope leaves the others held.
LEMMA DeferHolds ==
    ASSUME LoopInv, CoolingHeld, UNCHANGED queue,
           NEW s \in Scopes, NEW entry \in Entries, Apply(Deferred(s, entry))
    PROVE  /\ \A k \in Scopes \ {s} : cooling[k] > 0 => HeldNext(k, cooling[k])
           /\ (~ entry.block /\ s \notin Queued) => HeldNext(s, entry.left)
<1> DEFINE d == Deferred(s, entry)
<1>1. /\ d.overflow \in Nat /\ d.overflow >= overflow
      /\ Range(d.retries) \subseteq Range(retries) \cup {s}
      /\ \A k \in Range(retries) \ {s} :
             (~ retry[k].block /\ retry[k].left > 0)
                => (k \in Range(d.retries) /\ d.retry[k] = retry[k])
      /\ \/ s \in Range(d.retries) /\ d.retry[s] = entry
         \/ /\ s \notin Range(d.retries)
            /\ ~ entry.block => d.overflow >= entry.left
    BY LoopInvParts, DeferredFacts
<1>2. /\ retries' = d.retries /\ retry' = d.retry /\ overflow' = d.overflow
      /\ Queued' = Queued
    BY DEF Apply, queue, Queued
<1> HIDE DEF d
<1>3. ASSUME NEW k \in Scopes \ {s}, cooling[k] > 0,
             Held(k, cooling[k])
      PROVE  /\ k \in Range(retries') => ~ retry'[k].block /\ retry'[k].left >= cooling[k]
             /\ k \notin Range(retries') => overflow' >= cooling[k] /\ k \notin Queued'
    <2>1. cooling[k] \in Nat /\ overflow \in Nat /\ retry[k].left \in Nat
        BY CoolingTypes
    <2>2. CASE k \in Range(retries)
        <3>1. ~ retry[k].block /\ retry[k].left >= cooling[k]
            BY <1>3, <2>2 DEF Held
        <3>2. retry[k].left > 0
            BY <1>3, <2>1, <3>1
        <3> QED
            BY <1>1, <1>2, <2>2, <3>1, <3>2
    <2>3. CASE k \notin Range(retries)
        <3>1. overflow >= cooling[k] /\ k \notin Queued
            BY <1>3, <2>3 DEF Held
        <3>2. d.overflow >= cooling[k]
            BY <1>1, <2>1, <3>1
        <3> QED
            BY <1>1, <1>2, <2>3, <3>1, <3>2
    <2> QED
        BY <2>2, <2>3
<1>4. ASSUME NEW k \in Scopes \ {s}, cooling[k] > 0 PROVE Held(k, cooling[k])
    BY <1>4 DEF CoolingHeld
<1>5. ASSUME ~ entry.block, s \notin Queued
      PROVE  /\ s \in Range(retries') => ~ retry'[s].block /\ retry'[s].left >= entry.left
             /\ s \notin Range(retries') => overflow' >= entry.left /\ s \notin Queued'
    <2>1. entry.left \in Nat
        BY DEF Entries
    <2> QED
        BY <1>1, <1>2, <1>5, <2>1
<1> QED
    BY <1>3, <1>4, <1>5 DEF HeldNext
LEMMA CoolingAfter ==
    ASSUME \A s \in Scopes : cooling'[s] > 0 => /\ s \notin Running' /\ s # probe'.scope
                                                /\ HeldNext(s, cooling'[s])
    PROVE  CoolingHeld'
    BY DEF CoolingHeld, Held, HeldNext

\* A queued scope whose backoff has not passed is popped idle.
LEMMA PoppedInBackoff ==
    ASSUME LoopInv, CoolingHeld, NEW s \in Queued, ~ InBackoff(s)
    PROVE  cooling[s] = 0
<1>1. s \in Scopes
    BY LoopInvParts, QueueFacts
<1>2. cooling[s] \in Nat /\ retry[s].left \in Nat
    BY <1>1, CoolingTypes
<1>3. ASSUME cooling[s] > 0 PROVE FALSE
    <2>1. s \in Range(retries) /\ ~ retry[s].block /\ retry[s].left >= cooling[s]
        BY <1>1, <1>3 DEF CoolingHeld, Held
    <2> QED
        BY <1>2, <1>3, <2>1 DEF InBackoff
<1> QED
    BY <1>2, <1>3

\* Every step keeps a scope back until its backoff has passed.
LEMMA CoolingStep ==
    ASSUME LoopInv, CoolingHeld, [Next]_vars
    PROVE  CoolingHeld'
<1>t. /\ cooling \in [Scopes -> Nat] /\ retry \in [Scopes -> Entries]
      /\ \A s \in Scopes : retry[s].left \in Nat /\ cooling[s] \in Nat
      /\ overflow \in Nat /\ Running \subseteq Scopes
    BY CoolingTypes, LoopInvParts
<1>h. \A s \in Scopes : cooling[s] > 0 =>
          /\ s \notin Running /\ s # probe.scope
          /\ s \in Range(retries) => ~ retry[s].block /\ retry[s].left >= cooling[s]
          /\ s \notin Range(retries) => overflow >= cooling[s] /\ s \notin Queued
    BY DEF CoolingHeld, Held
<1>1. CASE Clears
    BY <1>1 DEF Clears, ClearedFamily, CoolingHeld
<1>2. CASE Tick
    <2>1. /\ UNCHANGED <<retries, ready, running, probe>> /\ overflow' = Passed(overflow)
          /\ \A s \in Scopes : /\ cooling'[s] = Passed(cooling[s])
                               /\ retry'[s].left = Passed(retry[s].left)
                               /\ retry'[s].block = retry[s].block
        BY <1>2, <1>t DEF Tick, queue, workers, Entries
    <2>2. \A m, n \in Nat : /\ m >= n => Passed(m) >= Passed(n)
                            /\ Passed(n) > 0 => n > 0
        BY DEF Passed
    <2>3. Queued' = Queued /\ Running' = Running
        BY <2>1 DEF Queued, Running
    <2>4. ASSUME NEW s \in Scopes, cooling'[s] > 0
          PROVE  s \notin Running' /\ s # probe'.scope /\ HeldNext(s, cooling'[s])
        <3>1. cooling[s] > 0
            BY <1>t, <2>1, <2>2, <2>4
        <3>2. /\ retry[s].left >= cooling[s] => retry'[s].left >= cooling'[s]
              /\ overflow >= cooling[s] => overflow' >= cooling'[s]
            BY <1>t, <2>1, <2>2
        <3> QED
            BY <1>h, <2>1, <2>3, <3>1, <3>2 DEF HeldNext
    <2> QED
        BY <2>4, CoolingAfter
<1>3. ASSUME NEW r \in Scopes, NEW delay \in Delays, Reap(r, delay) PROVE CoolingHeld'
    <2>1. /\ UNCHANGED queue /\ UNCHANGED probe /\ pc = "reap" /\ r \in Running
          /\ cooling' = [cooling EXCEPT ![r] =
                            IF running[r] \in {"failed", "conflict"} THEN delay ELSE 0]
        BY <1>3 DEF Reap, Running, Outcomes
    <2>2. Running' = Running \ {r} /\ Queued' = Queued
        BY <1>3, <2>1, RunningAfter DEF queue, Queued
    <2>3. r \notin Queued /\ probe'.scope = 0
        BY <2>1 DEF LoopInv, PlacesOnce, ProbeHasSlot, NoProbe
    <2>4. \A k \in Scopes \ {r} : cooling[k] > 0 => HeldNext(k, cooling[k])
        <3>1. CASE running[r] = "ok"
            <4>1. Forget(r) /\ UNCHANGED overflow
                BY <1>3, <3>1 DEF Reap, Forget
            <4>2. /\ Range(retries') = Range(retries) \ {r}
                  /\ \A k \in Scopes \ {r} : retry'[k] = retry[k]
                BY <4>1, LoopInvParts, ForgetFacts
            <4> QED
                BY <1>h, <2>2, <4>1, <4>2 DEF HeldNext
        <3>2. CASE running[r] # "ok"
            BY <1>3, <2>1, <3>2, ReapEntry, DeferHolds
        <3> QED
            BY <3>1, <3>2
    <2>5. cooling'[r] > 0 => HeldNext(r, cooling'[r])
        <3> SUFFICES ASSUME cooling'[r] > 0 PROVE HeldNext(r, cooling'[r])
            OBVIOUS
        <3>1. running[r] \in {"failed", "conflict"} /\ cooling'[r] = delay
            BY <1>t, <2>1
        <3>2. PICK entry \in Entries : /\ Apply(Deferred(r, entry))
                                       /\ ~ entry.block /\ entry.left = delay
            BY <1>3, <3>1, ReapEntry
        <3>3. HeldNext(r, entry.left)
            BY <2>1, <2>3, <3>2, DeferHolds
        <3> QED
            BY <3>1, <3>2, <3>3
    <2>6. ASSUME NEW s \in Scopes, cooling'[s] > 0
          PROVE  s \notin Running' /\ s # probe'.scope /\ HeldNext(s, cooling'[s])
        <3>1. s # 0
            BY LoopConstants
        <3>2. CASE s = r
            BY <2>2, <2>3, <2>5, <2>6, <3>1, <3>2
        <3>3. CASE s # r
            <4>1. cooling'[s] = cooling[s]
                BY <1>t, <2>1, <3>3
            <4> QED
                BY <1>h, <2>2, <2>3, <2>4, <2>6, <3>1, <3>3, <4>1
        <3> QED
            BY <3>2, <3>3
    <2> QED
        BY <2>6, CoolingAfter
<1>4. ASSUME NEW rejected \in BOOLEAN, NEW delay \in Delays, ProbeDefers(rejected, delay)
      PROVE  CoolingHeld'
    <2> DEFINE p == probe.scope
               entry == ProbeEntry(p, rejected, delay)
    <2>1. /\ UNCHANGED queue /\ UNCHANGED workers /\ probe' = NoProbe /\ pc = "probe"
          /\ Apply(Deferred(p, entry))
          /\ cooling' = [cooling EXCEPT ![p] = IF entry.block THEN @ ELSE delay]
        BY <1>4 DEF ProbeDefers
    <2>2. p \in Scopes /\ p \notin Queued /\ p \notin Running
        BY <2>1 DEF LoopInv, ProbeHasSlot, PlacesOnce
    <2>3. entry \in Entries /\ (~ entry.block => entry.left = delay)
        BY <2>1, ProbeEntryType
    <2>4. Running' = Running /\ Queued' = Queued
        BY <2>1, RunningAfter DEF queue, Queued
    <2>5. cooling[p] = 0
        BY <1>h, <1>t, <2>2
    <2> HIDE DEF p, entry
    <2>6. /\ \A k \in Scopes \ {p} : cooling[k] > 0 => HeldNext(k, cooling[k])
          /\ ~ entry.block => HeldNext(p, entry.left)
        BY <2>1, <2>2, <2>3, DeferHolds
    <2>7. ASSUME NEW s \in Scopes, cooling'[s] > 0
          PROVE  s \notin Running' /\ s # probe'.scope /\ HeldNext(s, cooling'[s])
        <3>1. s # 0 /\ probe'.scope = 0
            BY <2>1, LoopConstants DEF NoProbe
        <3>2. CASE s = p
            <4>1. ~ entry.block /\ cooling'[p] = delay
                BY <1>t, <2>1, <2>2, <2>5, <2>7, <3>2
            <4> QED
                BY <2>2, <2>3, <2>4, <2>6, <3>1, <3>2, <4>1
        <3>3. CASE s # p
            <4>1. cooling'[s] = cooling[s]
                BY <1>t, <2>1, <3>3
            <4> QED
                BY <1>h, <2>4, <2>6, <2>7, <3>1, <3>3, <4>1
        <3> QED
            BY <3>2, <3>3
    <2> QED
        BY <2>7, CoolingAfter
<1>g. ASSUME UNCHANGED <<cooling, overflow>>,
             \A s \in Scopes : cooling[s] > 0 =>
                 /\ s \notin Running' /\ s # probe'.scope
                 /\ s \in Range(retries') <=> s \in Range(retries)
                 /\ s \in Range(retries') => retry'[s] = retry[s]
                 /\ s \notin Range(retries') => s \notin Queued'
      PROVE  CoolingHeld'
    <2>1. \A s \in Scopes : cooling'[s] > 0 => /\ s \notin Running' /\ s # probe'.scope
                                               /\ HeldNext(s, cooling'[s])
        BY <1>h, <1>g DEF HeldNext
    <2> QED
        BY <2>1, CoolingAfter
<1>5. CASE PopOpen
    <2> DEFINE p == Head(ready)
    <2>1. p \in Scopes /\ p \in Queued /\ Queued' = Queued \ {p}
        BY <1>5, LoopInvParts, PopFacts DEF PopOpen, CanPop
    <2>2. cooling[p] = 0
        BY <1>5, <2>1, PoppedInBackoff DEF PopOpen
    <2>3. UNCHANGED <<cooling, overflow, retries, retry>>
        BY <1>5 DEF PopOpen, backoff
    <2>4. Running' \subseteq Running \cup {p} /\ probe'.scope \in {probe.scope, p}
        BY <1>5, RunningAfter DEF PopOpen
    <2> HIDE DEF p
    <2> QED
        BY <1>g, <1>h, <2>1, <2>2, <2>3, <2>4
<1>6. CASE PopIdle
    <2> DEFINE p == Head(ready)
    <2>1. p \in Scopes /\ p \in Queued /\ Queued' = Queued \ {p}
        BY <1>6, LoopInvParts, PopFacts DEF PopIdle, CanPop
    <2>2. UNCHANGED <<cooling, overflow, probe>> /\ UNCHANGED workers
        BY <1>6 DEF PopIdle, backoff, Forget
    <2>3. Running' = Running
        BY <2>2, RunningAfter
    <2>4. CASE InBackoff(p)
        <3>1. UNCHANGED <<retries, retry>>
            BY <1>6, <2>4 DEF PopIdle, backoff
        <3> HIDE DEF p
        <3> QED
            BY <1>g, <1>h, <2>1, <2>2, <2>3, <3>1
    <2>5. CASE ~ InBackoff(p)
        <3>1. Forget(p)
            BY <1>6, <2>5 DEF PopIdle
        <3> HIDE DEF p
        <3>2. cooling[p] = 0
            BY <2>1, <2>5, PoppedInBackoff
        <3>3. /\ Range(retries') = Range(retries) \ {p}
              /\ \A k \in Scopes \ {p} : retry'[k] = retry[k]
            BY <2>1, <3>1, LoopInvParts, ForgetFacts
        <3> QED
            BY <1>g, <1>h, <2>1, <2>2, <2>3, <3>2, <3>3
    <2> QED
        BY <2>4, <2>5
<1>7. CASE ProbePasses
    <2> DEFINE p == probe.scope
    <2>1. p \in Scopes
        BY <1>7 DEF ProbePasses, LoopInv, ProbeHasSlot
    <2>2. /\ UNCHANGED <<cooling, overflow, retries>> /\ probe' = NoProbe
          /\ UNCHANGED queue
        BY <1>7 DEF ProbePasses
    <2>3. Running' = Running \cup {p} /\ Queued' = Queued
        BY <1>7, <2>2, RunningAfter DEF queue, Queued
    <2>4. \A k \in Scopes \ {p} : retry'[k] = retry[k]
        <3>1. retry' \in {retry, [retry EXCEPT ![p].left = 0, ![p].block = FALSE]}
            BY <1>7 DEF ProbePasses
        <3> QED
            BY <1>t, <2>1, <3>1
    <2>5. NoProbe.scope = 0 /\ 0 \notin Scopes
        BY LoopConstants DEF NoProbe
    <2>6. \A s \in Scopes : cooling[s] > 0 => s # p
        BY <1>h
    <2> HIDE DEF p
    <2> QED
        BY <1>g, <1>h, <2>1, <2>2, <2>3, <2>4, <2>5, <2>6
<1>8. CASE ApplyPage
    <2>1. /\ UNCHANGED <<cooling, overflow, retries, retry, probe>> /\ UNCHANGED workers
          /\ overflow = 0
        BY <1>8 DEF ApplyPage, backoff, LoopInv, PageFits
    <2>2. Running' = Running
        BY <2>1, RunningAfter
    <2>3. \A s \in Scopes : cooling[s] > 0 => s \in Range(retries)
        BY <1>h, <1>t, <2>1
    <2> QED
        BY <1>g, <1>h, <2>1, <2>2, <2>3
<1>9. CASE ActivateRetries
    <2>1. UNCHANGED <<cooling, overflow, retry, probe>> /\ UNCHANGED workers
        BY <1>9 DEF ActivateRetries
    <2>2. Running' = Running
        BY <2>1, RunningAfter
    <2>3. /\ Range(retries') = Range(retries)
          /\ \A s \in Queued' \ Queued : s \in Range(retries)
        BY <1>9, ActivateFacts
    <2> QED
        BY <1>g, <1>h, <2>1, <2>2, <2>3
<1>10. CASE /\ UNCHANGED <<cooling, overflow, retries, retry, probe>>
            /\ UNCHANGED queue
            /\ UNCHANGED workers \/ WorkersEnd
    <2>1. Running' = Running /\ Queued' = Queued
        BY <1>10, RunningAfter DEF queue, Queued
    <2> QED
        BY <1>g, <1>h, <1>10, <2>1
<1>11. EndReap => UNCHANGED <<retries, retry, overflow>>
    BY DEF EndReap
<1>12. UNCHANGED backoff => UNCHANGED <<retries, retry, overflow>>
    BY DEF backoff
<1>13. \/ Clears \/ Tick \/ Reaps \/ ProbesDefer \/ PopOpen \/ PopIdle \/ ProbePasses
       \/ ApplyPage \/ ActivateRetries
       \/ /\ UNCHANGED <<cooling, overflow, retries, retry, probe>>
          /\ UNCHANGED queue
          /\ UNCHANGED workers \/ WorkersEnd
    BY <1>11, <1>12, Moves
       DEF QueueMoves, TableMoves, WorkersMove, ProbeMoves, CoolingMoves, LoopInv
<1> QED
    BY <1>1, <1>2, <1>3, <1>4, <1>5, <1>6, <1>7, <1>8, <1>9, <1>10, <1>13
       DEF Reaps, ProbesDefer

\* A worker is launched only for a scope whose backoff has passed.
LEMMA LaunchAfterBackoff ==
    ASSUME LoopInv, CoolingHeld, [Next]_vars, NEW s \in Scopes,
           running[s] = "none", running'[s] = "active"
    PROVE  cooling[s] = 0
<1>1. s \in Running' /\ s \notin Running
    BY DEF Running
<1>2. CASE PopOpen
    <2>1. s = Head(ready) /\ s \in Queued /\ ~ InBackoff(s)
        BY <1>1, <1>2, RunningAfter, LoopInvParts, PopFacts DEF PopOpen, CanPop
    <2> QED
        BY <2>1, PoppedInBackoff
<1>3. CASE ProbePasses
    <2>1. s = probe.scope
        BY <1>1, <1>3, RunningAfter
    <2>2. cooling[s] \in Nat
        BY CoolingTypes
    <2> QED
        BY <2>1, <2>2 DEF CoolingHeld
<1>4. ~ Clears /\ ~ UNCHANGED workers /\ ~ WorkersEnd /\ ~ Reaps
    BY <1>1, RunningAfter DEF Reaps
<1> QED
    BY <1>2, <1>3, <1>4, Moves DEF WorkersMove, LoopInv

\* A scope that failed is not launched again before its backoff has passed,
\* even when the full retry table dropped it (BackoffHolds).
THEOREM BackoffKept == Spec => BackoffHolds
<1>1. Init => CoolingHeld
    BY DEF Init, CoolingHeld
<1>2. LoopInv /\ CoolingHeld /\ [Next]_vars => CoolingHeld'
    BY CoolingStep
<1>3. LoopInv /\ CoolingHeld /\ [Next]_vars
        => [\A s \in Scopes :
               running[s] = "none" /\ running'[s] = "active" => cooling[s] = 0]_vars
    BY LaunchAfterBackoff
<1> QED
    BY <1>1, <1>2, <1>3, LoopInvariant, PTL DEF Spec, BackoffHolds
--------------------------------------------------------------------------------
(* The walk over the open requests.                                        *)

\* A scope the loop remembers: queued, running, in the retry table or probed.
InMemory(s) == s \in Queued \cup Running \cup Range(retries) \/ probe.scope = s

\* A scope the discovery that is owed will read: in a walk after this one, in
\* the rest of this walk, or, while a page is applied, in the page or behind a
\* full one.
InWalk(s) ==
    \/ noticed
    \/ pc # "apply" /\ s > requestedAfter
    \/ pc = "apply" /\ s \in Range(page.rows)
    \/ pc = "apply" /\ Len(page.rows) >= page.limit /\ s > page.rows[Len(page.rows)]

\* Every open request is remembered, announced, or ahead in the walk.
WalkReachesOpen ==
    \A s \in Scopes : Open(s) => InMemory(s) \/ wakeOwed \/ (pending /\ InWalk(s))

\* The binding has no work_block probe, or the retry table has room for every
\* scope.
RoomyTable == CanBlock = {} \/ N <= RetryLimit

\* The loop forgets a scope with an open request only by reaping its worker
\* (which notices) or by clearing everything (which restarts the walk).
LEMMA MemoryKept ==
    ASSUME LoopInv, RoomyTable, [Next]_vars, ~ Clears, ~ Reaps,
           NEW s \in Scopes, Open(s), InMemory(s)
    PROVE  InMemory(s)'
<1>1. CASE PopOpen
    <2>1. Queued' = Queued \ {Head(ready)} /\ UNCHANGED retries
        BY <1>1, LoopInvParts, PopFacts DEF PopOpen, CanPop, backoff
    <2>2. probe.scope # s
        BY <1>1, LoopConstants DEF PopOpen, CanPop, LoopInv, ProbeHasSlot, NoProbe
    <2>3. CASE CanBlock = {}
        BY <1>1, <2>1, <2>2, <2>3, RunningAfter DEF InMemory
    <2>4. CASE CanBlock # {}
        <3>1. probe'.scope = Head(ready)
            BY <1>1, <2>4 DEF PopOpen
        <3> QED
            BY <1>1, <2>1, <2>2, <2>4, <3>1, RunningAfter DEF InMemory
    <2> QED
        BY <2>3, <2>4
<1>2. CASE PopIdle
    <2> DEFINE p == Head(ready)
    <2>1. p \in Scopes /\ Queued' = Queued \ {p} /\ UNCHANGED probe /\ UNCHANGED workers
        BY <1>2, LoopInvParts, PopFacts DEF PopIdle, CanPop
    <2>2. Running' = Running
        BY <2>1, RunningAfter
    <2>3. CASE InBackoff(p)
        <3>1. UNCHANGED retries /\ p \in Range(retries)
            BY <1>2, <2>3 DEF PopIdle, backoff, InBackoff
        <3> HIDE DEF p
        <3> QED
            BY <2>1, <2>2, <3>1 DEF InMemory
    <2>4. CASE ~ InBackoff(p)
        <3>1. Forget(p) /\ ~ Open(p)
            BY <1>2, <2>4 DEF PopIdle
        <3> HIDE DEF p
        <3>2. Range(retries') = Range(retries) \ {p} /\ s # p
            BY <2>1, <3>1, LoopInvParts, ForgetFacts
        <3> QED
            BY <2>1, <2>2, <3>2 DEF InMemory
    <2> QED
        BY <2>3, <2>4
<1>3. CASE ProbePasses
    <2>1. UNCHANGED retries /\ UNCHANGED queue /\ Running' = Running \cup {probe.scope}
        BY <1>3, RunningAfter DEF ProbePasses
    <2> QED
        BY <2>1 DEF queue, Queued, InMemory
<1>4. CASE ProbesDefer
    <2>1. PICK rejected \in BOOLEAN, d \in Delays : ProbeDefers(rejected, d)
        BY <1>4 DEF ProbesDefer
    <2> DEFINE p == probe.scope
               entry == ProbeEntry(p, rejected, d)
    <2>2. /\ pc = "probe" /\ UNCHANGED queue /\ UNCHANGED workers
          /\ retries' = Deferred(p, entry).retries
        BY <2>1 DEF ProbeDefers, Apply
    <2>3. p \in Scopes /\ entry \in Entries /\ CanBlock # {}
        BY <2>2, ProbeEntryType DEF LoopInv, ProbeHasSlot
    <2>4. N <= RetryLimit
        BY <2>3 DEF RoomyTable
    <2> HIDE DEF p, entry
    <2>5. Range(retries') = Range(retries) \cup {p}
        BY <2>2, <2>3, <2>4, LoopInvParts, DeferredFacts
    <2>6. Queued' = Queued /\ Running' = Running
        BY <2>2, RunningAfter DEF queue, Queued
    <2> QED
        BY <2>5, <2>6 DEF InMemory, p
<1>5. CASE ApplyPage
    <2>1. Queued \subseteq Queued' /\ UNCHANGED <<retries, probe>> /\ UNCHANGED workers
        BY <1>5, ApplyPageFacts DEF ApplyPage, backoff
    <2> QED
        BY <2>1, RunningAfter DEF InMemory
<1>6. CASE ActivateRetries
    <2>1. /\ Queued \subseteq Queued' /\ Range(retries') = Range(retries)
          /\ UNCHANGED probe /\ UNCHANGED workers
        BY <1>6, ActivateFacts DEF ActivateRetries
    <2> QED
        BY <2>1, RunningAfter DEF InMemory
<1>7. CASE UNCHANGED <<retries, probe>> /\ UNCHANGED queue /\ (UNCHANGED workers \/ WorkersEnd)
    <2>1. Queued' = Queued /\ Running' = Running
        BY <1>7, RunningAfter DEF queue, Queued
    <2> QED
        BY <1>7, <2>1 DEF InMemory
<1>8. EndReap \/ Tick \/ UNCHANGED backoff => UNCHANGED retries
    BY DEF EndReap, Tick, backoff
<1> QED
    BY <1>1, <1>2, <1>3, <1>4, <1>5, <1>6, <1>7, <1>8, Moves
       DEF QueueMoves, TableMoves, WorkersMove, ProbeMoves, LoopInv

\* A scope ahead in the walk stays ahead until a page that holds it is applied.
LEMMA WalkKept ==
    ASSUME LoopInv, [Next]_vars, ~ Clears, ~ Reaps, ~ Wake,
           NEW s \in Scopes, Open(s), pending, InWalk(s)
    PROVE  InMemory(s)' \/ (pending /\ InWalk(s))'
<1>t. s \in Nat /\ requestedAfter \in Nat
    BY LoopConstants DEF LoopInv, TypeOK
<1>1. CASE ReadPage
    <2>1. /\ UNCHANGED <<pending, requestedAfter>> /\ pc' = "apply" /\ pc # "apply"
          /\ noticed' = (noticed /\ requestedAfter # 0)
        BY <1>1 DEF ReadPage
    <2>2. noticed' \/ s > requestedAfter
        <3>1. CASE noticed /\ requestedAfter # 0
            BY <2>1, <3>1
        <3>2. CASE requestedAfter = 0
            BY <1>t, <3>2, LoopConstants
        <3>3. CASE ~ noticed
            BY <2>1, <3>3 DEF InWalk
        <3> QED
            BY <3>1, <3>2, <3>3
    <2>3. s > requestedAfter => \/ s \in Range(page'.rows)
                                \/ /\ Len(page'.rows) >= page'.limit
                                   /\ s > page'.rows[Len(page'.rows)]
        BY <1>1, ReadPageFacts
    <2>4. pending' /\ InWalk(s)'
        BY <2>1, <2>2, <2>3 DEF InWalk
    <2> QED
        BY <2>4
<1>2. CASE DiscoveryFails
    <2>1. /\ UNCHANGED <<pending, noticed, requestedAfter>> /\ pc = "apply" /\ pc' # "apply"
        BY <1>2 DEF DiscoveryFails, wakeup
    <2>2. /\ page.rows \in Seq(Scopes) /\ page.limit \in 1..FreshCapacity
          /\ \A k \in Range(page.rows) : k > requestedAfter
        BY <2>1 DEF LoopInv, TypeOK, PageFits
    <2>3. ASSUME ~ noticed PROVE s > requestedAfter
        <3>1. CASE s \in Range(page.rows)
            BY <2>2, <3>1
        <3>2. CASE Len(page.rows) >= page.limit /\ s > page.rows[Len(page.rows)]
            <4>1. Len(page.rows) \in Nat /\ DOMAIN page.rows = 1..Len(page.rows)
                BY <2>2, LenProperties
            <4>2. FreshCapacity \in Int
                BY LoopInvParts, QueueFacts
            <4>3. page.limit \in Int /\ page.limit >= 1
                BY <2>2, <4>2
            <4>4. Len(page.rows) \in 1..Len(page.rows)
                BY <3>2, <4>1, <4>3
            <4>5. page.rows[Len(page.rows)] \in Range(page.rows)
                BY <4>1, <4>4 DEF Range
            <4>6. page.rows[Len(page.rows)] \in Nat
                <5>1. page.rows[Len(page.rows)] \in Scopes
                    BY <2>2, <4>4, ElementOfSeq
                <5> QED
                    BY <5>1, LoopConstants
            <4> QED
                BY <1>t, <2>2, <3>2, <4>5, <4>6
        <3> QED
            BY <2>1, <2>3, <3>1, <3>2 DEF InWalk
    <2>4. pending' /\ InWalk(s)'
        BY <2>1, <2>3 DEF InWalk
    <2> QED
        BY <2>4
<1>3. CASE ApplyPage
    <2>1. /\ pc = "apply" /\ pc' # "apply" /\ UNCHANGED noticed
          /\ requestedAfter' = NextAfter(page.rows, Len(page.rows) < page.limit)
          /\ pending' = (noticed \/ ~ (Len(page.rows) < page.limit))
          /\ UNCHANGED retries /\ UNCHANGED workers
        BY <1>3 DEF ApplyPage, DiscoveryOwed, backoff
    <2>2. CASE noticed
        BY <2>1, <2>2 DEF InWalk
    <2>3. CASE s \in Range(page.rows)
        <3>1. s \in Queued' \cup Running \cup Range(retries)
            BY <1>3, <2>3, ApplyPageFacts
        <3> QED
            BY <2>1, <3>1, RunningAfter DEF InMemory
    <2>4. CASE Len(page.rows) >= page.limit /\ s > page.rows[Len(page.rows)]
        <3>1. Len(page.rows) \in Nat /\ page.limit \in Nat
            BY LenProperties DEF LoopInv, TypeOK
        <3>2. ~ (Len(page.rows) < page.limit)
            BY <2>4, <3>1
        <3>3. pending' /\ requestedAfter' = page.rows[Len(page.rows)]
            BY <2>1, <3>2 DEF NextAfter
        <3>4. pending' /\ InWalk(s)'
            BY <2>1, <2>4, <3>3 DEF InWalk
        <3> QED
            BY <3>4
    <2> QED
        BY <2>1, <2>2, <2>3, <2>4 DEF InWalk
<1>4. CASE /\ UNCHANGED <<requestedAfter, page>> /\ (pc = "apply" <=> pc' = "apply")
           /\ ~ ReadPage /\ ~ ApplyPage
    <2>1. pending' /\ (noticed => noticed')
        <3>1. CASE UNCHANGED wakeup
            BY <3>1 DEF wakeup
        <3>2. CASE EndReap
            BY <3>2 DEF EndReap
        <3>3. CASE ProbesDefer
            BY <3>3 DEF ProbesDefer, ProbeDefers
        <3> QED
            BY <1>4, <3>1, <3>2, <3>3, Moves DEF NoticeMoves, LoopInv
    <2>2. InWalk(s)'
        BY <1>4, <2>1 DEF InWalk
    <2> QED
        BY <2>1, <2>2
<1> QED
    BY <1>1, <1>2, <1>3, <1>4, Moves DEF WalkMoves, LoopInv

LEMMA WalkStep ==
    ASSUME LoopInv, WalkReachesOpen, RoomyTable, [Next]_vars
    PROVE  WalkReachesOpen'
<1> SUFFICES ASSUME NEW s \in Scopes, Open(s)'
             PROVE  InMemory(s)' \/ wakeOwed' \/ (pending /\ InWalk(s))'
    BY DEF WalkReachesOpen
<1>1. CASE Requests
    BY <1>1 DEF Requests, RequestScope
<1>2. CASE Clears
    <2>1. pending' /\ requestedAfter' = 0 /\ pc' # "apply"
        BY <1>2 DEF Clears, ClearedFamily
    <2>2. s > 0
        BY LoopConstants
    <2>3. InWalk(s)'
        BY <2>1, <2>2 DEF InWalk
    <2> QED
        BY <2>1, <2>3
<1>3. CASE Wake \/ Reaps
    <2>1. pending' /\ noticed'
        BY <1>3 DEF Wake, Reaps, Reap
    <2> QED
        BY <2>1 DEF InWalk
<1>4. CASE ~ Requests /\ ~ Clears /\ ~ Wake /\ ~ Reaps
    <2>1. Open(s)
        <3>1. requested' = requested /\ handled[s] <= handled'[s] /\ handled' \in [Scopes -> Nat]
            BY <1>4, RowsStep
        <3>2. requested[s] \in Nat /\ handled[s] \in Nat
            BY DEF LoopInv, TypeOK
        <3> QED
            BY <3>1, <3>2 DEF Open
    <2>2. wakeOwed' = wakeOwed
        BY <1>4, Moves DEF WakeMoves, LoopInv
    <2>3. InMemory(s) \/ wakeOwed \/ (pending /\ InWalk(s))
        BY <2>1 DEF WalkReachesOpen
    <2> QED
        BY <1>4, <2>1, <2>2, <2>3, MemoryKept, WalkKept
<1> QED
    BY <1>1, <1>2, <1>3, <1>4

\* Something in memory leads to every open request, however requests, pages,
\* failed discoveries, worker exits and restarts interleave, as long as the
\* binding has no work_block probe or the retry table has room for every scope
\* (NoForgottenRequest).  Without that condition the run loop_forgotten refutes
\* it: an eviction by the probe's _defer() notifies nobody.
THEOREM NothingForgotten ==
    ASSUME RoomyTable
    PROVE  Spec => []NoForgottenRequest
<1>1. Init => WalkReachesOpen
    <2> SUFFICES ASSUME Init, NEW s \in Scopes
                 PROVE  pending /\ InWalk(s)
        BY DEF WalkReachesOpen
    <2>1. s > 0
        BY LoopConstants
    <2> QED
        BY <2>1 DEF Init, InWalk
<1>2. LoopInv /\ WalkReachesOpen /\ [Next]_vars => WalkReachesOpen'
    BY WalkStep
<1>3. WalkReachesOpen => NoForgottenRequest
    BY DEF WalkReachesOpen, NoForgottenRequest, Led, InMemory
<1> QED
    BY <1>1, <1>2, <1>3, LoopInvariant, PTL DEF Spec
================================================================================
