------------------------------ MODULE NumberLemmas -----------------------------
(***************************************************************************)
(* Induction on the natural numbers, for sets of numbers: what the         *)
(* proofs of several modules rest on where they count.                     *)
(***************************************************************************)
EXTENDS Naturals, FiniteSetTheorems, WellFoundedInduction, TLAPS

\* Every set of numbers that is not empty has a least one: by the
\* well-foundedness of inclusion, for the intervals 1..n.
LEMMA LeastNumber ==
    ASSUME NEW T \in SUBSET Nat, T # {} PROVE \E x \in T : \A y \in T : x <= y
<1> DEFINE S == {1..n : n \in T}
<1>1. S \subseteq FiniteSubsetsOf(Nat)
    <2> SUFFICES ASSUME NEW n \in T PROVE 1..n \in FiniteSubsetsOf(Nat)
        OBVIOUS
    <2>1. n \in Nat /\ 1..n \in SUBSET Nat
        OBVIOUS
    <2>2. IsFiniteSet(1..n)
        BY <2>1, FS_Interval
    <2>3. QED
        BY <2>1, <2>2 DEF FiniteSubsetsOf
<1>2. PICK X \in S : \A Y \in S : ~(<<Y, X>> \in StrictSubsetOrdering(Nat))
    <2>1. S # {}
        OBVIOUS
    <2>2. IsWellFoundedOn(StrictSubsetOrdering(Nat), FiniteSubsetsOf(Nat))
        BY FS_StrictSubsetOrderingWellFounded
    <2> HIDE DEF S
    <2>3. QED
        BY <1>1, <2>1, <2>2, WFMin
<1>3. PICK x \in T : X = 1..x
    OBVIOUS
<1>4. ASSUME NEW y \in T PROVE x <= y
    <2> SUFFICES ASSUME y < x PROVE FALSE
        OBVIOUS
    <2>1. 1..y \in S /\ ~(<<1..y, 1..x>> \in StrictSubsetOrdering(Nat))
        BY <1>2, <1>3
    <2>2. 1..y \subseteq 1..x /\ x \in 1..x /\ x \notin 1..y
        OBVIOUS
    <2>3. QED
        BY <2>1, <2>2 DEF StrictSubsetOrdering
<1>5. QED
    BY <1>4

\* What holds of 0 and passes from each number to the next holds up to n.
LEMMA NumbersUpTo ==
    ASSUME NEW n \in Nat, NEW T, 0 \in T,
           \A i \in 1..n : i - 1 \in T => i \in T
    PROVE  \A i \in 0..n : i \in T
<1> SUFFICES ASSUME (0..n) \ T # {} PROVE FALSE
    OBVIOUS
<1>1. PICK x \in (0..n) \ T : \A y \in (0..n) \ T : x <= y
    <2> DEFINE missing == (0..n) \ T
    <2>1. missing \in SUBSET Nat /\ missing # {}
        OBVIOUS
    <2> HIDE DEF missing
    <2>2. \E x \in missing : \A y \in missing : x <= y
        BY <2>1, LeastNumber
    <2>3. QED
        BY <2>2 DEF missing
<1>2. x \in 1..n
    BY <1>1
<1>3. x - 1 \in 0..n /\ x - 1 < x
    BY <1>2
<1>4. x - 1 \in T
    BY <1>1, <1>3
<1>5. QED
    BY <1>1, <1>2, <1>4

\* Steps that lead from each set of states to the next can be taken one after another,
\* so that a function which is defined by recursion on the steps exists.
LEMMA RunExists ==
    ASSUME NEW n \in Nat, NEW G, DOMAIN G = 0..n, NEW F, DOMAIN F = 1..n, NEW start \in G[0],
           \A i \in 1..n : \A x \in G[i - 1] : F[i][x] \in G[i]
    PROVE  \E run : /\ run = [i \in 0..n |-> run[i]] /\ run[0] = start
                    /\ \A i \in 1..n : run[i] = F[i][run[i - 1]]
                    /\ \A i \in 0..n : run[i] \in G[i]
<1> DEFINE Run(m, r) == /\ r = [i \in 0..m |-> IF i = 0 THEN start ELSE F[i][r[i - 1]]]
                        /\ \A i \in 0..m : r[i] \in G[i]
           T == {m \in 0..n : \E r : Run(m, r)}
<1>1. 0 \in T
    <2> DEFINE r == [i \in 0..0 |-> start]
    <2>1. \A i \in 0..0 : i = 0 /\ r[i] = start
        OBVIOUS
    <2>2. r = [i \in 0..0 |-> IF i = 0 THEN start ELSE F[i][r[i - 1]]]
        OBVIOUS
    <2> HIDE DEF r
    <2>3. Run(0, r)
        BY <2>1, <2>2
    <2>4. QED
        BY <2>3
<1>2. ASSUME NEW m \in 1..n, m - 1 \in T PROVE m \in T
    <2>1. PICK r : Run(m - 1, r)
        BY <1>2
    <2> DEFINE s == [i \in 0..m |-> IF i < m THEN r[i] ELSE F[m][r[m - 1]]]
    <2>2. \A i \in 0..m : s[i] = IF i < m THEN r[i] ELSE F[m][r[m - 1]]
        OBVIOUS
    <2>3. s = [i \in 0..m |-> s[i]]
        OBVIOUS
    <2> HIDE DEF s
    <2>4. ASSUME NEW i \in 0..m
          PROVE  s[i] = (IF i = 0 THEN start ELSE F[i][s[i - 1]]) /\ s[i] \in G[i]
        <3>1. CASE i < m
            <4>1. i \in 0..(m - 1) /\ (i # 0 => i - 1 \in 0..(m - 1))
                BY <3>1
            <4>2. r[i] = (IF i = 0 THEN start ELSE F[i][r[i - 1]]) /\ r[i] \in G[i]
                BY <2>1, <4>1
            <4>3. s[i] = r[i] /\ (i # 0 => s[i - 1] = r[i - 1])
                BY <2>2, <3>1, <4>1
            <4>4. QED
                BY <4>2, <4>3
        <3>2. CASE i = m
            <4>1. m - 1 \in 0..(m - 1) /\ m - 1 \in 0..m /\ m - 1 < m /\ m # 0
                OBVIOUS
            <4>2. s[m] = F[m][r[m - 1]] /\ s[m - 1] = r[m - 1] /\ r[m - 1] \in G[m - 1]
                <5>1. m \in 0..m
                    OBVIOUS
                <5>2. s[m] = F[m][r[m - 1]] /\ s[m - 1] = r[m - 1]
                    BY <2>2, <4>1, <5>1
                <5>3. r[m - 1] \in G[m - 1]
                    BY <2>1, <4>1
                <5>4. QED
                    BY <5>2, <5>3
            <4>3. F[m][r[m - 1]] \in G[m]
                BY <4>2
            <4>4. QED
                BY <3>2, <4>1, <4>2, <4>3
        <3>3. QED
            BY <3>1, <3>2
    <2>5. s = [i \in 0..m |-> IF i = 0 THEN start ELSE F[i][s[i - 1]]]
        BY <2>3, <2>4
    <2>6. QED
        BY <2>4, <2>5
<1>3. n \in T
    <2> HIDE DEF T
    <2>1. \A i \in 0..n : i \in T
        BY <1>1, <1>2, NumbersUpTo
    <2>2. QED
        BY <2>1
<1>4. PICK run : Run(n, run)
    BY <1>3
<1>5. run = [i \in 0..n |-> run[i]] /\ run[0] = start /\ \A i \in 1..n : run[i] = F[i][run[i - 1]]
    <2> DEFINE next(i) == IF i = 0 THEN start ELSE F[i][run[i - 1]]
    <2>1. run = [i \in 0..n |-> next(i)]
        BY <1>4
    <2>2. DOMAIN run = 0..n /\ \A i \in 0..n : run[i] = next(i)
        BY <2>1
    <2>3. QED
        BY <2>1, <2>2
<1>6. QED
    BY <1>4, <1>5

\* What holds of the empty set, and of a set as soon as it holds without some element
\* of it, holds of every finite set.
LEMMA SubsetsByOne ==
    ASSUME NEW S, IsFiniteSet(S), NEW T, {} \in T,
           \A s \in SUBSET S : s # {} => \E x \in s : s \ {x} \in T => s \in T
    PROVE  \A s \in SUBSET S : s \in T
<1> DEFINE missing == {s \in SUBSET S : s \notin T}
           sizes   == {Cardinality(s) : s \in missing}
<1>1. \A s \in SUBSET S : IsFiniteSet(s) /\ Cardinality(s) \in Nat
    BY FS_Subset, FS_CardinalityType
<1> SUFFICES ASSUME missing # {} PROVE FALSE
    OBVIOUS
<1>2. sizes \in SUBSET Nat /\ sizes # {}
    BY <1>1
<1> HIDE DEF sizes
<1>3. PICK n \in sizes : \A m \in sizes : n <= m
    BY <1>2, LeastNumber
<1>4. PICK s \in missing : Cardinality(s) = n
    BY DEF sizes
<1>5. PICK x \in s : s \ {x} \in T => s \in T
    BY <1>4
<1>6. s \ {x} \in missing
    BY <1>5
<1>7. Cardinality(s \ {x}) = Cardinality(s) - 1
    BY <1>1, <1>4, FS_RemoveElement
<1>8. Cardinality(s \ {x}) \in sizes
    BY <1>6 DEF sizes
<1>9. QED
    BY <1>1, <1>3, <1>4, <1>6, <1>7, <1>8

\* Steps F that lead, taking one element pick[s] of a set s at a time, from what holds
\* without it, G[s \ {pick[s]}], to what holds with it; and a run of them.
FoldSteps(S, G, F, pick, base) ==
    /\ base \in G[{}]
    /\ \A s \in SUBSET S : s # {} => pick[s] \in s
    /\ \A s \in SUBSET S : s # {} => \A x \in G[s \ {pick[s]}] : F[pick[s]][x] \in G[s]
IsFold(run, S, G, F, pick, base) ==
    /\ run = [s \in SUBSET S |-> run[s]]
    /\ run[{}] = base
    /\ \A s \in SUBSET S : s # {} => run[s] = F[pick[s]][run[s \ {pick[s]}]]
    /\ \A s \in SUBSET S : run[s] \in G[s]

\* So a function that is defined by recursion on the subsets of a finite set exists.
LEMMA FoldExists ==
    ASSUME NEW S, IsFiniteSet(S), NEW G, NEW F, NEW pick, NEW base, FoldSteps(S, G, F, pick, base)
    PROVE  \E run : IsFold(run, S, G, F, pick, base)
<1> DEFINE n == Cardinality(S)
           Small(m) == {t \in SUBSET S : Cardinality(t) <= m}
           Next(r, t) == IF t = {} THEN base ELSE F[pick[t]][r[t \ {pick[t]}]]
           Run(m, r) == /\ DOMAIN r = Small(m) /\ r = [t \in Small(m) |-> r[t]]
                        /\ \A t \in Small(m) : r[t] = Next(r, t) /\ r[t] \in G[t]
           T == {m \in 0..n : \E r : Run(m, r)}
<1> USE DEF FoldSteps
<1>1. \A s \in SUBSET S : IsFiniteSet(s) /\ Cardinality(s) \in 0..n
    BY FS_Subset, FS_CardinalityType
<1>2. n \in Nat /\ Cardinality({}) = 0 /\ \A t \in SUBSET S : Cardinality(t) = 0 => t = {}
    BY <1>1, FS_CardinalityType, FS_EmptySet
<1>3. ASSUME NEW t \in SUBSET S, t # {}
      PROVE  t \ {pick[t]} \in SUBSET S /\ Cardinality(t \ {pick[t]}) = Cardinality(t) - 1
    <2>1. pick[t] \in t /\ IsFiniteSet(t)
        BY <1>1, <1>3
    <2>2. QED
        BY <2>1, FS_RemoveElement
<1>4. 0 \in T
    <2> DEFINE r == [t \in Small(0) |-> base]
    <2>1. \A t \in Small(0) : t = {}
        BY <1>1, <1>2
    <2>2. DOMAIN r = Small(0) /\ \A t \in Small(0) : r[t] = base
        OBVIOUS
    <2>3. r = [t \in Small(0) |-> r[t]]
        OBVIOUS
    <2> HIDE DEF r
    <2>4. Run(0, r)
        BY <2>1, <2>2, <2>3
    <2> HIDE DEF Run
    <2>5. 0 \in 0..n
        BY <1>2
    <2>6. QED
        BY <2>4, <2>5
<1>5. ASSUME NEW m \in 1..n, m - 1 \in T PROVE m \in T
    <2>1. PICK r : Run(m - 1, r)
        BY <1>5
    <2> DEFINE q == [t \in Small(m) |-> IF t \in Small(m - 1) THEN r[t] ELSE Next(r, t)]
    <2>2. DOMAIN q = Small(m) /\ q = [t \in Small(m) |-> q[t]]
        OBVIOUS
    <2>3. \A t \in Small(m) : q[t] = IF t \in Small(m - 1) THEN r[t] ELSE Next(r, t)
        OBVIOUS
    <2> HIDE DEF q
    <2>4. ASSUME NEW t \in Small(m) PROVE q[t] = Next(q, t) /\ q[t] \in G[t]
        <3>1. CASE t = {}
            <4>1. t \in Small(m - 1)
                BY <1>2, <3>1
            <4>2. QED
                BY <2>1, <2>3, <3>1, <4>1
        <3>2. CASE t # {}
            <4> DEFINE u == t \ {pick[t]}
            <4>1. u \in Small(m - 1) /\ u \in Small(m)
                BY <1>1, <1>2, <1>3, <3>2
            <4>2. q[u] = r[u] /\ r[u] \in G[u]
                BY <2>1, <2>3, <4>1
            <4>3. q[t] = Next(r, t)
                BY <2>1, <2>3
            <4>4. F[pick[t]][r[u]] \in G[t]
                BY <3>2, <4>2
            <4>5. QED
                BY <3>2, <4>2, <4>3, <4>4
        <3>3. QED
            BY <3>1, <3>2
    <2>5. Run(m, q)
        BY <2>2, <2>4
    <2> HIDE DEF Run
    <2>6. m \in 0..n
        BY <1>2
    <2>7. QED
        BY <2>5, <2>6
<1>6. n \in T
    <2> HIDE DEF T
    <2>1. \A i \in 0..n : i \in T
        BY <1>2, <1>4, <1>5, NumbersUpTo
    <2>2. QED
        BY <1>2, <2>1
<1>7. PICK run : Run(n, run)
    BY <1>6
<1>8. Small(n) = SUBSET S
    BY <1>1
<1>9. run = [s \in SUBSET S |-> run[s]]
    BY <1>7, <1>8
<1>10. \A s \in SUBSET S : run[s] = Next(run, s) /\ run[s] \in G[s]
    BY <1>7, <1>8
<1>11. QED
    BY <1>9, <1>10 DEF IsFold
================================================================================
