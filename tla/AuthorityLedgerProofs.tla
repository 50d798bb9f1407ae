------------------------- MODULE AuthorityLedgerProofs -------------------------
(***************************************************************************)
(* Proofs about AuthorityLedger: the charge of a set of owners, which is a *)
(* fold, adds up, and every move of leases keeps the ledger balanced.      *)
(* The fold is unfolded by the smallest counterexample: the recursion it   *)
(* stands for has a solution on the sets of at most n owners for every n,  *)
(* because a least n for which it has none cannot exist.                   *)
(***************************************************************************)
EXTENDS AuthorityLedger, FiniteSetTheorems, WellFoundedInduction, TLAPS

Pick(s) == CHOOSE x \in s : TRUE

\* One step of the recursion of BytesOf.
SumStep(g, s) == IF s = {} THEN 0 ELSE Bytes[Pick(s)] + g[s \ {Pick(s)}]

Sums(g, D) == g = [s \in SUBSET D |-> SumStep(g, s)]

\* The fold that sums the bytes, unfolded to the recursion it chooses.
LEMMA BytesOfIsSum ==
    ASSUME NEW S
    PROVE  BytesOf(S) = (CHOOSE g : Sums(g, S))[S]
BY DEF BytesOf, MapThenSumSet, MapThenFoldSet, Sums, SumStep, Pick

\* The fold picks an element of the set it is at.
LEMMA Picked == ASSUME NEW s, s # {} PROVE Pick(s) \in s
BY DEF Pick

\* Every set of owners is finite.
LEMMA OwnersFinite ==
    ASSUME NEW S \in SUBSET Owners
    PROVE  IsFiniteSet(S) /\ Cardinality(S) \in Nat
<1>1. IsFiniteSet(S) BY LedgerAssumption, FS_Subset
<1> QED BY <1>1, FS_CardinalityType

\* A set of naturals has a least element.
LEMMA Least ==
    ASSUME NEW T, T \subseteq Nat, T # {}
    PROVE  \E x \in T : \A y \in T : x <= y
<1>1. \A x, y \in Nat : y < x => <<y, x>> \in OpToRel(<, Nat) BY DEF OpToRel
<1>2. PICK x \in T : \A y \in T : ~(<<y, x>> \in OpToRel(<, Nat))
      BY NatLessThanWellFounded, WFMin
<1>3. \A y \in T : ~(y < x)
  <2> TAKE y \in T
  <2>1. x \in Nat /\ y \in Nat OBVIOUS
  <2>2. ~(<<y, x>> \in OpToRel(<, Nat)) BY <1>2
  <2> QED BY <1>1, <2>1, <2>2, Zenon
<1>4. \A y \in T : x <= y
  <2> TAKE y \in T
  <2>1. x \in Nat /\ y \in Nat OBVIOUS
  <2> QED BY <1>3, <2>1
<1> QED BY <1>2, <1>4

\* Induction on finite sets, by the smallest counterexample.
LEMMA Smallest ==
    ASSUME NEW F, F \subseteq SUBSET Owners, F # {}
    PROVE  \E m \in F : \A s \in F : Cardinality(m) <= Cardinality(s)
<1> DEFINE T == {Cardinality(s) : s \in F}
<1>1. T \subseteq Nat /\ T # {} BY OwnersFinite
<1> HIDE DEF T
<1>2. PICK n \in T : \A k \in T : n <= k BY <1>1, Least
<1> QED BY <1>2 DEF T

\* A set of owners without one of them has one less.
LEMMA Smaller ==
    ASSUME NEW s \in SUBSET Owners, NEW x \in s
    PROVE  /\ s \ {x} \in SUBSET Owners
           /\ Cardinality(s \ {x}) = Cardinality(s) - 1
           /\ Cardinality(s) \in Nat /\ Cardinality(s \ {x}) \in Nat
<1>1. IsFiniteSet(s) /\ Cardinality(s) \in Nat BY OwnersFinite
<1>2. Cardinality(s \ {x}) = Cardinality(s) - 1 BY <1>1, FS_RemoveElement
<1>3. s \ {x} \in SUBSET Owners OBVIOUS
<1> QED BY <1>1, <1>2, <1>3, OwnersFinite

\* The recursion has a solution on the sets of at most n elements.
Upto(D, n) == {s \in SUBSET D : Cardinality(s) <= n}
Solvable(D, n) == \E g \in [Upto(D, n) -> Nat] : \A s \in Upto(D, n) : g[s] = SumStep(g, s)

\* By the least level that had none: each level extends the one below.
LEMMA EveryLevelSolvable ==
    ASSUME NEW D \in SUBSET Owners, NEW n \in Nat
    PROVE  Solvable(D, n)
<1> DEFINE T == {k \in Nat : ~Solvable(D, k)}
<1> SUFFICES ASSUME T # {} PROVE FALSE OBVIOUS
<1>1. PICK k \in T : \A j \in T : k <= j BY Least
<1>2. CASE k = 0
  <2>1. \A s \in Upto(D, 0) : s = {}
    <3> TAKE s \in Upto(D, 0)
    <3>1. IsFiniteSet(s) /\ Cardinality(s) = 0 BY OwnersFinite DEF Upto
    <3> QED BY <3>1, FS_EmptySet
  <2> DEFINE g == [s \in Upto(D, 0) |-> 0]
  <2>2. g \in [Upto(D, 0) -> Nat] OBVIOUS
  <2>3. \A s \in Upto(D, 0) : g[s] = SumStep(g, s) BY <2>1 DEF SumStep
  <2>4. Solvable(D, 0) BY <2>2, <2>3 DEF Solvable
  <2> QED BY <1>1, <1>2, <2>4
<1>3. CASE k # 0
  <2>1. k - 1 \in Nat /\ k \in Nat BY <1>3
  <2>2. Solvable(D, k - 1)
    <3> SUFFICES ASSUME ~Solvable(D, k - 1) PROVE FALSE OBVIOUS
    <3>1. k <= k - 1 BY <1>1, <2>1
    <3> QED BY <2>1, <3>1
  <2>3. PICK g \in [Upto(D, k - 1) -> Nat] : \A s \in Upto(D, k - 1) : g[s] = SumStep(g, s)
    BY <2>2 DEF Solvable
  <2> DEFINE h == [s \in Upto(D, k) |-> SumStep(g, s)]
  <2>4. ASSUME NEW s \in Upto(D, k), s # {}
        PROVE  /\ s \ {Pick(s)} \in Upto(D, k - 1) /\ s \ {Pick(s)} \in Upto(D, k)
               /\ Bytes[Pick(s)] \in Nat
    <3>1. s \in SUBSET Owners /\ s \in SUBSET D /\ Cardinality(s) <= k BY DEF Upto
    <3>2. Pick(s) \in s BY <2>4, Picked
    <3>3. Cardinality(s \ {Pick(s)}) <= k - 1 /\ Cardinality(s \ {Pick(s)}) <= k
      BY <2>1, <3>1, <3>2, Smaller
    <3> QED BY <3>1, <3>2, <3>3, LedgerAssumption DEF Upto
  <2>5. \A s \in Upto(D, k) : SumStep(g, s) \in Nat
    BY <2>3, <2>4 DEF SumStep
  <2>6. h \in [Upto(D, k) -> Nat] BY <2>5
  <2>7. ASSUME NEW s \in Upto(D, k) PROVE h[s] = SumStep(h, s)
    <3>1. CASE s = {} BY <3>1 DEF SumStep
    <3>2. CASE s # {}
      <4>1. h[s \ {Pick(s)}] = g[s \ {Pick(s)}] BY <2>3, <2>4, <3>2
      <4>2. h[s] = SumStep(g, s) OBVIOUS
      <4> HIDE DEF h
      <4> QED BY <4>1, <4>2 DEF SumStep
    <3> QED BY <3>1, <3>2
  <2>8. Solvable(D, k) BY <2>6, <2>7 DEF Solvable
  <2> QED BY <1>1, <2>8
<1> QED BY <1>2, <1>3

\* So there is a sum on all subsets ...
LEMMA SumExists ==
    ASSUME NEW D \in SUBSET Owners
    PROVE  \E g \in [SUBSET D -> Nat] : Sums(g, D)
<1>1. Cardinality(D) \in Nat BY OwnersFinite
<1>2. Upto(D, Cardinality(D)) = SUBSET D
  <2>1. ASSUME NEW s \in SUBSET D PROVE Cardinality(s) <= Cardinality(D)
    BY OwnersFinite, FS_Subset
  <2> QED BY <2>1 DEF Upto
<1>3. PICK g \in [SUBSET D -> Nat] : \A s \in SUBSET D : g[s] = SumStep(g, s)
  <2>1. Solvable(D, Cardinality(D)) BY <1>1, EveryLevelSolvable
  <2> QED BY <1>2, <2>1 DEF Solvable
<1>4. g = [s \in SUBSET D |-> SumStep(g, s)] BY <1>3
<1> QED BY <1>4 DEF Sums

\* ... and it is the same one on smaller sets.
LEMMA SumUnique ==
    ASSUME NEW D \in SUBSET Owners, NEW S \in SUBSET D, NEW g, NEW h, Sums(g, D), Sums(h, S),
           NEW s \in SUBSET S
    PROVE  g[s] = h[s]
<1> DEFINE F == {t \in SUBSET S : g[t] # h[t]}
<1> SUFFICES ASSUME F # {} PROVE FALSE OBVIOUS
<1>1. PICK m \in F : \A t \in F : Cardinality(m) <= Cardinality(t) BY Smallest
<1>2. m \in SUBSET S /\ m \in SUBSET D /\ g[m] = SumStep(g, m) /\ h[m] = SumStep(h, m)
  BY DEF Sums
<1>3. CASE m = {} BY <1>2, <1>3 DEF SumStep
<1>4. CASE m # {}
  <2>1. Pick(m) \in m BY <1>4, Picked
  <2>2. m \ {Pick(m)} \notin F
    <3>1. Cardinality(m \ {Pick(m)}) < Cardinality(m) BY <2>1, Smaller
    <3>2. Cardinality(m) \in Nat /\ Cardinality(m \ {Pick(m)}) \in Nat BY <2>1, Smaller
    <3> QED BY <1>1, <3>1, <3>2
  <2>3. g[m \ {Pick(m)}] = h[m \ {Pick(m)}] BY <1>2, <2>2
  <2> QED BY <1>2, <2>3 DEF SumStep
<1> QED BY <1>3, <1>4

\* BytesOf, as the recursion it stands for.
LEMMA BytesOfStep ==
    ASSUME NEW S \in SUBSET Owners
    PROVE  /\ BytesOf(S) \in Nat
           /\ S = {} => BytesOf(S) = 0
           /\ S # {} => BytesOf(S) = Bytes[Pick(S)] + BytesOf(S \ {Pick(S)})
<1> DEFINE g(D) == CHOOSE f : Sums(f, D)
<1>1. \A D \in SUBSET Owners : Sums(g(D), D) /\ BytesOf(D) = g(D)[D]
  BY SumExists, BytesOfIsSum
<1>2. PICK f \in [SUBSET S -> Nat] : Sums(f, S) BY SumExists
<1> HIDE DEF g
<1>3. BytesOf(S) = f[S] BY <1>1, <1>2, SumUnique
<1>4. f[S] = SumStep(f, S) BY <1>2 DEF Sums
<1>5. CASE S = {} BY <1>3, <1>4, <1>5 DEF SumStep
<1>6. CASE S # {}
  <2>1. S \ {Pick(S)} \in SUBSET S OBVIOUS
  <2>2. BytesOf(S \ {Pick(S)}) = f[S \ {Pick(S)}] BY <1>1, <1>2, <2>1, SumUnique
  <2> QED BY <1>2, <1>3, <1>4, <1>6, <2>2 DEF SumStep
<1> QED BY <1>2, <1>3, <1>5, <1>6

\* The order does not matter: adding an owner adds its charge ...
LEMMA BytesOfAdd ==
    ASSUME NEW S \in SUBSET Owners, NEW o \in Owners \ S
    PROVE  BytesOf(S \cup {o}) = BytesOf(S) + Bytes[o]
<1> DEFINE Adds(s, x) == BytesOf(s \cup {x}) = BytesOf(s) + Bytes[x]
           F == {s \in SUBSET Owners : \E x \in Owners \ s : ~Adds(s, x)}
<1> SUFFICES ASSUME F # {} PROVE FALSE OBVIOUS
<1>1. PICK m \in F : \A t \in F : Cardinality(m) <= Cardinality(t) BY Smallest
<1>2. m \in SUBSET Owners BY <1>1
<1>3. PICK x \in Owners \ m : ~Adds(m, x) BY <1>1
<1>4. \A s \in SUBSET Owners : s \notin F => \A z \in Owners \ s : Adds(s, z) OBVIOUS
<1> HIDE DEF F
<1>5. m \cup {x} \in SUBSET Owners /\ m \cup {x} # {} BY <1>2, <1>3
<1>6. PICK y \in m \cup {x} : BytesOf(m \cup {x}) = Bytes[y] + BytesOf((m \cup {x}) \ {y})
  BY <1>5, BytesOfStep, Picked
<1>7. \A z \in Owners : Bytes[z] \in Nat BY LedgerAssumption
<1>8. \A s \in SUBSET Owners : BytesOf(s) \in Nat BY BytesOfStep
<1>9. CASE y = x
  <2>1. (m \cup {x}) \ {y} = m BY <1>3, <1>9
  <2>2. BytesOf(m) \in Nat /\ Bytes[x] \in Nat BY <1>2, <1>3, <1>7, <1>8
  <2>3. BytesOf(m \cup {x}) = Bytes[x] + BytesOf(m) BY <1>6, <1>9, <2>1
  <2>4. BytesOf(m \cup {x}) = BytesOf(m) + Bytes[x] BY <2>2, <2>3
  <2> QED BY <1>3, <2>4
<1>10. CASE y # x
  <2>1. y \in m BY <1>6, <1>10
  <2>2. Cardinality(m \ {y}) < Cardinality(m) /\ Cardinality(m) \in Nat
        /\ Cardinality(m \ {y}) \in Nat
    BY <1>2, <2>1, Smaller
  <2>3. m \ {y} \notin F BY <1>1, <2>2
  <2>4. m \ {y} \in SUBSET Owners /\ x \in Owners \ (m \ {y}) /\ y \in Owners \ (m \ {y})
    BY <1>2, <1>3, <2>1
  <2>5. Adds(m \ {y}, x) /\ Adds(m \ {y}, y) BY <1>4, <2>3, <2>4
  <2>6. (m \ {y}) \cup {y} = m /\ (m \ {y}) \cup {x} = (m \cup {x}) \ {y} BY <2>1, <1>3, <1>10
  <2>7. BytesOf((m \cup {x}) \ {y}) = BytesOf(m \ {y}) + Bytes[x]
        /\ BytesOf(m) = BytesOf(m \ {y}) + Bytes[y]
    BY <2>5, <2>6
  <2>8. BytesOf(m \ {y}) \in Nat /\ Bytes[x] \in Nat /\ Bytes[y] \in Nat
    BY <1>7, <1>8, <2>4
  <2>9. BytesOf(m \cup {x}) = BytesOf(m) + Bytes[x] BY <1>6, <2>7, <2>8
  <2> QED BY <1>3, <2>9
<1> QED BY <1>9, <1>10

\* One owner holds its own bytes.
LEMMA BytesOfOne ==
    ASSUME NEW o \in Owners
    PROVE  BytesOf({o}) = Bytes[o] /\ Bytes[o] \in Nat
<1>1. BytesOf({}) = 0 BY BytesOfStep
<1>2. {} \in SUBSET Owners /\ o \in Owners \ {} /\ {} \cup {o} = {o} OBVIOUS
<1>3. BytesOf({} \cup {o}) = BytesOf({}) + Bytes[o] BY <1>2, BytesOfAdd
<1>4. Bytes[o] \in Nat BY LedgerAssumption
<1> QED BY <1>1, <1>2, <1>3, <1>4

\* ... so the charges of two sets without a common owner add up.
LEMMA BytesOfUnion ==
    ASSUME NEW S \in SUBSET Owners, NEW R \in SUBSET Owners, S \cap R = {}
    PROVE  BytesOf(S \cup R) = BytesOf(S) + BytesOf(R)
<1> DEFINE Joins(s) == BytesOf(S \cup s) = BytesOf(S) + BytesOf(s)
           F == {s \in SUBSET R : ~Joins(s)}
<1> SUFFICES ASSUME F # {} PROVE FALSE OBVIOUS
<1>1. PICK m \in F : \A t \in F : Cardinality(m) <= Cardinality(t) BY Smallest
<1>2. m \in SUBSET R /\ ~Joins(m) BY <1>1
<1>3. \A s \in SUBSET R : s \notin F => Joins(s) OBVIOUS
<1> HIDE DEF F
<1>4. \A s \in SUBSET Owners : BytesOf(s) \in Nat BY BytesOfStep
<1>5. \A z \in Owners : Bytes[z] \in Nat BY LedgerAssumption
<1>6. CASE m = {}
  <2>1. BytesOf({}) = 0 BY BytesOfStep
  <2>2. S \cup m = S /\ BytesOf(S) \in Nat BY <1>4, <1>6
  <2> QED BY <1>2, <1>6, <2>1, <2>2
<1>7. CASE m # {}
  <2>1. PICK y \in m : TRUE BY <1>7
  <2>2. m \in SUBSET Owners /\ y \in Owners BY <1>2, <2>1
  <2>3. Cardinality(m \ {y}) < Cardinality(m) /\ Cardinality(m) \in Nat
        /\ Cardinality(m \ {y}) \in Nat
    BY <2>1, <2>2, Smaller
  <2>4. m \ {y} \in SUBSET R /\ m \ {y} \notin F BY <1>1, <1>2, <2>3
  <2>5. Joins(m \ {y}) BY <1>3, <2>4
  <2>6. /\ m \ {y} \in SUBSET Owners /\ y \in Owners \ (m \ {y})
        /\ S \cup (m \ {y}) \in SUBSET Owners /\ y \in Owners \ (S \cup (m \ {y}))
    BY <1>2, <2>1, <2>2
  <2>7. (m \ {y}) \cup {y} = m /\ (S \cup (m \ {y})) \cup {y} = S \cup m BY <2>1
  <2>8. /\ BytesOf(m) = BytesOf(m \ {y}) + Bytes[y]
        /\ BytesOf(S \cup m) = BytesOf(S \cup (m \ {y})) + Bytes[y]
    BY <2>6, <2>7, BytesOfAdd
  <2>9. BytesOf(m \ {y}) \in Nat /\ BytesOf(S) \in Nat /\ Bytes[y] \in Nat
    BY <1>4, <1>5, <2>2, <2>6
  <2>10. BytesOf(S \cup m) = BytesOf(S) + BytesOf(m) BY <2>5, <2>8, <2>9
  <2> QED BY <1>2, <2>10
<1> QED BY <1>6, <1>7

\* Taking owners out takes their charge out.
LEMMA BytesOfMinus ==
    ASSUME NEW S \in SUBSET Owners, NEW R \in SUBSET S
    PROVE  /\ BytesOf(S \ R) = BytesOf(S) - BytesOf(R)
           /\ BytesOf(S) \in Nat /\ BytesOf(R) \in Nat /\ BytesOf(S \ R) \in Nat
<1>1. /\ R \in SUBSET Owners /\ S \ R \in SUBSET Owners
      /\ (S \ R) \cap R = {} /\ (S \ R) \cup R = S
  OBVIOUS
<1>2. BytesOf(S) = BytesOf(S \ R) + BytesOf(R) BY <1>1, BytesOfUnion
<1>3. BytesOf(S) \in Nat /\ BytesOf(R) \in Nat /\ BytesOf(S \ R) \in Nat BY <1>1, BytesOfStep
<1> QED BY <1>2, <1>3

-----------------------------------------------------------------------------
\* The native slots in use, counted.
LEMMA NativeCounts ==
    ASSUME NEW S \in SUBSET Owners, NEW out \in SUBSET S, NEW in \in SUBSET Owners,
           in \cap (S \ out) = {}
    PROVE  /\ Cardinality(((S \ out) \cup in) \cap NativeOwners)
                = Cardinality(S \cap NativeOwners) - Cardinality(out \cap NativeOwners)
                                                   + Cardinality(in \cap NativeOwners)
           /\ Cardinality(S \cap NativeOwners) \in Nat
           /\ Cardinality(out \cap NativeOwners) \in Nat
           /\ Cardinality(in \cap NativeOwners) \in Nat
           /\ Cardinality(out \cap NativeOwners) <= Cardinality(S \cap NativeOwners)
<1> DEFINE s == S \cap NativeOwners
           o == out \cap NativeOwners
           i == in \cap NativeOwners
<1>1. s \in SUBSET Owners /\ o \in SUBSET Owners /\ i \in SUBSET Owners /\ s \ o \in SUBSET Owners
  OBVIOUS
<1>2. IsFiniteSet(s) /\ IsFiniteSet(o) /\ IsFiniteSet(i) /\ IsFiniteSet(s \ o)
  BY <1>1, OwnersFinite
<1>3. /\ s \cap o = o /\ (s \ o) \cap i = {}
      /\ ((S \ out) \cup in) \cap NativeOwners = (s \ o) \cup i /\ o \subseteq s
  OBVIOUS
<1>4. /\ Cardinality(s) \in Nat /\ Cardinality(o) \in Nat /\ Cardinality(i) \in Nat
      /\ Cardinality(s \ o) \in Nat
  BY <1>1, OwnersFinite
<1> HIDE DEF s, o, i
<1>5. Cardinality(s \ o) = Cardinality(s) - Cardinality(s \cap o) BY <1>2, FS_Difference
<1>6. Cardinality((s \ o) \cup i)
        = Cardinality(s \ o) + Cardinality(i) - Cardinality((s \ o) \cap i)
  BY <1>2, FS_Union
<1>7. Cardinality((s \ o) \cap i) = 0 /\ Cardinality(s \cap o) = Cardinality(o)
  BY <1>3, FS_EmptySet
<1>8. Cardinality((s \ o) \cup i) = Cardinality(s) - Cardinality(o) + Cardinality(i)
  BY <1>4, <1>5, <1>6, <1>7
<1>9. Cardinality(o) <= Cardinality(s) BY <1>2, <1>3, FS_Subset
<1> QED BY <1>3, <1>4, <1>8, <1>9 DEF s, o, i

\* A move of leases keeps the ledger balanced: what it releases was charged,
\* what it takes is new, and no more than one owner that was admitted.
LEMMA ReletBalanced ==
    ASSUME LedgerTypeOK, LedgerBalanced,
           NEW out \in SUBSET leases, NEW in \in SUBSET Owners, in \cap (leases \ out) = {},
           in = {} \/ \E o \in Owners : in = {o} /\ Admits(o, out),
           Relet(out, in)
    PROVE  LedgerTypeOK' /\ LedgerBalanced'
<1>1. leases \in SUBSET Owners /\ out \in SUBSET Owners /\ out \cap leases = out
  BY DEF LedgerTypeOK
<1>2. /\ leases' = (leases \ out) \cup in
      /\ retainedBytes' = retainedBytes - BytesOf(out) + BytesOf(in)
      /\ retainedNative' = retainedNative - Cardinality(out \cap NativeOwners)
                                          + Cardinality(in \cap NativeOwners)
  BY <1>1 DEF Relet
<1>3. leases \ out \in SUBSET Owners /\ (leases \ out) \cup in \in SUBSET Owners BY <1>1
<1>4. /\ BytesOf(leases \ out) = BytesOf(leases) - BytesOf(out)
      /\ BytesOf(leases) \in Nat /\ BytesOf(out) \in Nat /\ BytesOf(leases \ out) \in Nat
  BY <1>1, BytesOfMinus
<1>5. BytesOf((leases \ out) \cup in) = BytesOf(leases \ out) + BytesOf(in)
      /\ BytesOf(in) \in Nat
  BY <1>3, BytesOfUnion, BytesOfStep
<1>6. /\ Cardinality(((leases \ out) \cup in) \cap NativeOwners)
            = Cardinality(leases \cap NativeOwners) - Cardinality(out \cap NativeOwners)
                                                    + Cardinality(in \cap NativeOwners)
      /\ Cardinality(leases \cap NativeOwners) \in Nat
      /\ Cardinality(out \cap NativeOwners) \in Nat
      /\ Cardinality(in \cap NativeOwners) \in Nat
      /\ Cardinality(out \cap NativeOwners) <= Cardinality(leases \cap NativeOwners)
  BY <1>1, NativeCounts
<1>7. /\ retainedBytes = BytesOf(leases) /\ retainedBytes <= MaxRetainedBytes
      /\ retainedNative = Cardinality(leases \cap NativeOwners) /\ retainedNative <= MaxNativePlans
  BY DEF LedgerBalanced
<1>8. retainedBytes' = BytesOf((leases \ out) \cup in) BY <1>2, <1>4, <1>5, <1>7
<1>9. retainedNative' = Cardinality(((leases \ out) \cup in) \cap NativeOwners)
      /\ retainedNative' \in Int
  BY <1>2, <1>6, <1>7
<1>10. MaxRetainedBytes \in Nat /\ MaxNativePlans \in Nat BY LedgerAssumption
<1>11. retainedBytes' <= MaxRetainedBytes /\ retainedNative' <= MaxNativePlans
  <2>1. CASE in = {}
    <3>1. BytesOf({}) = 0 /\ Cardinality({}) = 0 BY BytesOfStep, FS_EmptySet
    <3>2. in \cap NativeOwners = {} BY <2>1
    <3>3. BytesOf(in) = 0 /\ Cardinality(in \cap NativeOwners) = 0 BY <2>1, <3>1, <3>2
    <3> QED BY <3>3, <1>2, <1>4, <1>6, <1>7, <1>10
  <2>2. CASE \E o \in Owners : in = {o} /\ Admits(o, out)
    <3>1. PICK o \in Owners : in = {o} /\ Admits(o, out) BY <2>2
    <3>2. BytesOf({o}) = Bytes[o] BY BytesOfOne
    <3>3. Bytes[o] \in Nat /\ BytesOf(in) = Bytes[o] BY <3>1, <3>2, LedgerAssumption
    <3>4. retainedBytes' <= MaxRetainedBytes
      <4>1. retainedBytes - BytesOf(out) <= MaxRetainedBytes - Bytes[o] BY <3>1 DEF Admits
      <4> QED BY <4>1, <3>3, <1>2, <1>4, <1>7, <1>10
    <3>5. retainedNative' <= MaxNativePlans
      <4>1. CASE o \in NativeOwners
        <5>1. retainedNative - Cardinality(out \cap NativeOwners) < MaxNativePlans
          BY <3>1, <4>1 DEF Admits
        <5>2. in \cap NativeOwners = {o} BY <3>1, <4>1
        <5>3. Cardinality(in \cap NativeOwners) = 1 BY <5>2, FS_Singleton
        <5> QED BY <5>1, <5>3, <1>2, <1>6, <1>7, <1>10
      <4>2. CASE o \notin NativeOwners
        <5>1. in \cap NativeOwners = {} BY <3>1, <4>2
        <5>2. Cardinality(in \cap NativeOwners) = 0 BY <5>1, FS_EmptySet
        <5> QED BY <5>2, <1>2, <1>6, <1>7, <1>10
      <4> QED BY <4>1, <4>2
    <3> QED BY <3>4, <3>5
  <2> QED BY <2>1, <2>2
<1>12. LedgerTypeOK' BY <1>2, <1>3, <1>9 DEF LedgerTypeOK
<1>13. LedgerBalanced' BY <1>2, <1>8, <1>9, <1>11 DEF LedgerBalanced
<1> QED BY <1>12, <1>13

\* A second release of a lease does nothing.
LEMMA ReletLive ==
    ASSUME NEW out, NEW in, Relet(out, in)
    PROVE  Relet(out \cap leases, in)
<1>1. leases \ (out \cap leases) = leases \ out /\ (out \cap leases) \cap leases = out \cap leases
  OBVIOUS
<1> QED BY <1>1 DEF Relet

\* An empty ledger is balanced, and a balanced one without leases is empty.
LEMMA EmptyBalanced ==
    /\ LedgerInit => LedgerTypeOK /\ LedgerBalanced
    /\ LedgerBalanced /\ leases = {} => retainedBytes = 0 /\ retainedNative = 0
<1>1. BytesOf({}) = 0 BY BytesOfStep
<1>2. {} \cap NativeOwners = {} /\ Cardinality({}) = 0 BY FS_EmptySet
<1>3. 0 <= MaxRetainedBytes /\ 0 <= MaxNativePlans BY LedgerAssumption
<1>4. ASSUME LedgerInit PROVE LedgerTypeOK /\ LedgerBalanced
  <2>1. leases = {} /\ retainedBytes = 0 /\ retainedNative = 0 BY <1>4 DEF LedgerInit
  <2>2. LedgerTypeOK BY <2>1 DEF LedgerTypeOK
  <2>3. LedgerBalanced BY <2>1, <1>1, <1>2, <1>3 DEF LedgerBalanced
  <2> QED BY <2>2, <2>3
<1>5. ASSUME LedgerBalanced, leases = {} PROVE retainedBytes = 0 /\ retainedNative = 0
  BY <1>5, <1>1, <1>2 DEF LedgerBalanced
<1> QED BY <1>4, <1>5
=============================================================================
