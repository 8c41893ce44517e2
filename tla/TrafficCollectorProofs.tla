----------------------- MODULE TrafficCollectorProofs -----------------------
(* The theorems about the ledger and the collector, for any days, counters, *)
(* ticks, restarts of Conduit and power losses.                             *)
EXTENDS TrafficCollector, FiniteSetTheorems, WellFoundedInduction, TLAPS

(* Byte counts.                                                             *)
Counts == [Directions -> Nat]

-----------------------------------------------------------------------------
(* Sums: what the fold of the community modules computes.  Each induction   *)
(* is a least counterexample.                                               *)

LEMMA Least ==
  ASSUME NEW T, T \subseteq Nat, T # {}
  PROVE  \E n \in T : \A m \in T : n <= m
<1> DEFINE R == {ss \in Nat \X Nat : ss[1] < ss[2]}
<1>1. IsWellFoundedOn(R, Nat)
  BY NatLessThanWellFounded DEF OpToRel
<1> HIDE DEF R
<1>2. PICK n \in T : \A m \in T : <<m, n>> \notin R
  BY <1>1, WFMin
<1>3. \A m \in T : ~(m < n)
  BY <1>2 DEF R
<1> QED BY <1>3

LEMMA CountsAdd ==
  /\ Zero \in Counts
  /\ \A a, b \in Counts : Plus(a, b) \in Counts /\ Plus(a, b) = Plus(b, a)
  /\ \A a, b, c \in Counts : Plus(a, Plus(b, c)) = Plus(Plus(a, b), c)
  /\ \A a \in Counts : Plus(a, Zero) = a
BY DEF Counts, Zero, Plus

LEMMA Associative ==
  \A a, b, c \in Counts : Plus(a, Plus(b, c)) = Plus(Plus(a, b), c)
BY CountsAdd

Pick(s) == CHOOSE x \in s : TRUE

LEMMA PickIn == \A s : s # {} => Pick(s) \in s
BY DEF Pick

(* One step of the fold, from the sums g of smaller sets.                   *)
Fold(f, g, s) == IF s = {} THEN Zero ELSE Plus(f[Pick(s)], g[s \ {Pick(s)}])

Folding(f, S) == CHOOSE g : g = [s \in SUBSET S |-> Fold(f, g, s)]

LEMMA SumIsFolding ==
  ASSUME NEW f, NEW S
  PROVE  SumOf(f, S) = Folding(f, S)[S]
BY Zenon DEF SumOf, FoldFunctionOnSet, MapThenFoldSet, Folding, Fold, Pick

Small(S, n) == {s \in SUBSET S : Cardinality(s) <= n}

(* The function the fold chooses exists: by the size of the sets it is      *)
(* defined on.                                                              *)
LEMMA FoldingExists ==
  ASSUME NEW f, NEW S, IsFiniteSet(S)
  PROVE  \E g : g = [s \in SUBSET S |-> Fold(f, g, s)]
<1> DEFINE Has(n) == \E g : g = [s \in Small(S, n) |-> Fold(f, g, s)]
<1>1. \A s \in SUBSET S : IsFiniteSet(s) /\ Cardinality(s) \in Nat
  BY FS_Subset, FS_CardinalityType
<1>2. Has(0)
  <2>1. \A s \in Small(S, 0) : s = {}
    BY <1>1, FS_EmptySet DEF Small
  <2> DEFINE g == [s \in Small(S, 0) |-> Zero]
  <2>2. g = [s \in Small(S, 0) |-> Fold(f, g, s)]
    BY <2>1 DEF Fold
  <2> QED BY <2>2
<1>3. ASSUME NEW n \in Nat, Has(n)
      PROVE  Has(n + 1)
  <2>1. PICK g : g = [s \in Small(S, n) |-> Fold(f, g, s)]
    BY <1>3
  <2> DEFINE h == [s \in Small(S, n + 1) |-> Fold(f, g, s)]
  <2>2. \A s \in Small(S, n) : s \in Small(S, n + 1)
    BY <1>1 DEF Small
  <2>3. \A s \in Small(S, n) : h[s] = g[s]
    BY <2>1, <2>2
  <2>4. ASSUME NEW s \in Small(S, n + 1), s # {}
        PROVE  s \ {Pick(s)} \in Small(S, n)
    <3>1. Pick(s) \in s
      BY <2>4, PickIn
    <3>2. Cardinality(s \ {Pick(s)}) = Cardinality(s) - 1
      BY <1>1, <3>1, FS_RemoveElement DEF Small
    <3> QED BY <1>1, <3>2 DEF Small
  <2> HIDE DEF h
  <2>5. \A s \in Small(S, n + 1) : Fold(f, g, s) = Fold(f, h, s)
    BY <2>3, <2>4 DEF Fold
  <2>6. h = [s \in Small(S, n + 1) |-> Fold(f, h, s)]
    BY <2>5 DEF h
  <2> QED BY <2>6
<1> HIDE DEF Has
<1>4. \A n \in Nat : Has(n)
  <2> SUFFICES ASSUME {n \in Nat : ~Has(n)} # {} PROVE FALSE
    OBVIOUS
  <2>1. PICK n \in {k \in Nat : ~Has(k)} : \A m \in {k \in Nat : ~Has(k)} : n <= m
    BY Least
  <2>2. n # 0 /\ n - 1 \in Nat /\ Has(n - 1)
    BY <1>2, <2>1
  <2> QED BY <1>3, <2>1, <2>2
<1>5. Small(S, Cardinality(S)) = SUBSET S /\ Cardinality(S) \in Nat
  BY <1>1, FS_Subset, FS_CardinalityType DEF Small
<1> QED BY <1>4, <1>5 DEF Has

LEMMA FoldingIs ==
  ASSUME NEW f, NEW S, IsFiniteSet(S)
  PROVE  \A s \in SUBSET S : Folding(f, S)[s] = Fold(f, Folding(f, S), s)
<1>1. Folding(f, S) = [s \in SUBSET S |-> Fold(f, Folding(f, S), s)]
  BY FoldingExists DEF Folding
<1> QED BY <1>1

(* What holds of a set whenever it holds of the set without any one member  *)
(* holds of every finite set.                                               *)
LEMMA BySize ==
  ASSUME NEW U, IsFiniteSet(U), NEW C,
         \A u \in SUBSET U :
           (\A x \in u : u \ {x} \in C) => u \in C
  PROVE  SUBSET U \subseteq C
<1> SUFFICES ASSUME ~(SUBSET U \subseteq C) PROVE FALSE
  OBVIOUS
<1> DEFINE Bad == {n \in Nat : \E u \in SUBSET U : u \notin C /\ Cardinality(u) = n}
<1>1. \A u \in SUBSET U : IsFiniteSet(u) /\ Cardinality(u) \in Nat
  BY FS_Subset, FS_CardinalityType
<1>2. Bad # {} /\ Bad \subseteq Nat
  BY <1>1
<1>3. PICK n \in Bad : \A m \in Bad : n <= m
  <2> HIDE DEF Bad
  <2> QED BY <1>2, Least
<1>4. PICK u \in SUBSET U : u \notin C /\ Cardinality(u) = n
  BY <1>3
<1>5. ASSUME NEW x \in u PROVE u \ {x} \in C
  <2>0. u \ {x} \in SUBSET U /\ IsFiniteSet(u)
    BY <1>1
  <2>1. Cardinality(u \ {x}) = n - 1
    BY <2>0, <1>4, FS_RemoveElement
  <2>1a. n - 1 \in Nat
    BY <2>0, <2>1, <1>1
  <2>2. n - 1 \notin Bad
    BY <1>3, <2>1a
  <2> QED BY <2>0, <2>1, <2>1a, <2>2
<1> QED BY <1>4, <1>5

LEMMA FoldingIsSum ==
  ASSUME NEW f, NEW U, IsFiniteSet(U)
  PROVE  \A u \in SUBSET U : \A S \in SUBSET U : u \subseteq S => Folding(f, S)[u] = SumOf(f, u)
<1> DEFINE C == {u \in SUBSET U : \A S \in SUBSET U : u \subseteq S =>
                                     Folding(f, S)[u] = SumOf(f, u)}
<1>1. \A S \in SUBSET U : IsFiniteSet(S)
  BY FS_Subset
<1>2. ASSUME NEW u \in SUBSET U, \A x \in u : u \ {x} \in C
      PROVE  u \in C
  <2> SUFFICES ASSUME NEW S \in SUBSET U, u \subseteq S
               PROVE  Folding(f, S)[u] = SumOf(f, u)
    OBVIOUS
  <2>1. SumOf(f, u) = Folding(f, u)[u]
    BY SumIsFolding
  <2>2. Folding(f, S)[u] = Fold(f, Folding(f, S), u)
    BY <1>1, FoldingIs
  <2>3. Folding(f, u)[u] = Fold(f, Folding(f, u), u)
    BY <1>1, FoldingIs
  <2>4. CASE u = {}
    BY <2>1, <2>2, <2>3, <2>4 DEF Fold
  <2>5. CASE u # {}
    <3>1. Pick(u) \in u
      BY <2>5, PickIn
    <3>2. u \ {Pick(u)} \in C
      BY <1>2, <3>1
    <3>3. Folding(f, S)[u \ {Pick(u)}] = Folding(f, u)[u \ {Pick(u)}]
      BY <3>2
    <3> QED BY <2>1, <2>2, <2>3, <2>5, <3>3 DEF Fold
  <2> QED BY <2>4, <2>5
<1> HIDE DEF C
<1>3. SUBSET U \subseteq C
  BY <1>2, BySize
<1> QED BY <1>3 DEF C

(* What the fold returns, one member at a time.                             *)
LEMMA SumRecursion ==
  ASSUME NEW f, NEW S, IsFiniteSet(S)
  PROVE  /\ S = {} => SumOf(f, S) = Zero
         /\ S # {} => SumOf(f, S) = Plus(f[Pick(S)], SumOf(f, S \ {Pick(S)}))
<1>1. SumOf(f, S) = Fold(f, Folding(f, S), S)
  BY SumIsFolding, FoldingIs
<1>2. \A u \in SUBSET S : Folding(f, S)[u] = SumOf(f, u)
  BY FoldingIsSum
<1>3. S \ {Pick(S)} \in SUBSET S
  OBVIOUS
<1> QED BY <1>1, <1>2, <1>3 DEF Fold

LEMMA SumTyped ==
  ASSUME NEW S, IsFiniteSet(S), NEW f, \A x \in S : f[x] \in Counts
  PROVE  SumOf(f, S) \in Counts
<1> DEFINE C == {u \in SUBSET S : SumOf(f, u) \in Counts}
<1>1. ASSUME NEW u \in SUBSET S, \A x \in u : u \ {x} \in C
      PROVE  u \in C
  <2>1. IsFiniteSet(u)
    BY FS_Subset
  <2>2. CASE u = {}
    BY <2>1, <2>2, SumRecursion, CountsAdd
  <2>3. CASE u # {}
    <3>1. Pick(u) \in u
      BY <2>3, PickIn
    <3>2. f[Pick(u)] \in Counts /\ SumOf(f, u \ {Pick(u)}) \in Counts
      BY <1>1, <3>1
    <3>3. SumOf(f, u) = Plus(f[Pick(u)], SumOf(f, u \ {Pick(u)}))
      BY <2>1, <2>3, SumRecursion
    <3>4. SumOf(f, u) \in Counts
      BY <3>2, <3>3, CountsAdd
    <3> QED BY <3>4
  <2> QED BY <2>2, <2>3
<1> HIDE DEF C
<1>2. SUBSET S \subseteq C
  BY <1>1, BySize
<1> QED BY <1>2 DEF C

(* The sum does not depend on the order in which the fold picks.            *)
LEMMA SumAdds ==
  ASSUME NEW S, IsFiniteSet(S), NEW f, \A x \in S : f[x] \in Counts
  PROVE  /\ SumOf(f, S) \in Counts
         /\ \A x \in S : SumOf(f, S) = Plus(f[x], SumOf(f, S \ {x}))
<1> DEFINE C == {u \in SUBSET S : /\ SumOf(f, u) \in Counts
                                  /\ \A x \in u : SumOf(f, u) = Plus(f[x], SumOf(f, u \ {x}))}
<1>1. \A u \in SUBSET S : IsFiniteSet(u)
  BY FS_Subset
<1>2. ASSUME NEW u \in SUBSET S, \A x \in u : u \ {x} \in C
      PROVE  u \in C
  <2>1. CASE u = {}
    BY <1>1, <2>1, SumRecursion, CountsAdd
  <2>2. CASE u # {}
    <3> DEFINE p == Pick(u)
    <3>1. p \in u /\ SumOf(f, u) = Plus(f[p], SumOf(f, u \ {p}))
      BY <1>1, <2>2, SumRecursion, PickIn
    <3> HIDE DEF p
    <3>2. \A x \in u : SumOf(f, u \ {x}) \in Counts /\ f[x] \in Counts
      BY <1>2
    <3>3. SumOf(f, u) \in Counts
      BY <3>1, <3>2, CountsAdd
    <3>4. ASSUME NEW x \in u, x # p
          PROVE  SumOf(f, u) = Plus(f[x], SumOf(f, u \ {x}))
      <4> DEFINE rest == SumOf(f, (u \ {p}) \ {x})
      <4>1. (u \ {p}) \ {x} = (u \ {x}) \ {p}
        OBVIOUS
      <4>2. SumOf(f, u \ {p}) = Plus(f[x], rest)
        BY <1>2, <3>1, <3>4
      <4>3. SumOf(f, u \ {x}) = Plus(f[p], SumOf(f, (u \ {x}) \ {p}))
        BY <1>2, <3>1, <3>4
      <4>4. rest \in Counts
        <5>1. (u \ {p}) \ {x} \in SUBSET S /\ \A y \in (u \ {p}) \ {x} : f[y] \in Counts
          OBVIOUS
        <5>2. IsFiniteSet((u \ {p}) \ {x})
          BY <1>1, <5>1
        <5> QED BY <5>1, <5>2, SumTyped
      <4> HIDE DEF rest
      <4>5. SumOf(f, u \ {x}) = Plus(f[p], rest)
        BY <4>1, <4>3 DEF rest
      <4>6. f[x] \in Counts /\ f[p] \in Counts
        BY <3>1, <3>2
      <4>7. Plus(f[p], Plus(f[x], rest)) = Plus(f[x], Plus(f[p], rest))
        BY <4>4, <4>6, CountsAdd
      <4> QED BY <3>1, <4>2, <4>5, <4>7
    <3> QED BY <3>1, <3>3, <3>4
  <2> QED BY <2>1, <2>2
<1> HIDE DEF C
<1>3. SUBSET S \subseteq C
  BY <1>2, BySize
<1> QED BY <1>3 DEF C

LEMMA SumSame ==
  ASSUME NEW S, IsFiniteSet(S), NEW f, NEW g, \A x \in S : f[x] = g[x]
  PROVE  SumOf(f, S) = SumOf(g, S)
<1> DEFINE C == {u \in SUBSET S : SumOf(f, u) = SumOf(g, u)}
<1>1. ASSUME NEW u \in SUBSET S, \A x \in u : u \ {x} \in C
      PROVE  u \in C
  <2>1. IsFiniteSet(u)
    BY FS_Subset
  <2>2. CASE u = {}
    BY <2>1, <2>2, SumRecursion
  <2>3. CASE u # {}
    <3>1. Pick(u) \in u
      BY <2>3, PickIn
    <3>2. f[Pick(u)] = g[Pick(u)] /\ SumOf(f, u \ {Pick(u)}) = SumOf(g, u \ {Pick(u)})
      BY <1>1, <3>1
    <3>3. /\ SumOf(f, u) = Plus(f[Pick(u)], SumOf(f, u \ {Pick(u)}))
          /\ SumOf(g, u) = Plus(g[Pick(u)], SumOf(g, u \ {Pick(u)}))
      BY <2>1, <2>3, SumRecursion
    <3> QED BY <3>2, <3>3
  <2> QED BY <2>2, <2>3
<1> HIDE DEF C
<1>2. SUBSET S \subseteq C
  BY <1>1, BySize
<1> QED BY <1>2 DEF C

(* A sum is that of a part and that of the rest.                            *)
LEMMA SumSplits ==
  ASSUME NEW S, IsFiniteSet(S), NEW f, \A x \in S : f[x] \in Counts
  PROVE  \A A \in SUBSET S : SumOf(f, S) = Plus(SumOf(f, A), SumOf(f, S \ A))
<1> DEFINE C == {u \in SUBSET S :
                   \A A \in SUBSET u : SumOf(f, u) = Plus(SumOf(f, A), SumOf(f, u \ A))}
<1>1. \A u \in SUBSET S : IsFiniteSet(u) /\ SumOf(f, u) \in Counts
  <2> SUFFICES ASSUME NEW u \in SUBSET S
               PROVE  IsFiniteSet(u) /\ SumOf(f, u) \in Counts
    OBVIOUS
  <2>1. IsFiniteSet(u)
    BY FS_Subset
  <2> QED BY <2>1, SumAdds
<1>2. ASSUME NEW u \in SUBSET S, \A x \in u : u \ {x} \in C
      PROVE  u \in C
  <2> SUFFICES ASSUME NEW A \in SUBSET u
               PROVE  SumOf(f, u) = Plus(SumOf(f, A), SumOf(f, u \ A))
    OBVIOUS
  <2>1. SumOf(f, u) \in Counts /\ SumOf(f, A) \in Counts /\ SumOf(f, u \ A) \in Counts
    BY <1>1
  <2>2. CASE A = {}
    <3>1. SumOf(f, A) = Zero /\ u \ A = u
      BY <2>2, <1>1, SumRecursion
    <3> QED BY <2>1, <3>1, CountsAdd
  <2>3. CASE A # {}
    <3>1. PICK x \in A : TRUE
      BY <2>3
    <3> DEFINE a == SumOf(f, A \ {x})
               b == SumOf(f, u \ A)
    <3>2. SumOf(f, u \ {x}) = Plus(a, b)
      <4>1. (u \ {x}) \ (A \ {x}) = u \ A /\ A \ {x} \in SUBSET (u \ {x})
        BY <3>1
      <4> QED BY <1>2, <4>1, <3>1
    <3>3. IsFiniteSet(u) /\ IsFiniteSet(A) /\ \A y \in u : f[y] \in Counts
      BY <1>1
    <3>4. SumOf(f, u) = Plus(f[x], SumOf(f, u \ {x}))
      BY <3>1, <3>3, SumAdds
    <3>5. SumOf(f, A) = Plus(f[x], a)
      BY <3>1, <3>3, SumAdds
    <3>6. a \in Counts /\ b \in Counts /\ f[x] \in Counts
      BY <1>1, <2>1, <3>1
    <3> HIDE DEF a, b
    <3>7. Plus(f[x], Plus(a, b)) = Plus(Plus(f[x], a), b)
      BY <3>6, Associative
    <3> QED BY <3>2, <3>4, <3>5, <3>7 DEF b
  <2> QED BY <2>2, <2>3
<1> HIDE DEF C
<1>3. SUBSET S \subseteq C
  BY <1>2, BySize
<1> QED BY <1>3, FS_Subset DEF C

(* Tables keyed by ids or days within a bound.                              *)
Partial(A, B) == UNION {[D -> B] : D \in SUBSET A}

LEMMA PartialIs ==
  ASSUME NEW A, NEW B, NEW f
  PROVE  f \in Partial(A, B) <=>
           /\ DOMAIN f \subseteq A
           /\ f = [x \in DOMAIN f |-> f[x]]
           /\ \A x \in DOMAIN f : f[x] \in B
BY DEF Partial

LEMMA PartialHas ==
  ASSUME NEW n, NEW B, NEW f, f \in Partial(1 .. n, B)
  PROVE  DOMAIN f \subseteq 1 .. n /\ \A x \in DOMAIN f : f[x] \in B
BY PartialIs

LEMMA PutKeys ==
  ASSUME NEW f, NEW k, NEW v
  PROVE  /\ DOMAIN Put(f, k, v) = DOMAIN f \cup {k}
         /\ Put(f, k, v)[k] = v
         /\ \A x \in DOMAIN f : x # k => Put(f, k, v)[x] = f[x]
BY DEF Put

LEMMA PutIs ==
  ASSUME NEW A, NEW B, NEW f, f \in Partial(A, B), NEW k, k \in A, NEW v, v \in B
  PROVE  Put(f, k, v) \in Partial(A, B)
<1>1. DOMAIN f \subseteq A /\ \A x \in DOMAIN f : f[x] \in B
  BY PartialIs
<1>2. \A x \in DOMAIN f \cup {k} : Put(f, k, v)[x] = IF x = k THEN v ELSE f[x]
  BY DEF Put
<1> QED BY <1>1, <1>2, PutKeys, PartialIs DEF Put

LEMMA RestrictIs ==
  ASSUME NEW A, NEW B, NEW f \in Partial(A, B), NEW S \in SUBSET DOMAIN f
  PROVE  /\ Restrict(f, S) \in Partial(A, B)
         /\ DOMAIN Restrict(f, S) = S
         /\ \A x \in S : Restrict(f, S)[x] = f[x]
<1>1. Restrict(f, S) = [x \in S |-> f[x]]
  BY DEF Restrict
<1>2. DOMAIN f \subseteq A /\ \A x \in DOMAIN f : f[x] \in B
  BY PartialIs
<1> QED BY <1>1, <1>2, PartialIs

-----------------------------------------------------------------------------
(* Sums over the tables                                                     *)

LEMMA FiniteKeys ==
  ASSUME NEW n \in Nat, NEW S \in SUBSET (1 .. n)
  PROVE  IsFiniteSet(S)
<1>1. IsFiniteSet(1 .. n)
  BY FS_Interval
<1> QED BY <1>1, FS_Subset

LEMMA AddToIs ==
  ASSUME NEW n \in Nat, NEW table \in Partial(1 .. n, Counts), NEW day \in 1 .. n,
         NEW bytes \in Counts
  PROVE  /\ AddTo(table, day, bytes) \in Partial(1 .. n, Counts)
         /\ DOMAIN AddTo(table, day, bytes) = DOMAIN table \cup {day}
         /\ AddTo(table, day, bytes)[day] =
              IF day \in DOMAIN table THEN Plus(table[day], bytes) ELSE bytes
         /\ \A x \in DOMAIN table : x # day => AddTo(table, day, bytes)[x] = table[x]
<1> DEFINE row == IF day \in DOMAIN table THEN Plus(table[day], bytes) ELSE bytes
<1>1. AddTo(table, day, bytes) = Put(table, day, row)
  BY DEF AddTo
<1>2. \A x \in DOMAIN table : table[x] \in Counts
  BY PartialIs
<1>3. row \in Counts
  <2>1. CASE day \in DOMAIN table
    BY <1>2, <2>1, CountsAdd
  <2>2. CASE day \notin DOMAIN table
    BY <2>2
  <2> QED BY <2>1, <2>2
<1> HIDE DEF row
<1>4. Put(table, day, row) \in Partial(1 .. n, Counts)
  BY <1>3, PutIs
<1>5. /\ DOMAIN Put(table, day, row) = DOMAIN table \cup {day}
      /\ Put(table, day, row)[day] = row
      /\ \A x \in DOMAIN table : x # day => Put(table, day, row)[x] = table[x]
  BY DEF Put
<1> QED BY <1>1, <1>4, <1>5 DEF row

LEMMA AddToSums ==
  ASSUME NEW n \in Nat, NEW table \in Partial(1 .. n, Counts), NEW day \in 1 .. n,
         NEW bytes \in Counts, NEW W,
         NEW sum, NEW after,
         sum = SumOf(table, W \cap DOMAIN table),
         after = AddTo(table, day, bytes)
  PROVE  /\ sum \in Counts
         /\ SumOf(after, W \cap DOMAIN after) = IF day \in W THEN Plus(sum, bytes) ELSE sum
<1> DEFINE S == W \cap DOMAIN table
<1>1. DOMAIN table \subseteq 1 .. n /\ \A x \in DOMAIN table : table[x] \in Counts
  BY PartialIs
<1>2. /\ DOMAIN after = DOMAIN table \cup {day}
      /\ after[day] = IF day \in DOMAIN table THEN Plus(table[day], bytes) ELSE bytes
      /\ \A x \in DOMAIN table : x # day => after[x] = table[x]
  BY DEF AddTo, Put
<1>2a. after \in Partial(1 .. n, Counts)
  BY AddToIs
<1>2b. \A x \in DOMAIN after : after[x] \in Counts
  BY <1>2a, PartialIs
<1>3. IsFiniteSet(S) /\ IsFiniteSet(S \cup {day}) /\ IsFiniteSet(S \ {day})
  <2>1. S \in SUBSET (1 .. n) /\ S \cup {day} \in SUBSET (1 .. n) /\ S \ {day} \in SUBSET (1 .. n)
    BY <1>1
  <2> QED BY <2>1, FiniteKeys
<1>4. SumOf(table, S) \in Counts
  BY <1>1, <1>3, SumTyped
<1>5. SumOf(after, S \ {day}) = SumOf(table, S \ {day})
  BY <1>2, <1>3, SumSame
<1>6. CASE day \notin W
  <2>1. W \cap DOMAIN after = S /\ S \ {day} = S
    BY <1>2, <1>6
  <2> QED BY <1>4, <1>5, <1>6, <2>1
<1>7. CASE day \in W
  <2>1. W \cap DOMAIN after = S \cup {day} /\ (S \cup {day}) \ {day} = S \ {day}
    BY <1>2, <1>7
  <2>2. SumOf(after, S \cup {day}) = Plus(after[day], SumOf(after, (S \cup {day}) \ {day}))
    <3>1. \A x \in S \cup {day} : after[x] \in Counts
      BY <1>2, <1>2b
    <3>2. day \in S \cup {day}
      OBVIOUS
    <3> HIDE DEF S
    <3> QED BY <1>3, <3>1, <3>2, SumAdds
  <2>3. SumOf(after, W \cap DOMAIN after) = Plus(after[day], SumOf(table, S \ {day}))
    BY <1>5, <2>1, <2>2
  <2>4. SumOf(table, S \ {day}) \in Counts
    BY <1>1, <1>3, SumTyped
  <2>5. CASE day \in DOMAIN table
    <3>1. SumOf(table, S) = Plus(table[day], SumOf(table, S \ {day}))
      BY <1>1, <1>3, <1>7, <2>5, SumAdds
    <3>2. table[day] \in Counts
      BY <1>1, <2>5
    <3>3. \A rest \in Counts :
            Plus(Plus(table[day], bytes), rest) = Plus(Plus(table[day], rest), bytes)
      BY <3>2 DEF Counts, Plus
    <3> QED BY <1>2, <1>4, <1>7, <2>3, <2>4, <2>5, <3>1, <3>3
  <2>6. CASE day \notin DOMAIN table
    <3>1. S \ {day} = S
      BY <2>6
    <3>2. Plus(bytes, SumOf(table, S)) = Plus(SumOf(table, S), bytes)
      BY <1>4, CountsAdd
    <3> QED BY <1>2, <1>4, <1>7, <2>3, <2>6, <3>1, <3>2
  <2> QED BY <2>5, <2>6
<1> QED BY <1>6, <1>7

(* The counted rows of some days, and their sum.                            *)
Counted(deltas, days) == {i \in DOMAIN deltas : deltas[i].counted /\ deltas[i].day \in days}

Amounts(deltas) == [i \in DOMAIN deltas |-> deltas[i].bytes]

LEMMA CountedOnIs ==
  ASSUME NEW t, NEW W
  PROVE  CountedOn(t, W) = SumOf(Amounts(t.deltas), Counted(t.deltas, W))
BY DEF CountedOn, Amounts, Counted

DeltaRows == [bytes : Counts, day : Nat, counted : BOOLEAN]

LEMMA CountedTyped ==
  ASSUME NEW n \in Nat, NEW deltas \in Partial(1 .. n, DeltaRows), NEW W
  PROVE  /\ IsFiniteSet(Counted(deltas, W))
         /\ \A i \in DOMAIN deltas : Amounts(deltas)[i] \in Counts
         /\ SumOf(Amounts(deltas), Counted(deltas, W)) \in Counts
<1>1. DOMAIN deltas \subseteq 1 .. n /\ \A i \in DOMAIN deltas : deltas[i] \in DeltaRows
  BY PartialIs
<1>2. Counted(deltas, W) \in SUBSET (1 .. n) /\ Counted(deltas, W) \subseteq DOMAIN deltas
  BY <1>1 DEF Counted
<1>3. \A i \in DOMAIN deltas : Amounts(deltas)[i] \in Counts
  BY <1>1 DEF Amounts, DeltaRows
<1>4. IsFiniteSet(Counted(deltas, W))
  BY <1>2, FiniteKeys
<1> QED BY <1>2, <1>3, <1>4, SumTyped

(* A tick adds its bytes to the days that include its own.                  *)
LEMMA CountedGrows ==
  ASSUME NEW n \in Nat, NEW deltas \in Partial(1 .. n, DeltaRows),
         NEW id \in 1 .. n, id \notin DOMAIN deltas, NEW delta \in DeltaRows, NEW W,
         NEW sum, NEW after,
         sum = SumOf(Amounts(deltas), Counted(deltas, W)),
         after = Put(deltas, id, delta)
  PROVE  SumOf(Amounts(after), Counted(after, W)) =
           IF delta.counted /\ delta.day \in W THEN Plus(sum, delta.bytes) ELSE sum
<1> DEFINE S == Counted(deltas, W)
<1>1. /\ DOMAIN after = DOMAIN deltas \cup {id}
      /\ after[id] = delta
      /\ \A x \in DOMAIN deltas : after[x] = deltas[x]
  BY DEF Put
<1>1a. after \in Partial(1 .. n, DeltaRows)
  BY PutIs
<1>2. /\ IsFiniteSet(S) /\ sum \in Counts
      /\ S \subseteq DOMAIN deltas /\ id \notin S
      /\ \A i \in DOMAIN deltas : Amounts(deltas)[i] \in Counts
  BY CountedTyped DEF Counted
<1>3. \A i \in S : Amounts(after)[i] = Amounts(deltas)[i]
  BY <1>1, <1>2 DEF Amounts
<1>4. SumOf(Amounts(after), S) = sum
  BY <1>2, <1>3, SumSame
<1>5. CASE ~(delta.counted /\ delta.day \in W)
  <2>1. Counted(after, W) = S
    BY <1>1, <1>5 DEF Counted
  <2> QED BY <1>4, <1>5, <2>1
<1>6. CASE delta.counted /\ delta.day \in W
  <2>1. Counted(after, W) = S \cup {id}
    BY <1>1, <1>6 DEF Counted
  <2>2. IsFiniteSet(Counted(after, W)) /\ \A i \in DOMAIN after : Amounts(after)[i] \in Counts
    BY <1>1a, CountedTyped
  <2>3. Amounts(after)[id] = delta.bytes /\ delta.bytes \in Counts
    BY <1>1 DEF Amounts, DeltaRows
  <2>4. (S \cup {id}) \ {id} = S /\ id \in S \cup {id} /\ S \cup {id} \subseteq DOMAIN after
    BY <1>1, <1>2
  <2> HIDE DEF S
  <2>5. SumOf(Amounts(after), S \cup {id}) =
          Plus(Amounts(after)[id], SumOf(Amounts(after), (S \cup {id}) \ {id}))
    BY <2>1, <2>2, <2>4, SumAdds
  <2>6. Plus(delta.bytes, sum) = Plus(sum, delta.bytes)
    BY <1>2, <2>3, CountsAdd
  <2> QED BY <1>4, <1>6, <2>1, <2>3, <2>4, <2>5, <2>6
<1> QED BY <1>5, <1>6

(* Rows of other days may go.                                               *)
LEMMA CountedStays ==
  ASSUME NEW n \in Nat, NEW deltas \in Partial(1 .. n, DeltaRows),
         NEW keep \in SUBSET DOMAIN deltas, NEW W,
         \A i \in DOMAIN deltas : deltas[i].day \in W => i \in keep
  PROVE  SumOf(Amounts(Restrict(deltas, keep)), Counted(Restrict(deltas, keep), W)) =
         SumOf(Amounts(deltas), Counted(deltas, W))
<1> DEFINE after == Restrict(deltas, keep)
<1>1. DOMAIN after = keep /\ \A i \in keep : after[i] = deltas[i]
  BY RestrictIs
<1> HIDE DEF after
<1>2. Counted(after, W) = Counted(deltas, W)
  BY <1>1 DEF Counted
<1>3. \A i \in Counted(deltas, W) : Amounts(after)[i] = Amounts(deltas)[i]
  BY <1>1 DEF Counted, Amounts
<1>4. IsFiniteSet(Counted(deltas, W))
  BY CountedTyped
<1>5. SumOf(Amounts(after), Counted(deltas, W)) = SumOf(Amounts(deltas), Counted(deltas, W))
  BY <1>3, <1>4, SumSame
<1> QED BY <1>2, <1>5 DEF after

-----------------------------------------------------------------------------
(* The tables of a scenario L                                               *)

Bounds == [day : Nat, uptime : Nat, relayed : Nat, ticks : Nat,
           restarts : Nat, losses : Nat, steps : BOOLEAN]

BytesOf(L) == [Directions -> 0 .. L.relayed]

RowsOf(L) == [seq : 1 .. L.ticks, uptime : 0 .. L.uptime, bytes : BytesOf(L),
              day : 1 .. L.day, epoch : 1 .. L.ticks]

DeltasOf(L) == [bytes : BytesOf(L), day : 1 .. L.day, counted : BOOLEAN]

Tables(L) == [snapshots   : Partial(1 .. L.ticks, RowsOf(L)),
              deltas      : Partial(1 .. L.ticks, DeltasOf(L)),
              epochs      : Seq({"open", "ended"}),
              hourly      : Partial(1 .. L.day, Counts),
              daily       : Partial(1 .. L.day, Counts),
              checkpoints : Partial(1 .. L.day, Counts)]

(* What the sums need to know of the tables.                                *)
LEMMA TablesTyped ==
  ASSUME NEW L \in Bounds, NEW t \in Tables(L)
  PROVE  /\ t.deltas \in Partial(1 .. L.ticks, DeltaRows)
         /\ \A i \in DOMAIN t.deltas : t.deltas[i].day \in Nat
         /\ DOMAIN t.daily \subseteq 1 .. L.day /\ DOMAIN t.daily \subseteq Nat
         /\ IsFiniteSet(DOMAIN t.daily)
         /\ \A d \in DOMAIN t.daily : t.daily[d] \in Counts
         /\ DOMAIN t.checkpoints \subseteq 1 .. L.day
         /\ \A c \in DOMAIN t.checkpoints : t.checkpoints[c] \in Counts
         /\ L.day \in Nat /\ L.ticks \in Nat
<1>1. L.day \in Nat /\ L.ticks \in Nat /\ L.relayed \in Nat
  BY DEF Bounds
<1>2. /\ t.deltas \in Partial(1 .. L.ticks, DeltasOf(L))
      /\ t.daily \in Partial(1 .. L.day, Counts)
      /\ t.checkpoints \in Partial(1 .. L.day, Counts)
  BY DEF Tables
<1>3. DeltasOf(L) \subseteq DeltaRows
  BY <1>1 DEF DeltasOf, DeltaRows, BytesOf, Counts
<1>4. t.deltas \in Partial(1 .. L.ticks, DeltaRows)
  BY <1>2, <1>3, PartialIs
<1>5. \A i \in DOMAIN t.deltas : t.deltas[i] \in DeltaRows
  BY <1>4, PartialIs
<1>6. DOMAIN t.daily \subseteq 1 .. L.day /\ \A d \in DOMAIN t.daily : t.daily[d] \in Counts
  BY <1>2, PartialHas
<1>7. /\ DOMAIN t.checkpoints \subseteq 1 .. L.day
      /\ \A c \in DOMAIN t.checkpoints : t.checkpoints[c] \in Counts
  BY <1>2, PartialHas
<1>8. IsFiniteSet(DOMAIN t.daily)
  BY <1>1, <1>6, FiniteKeys
<1>9. \A i \in DOMAIN t.deltas : t.deltas[i].day \in Nat
  BY <1>5 DEF DeltaRows
<1> QED BY <1>1, <1>4, <1>6, <1>7, <1>8, <1>9

LEMMA Greatest ==
  ASSUME NEW n \in Nat, NEW T \in SUBSET (1 .. n), T # {}
  PROVE  \E m \in T : \A x \in T : x <= m
<1> DEFINE Far == {n - x : x \in T}
<1>0. \A x \in T : x \in Nat /\ n - x \in Nat
  OBVIOUS
<1>1. Far \subseteq Nat /\ Far # {}
  BY <1>0
<1>2. PICK k \in Far : \A f \in Far : k <= f
  <2> HIDE DEF Far
  <2> QED BY <1>1, Least
<1>3. PICK m \in T : k = n - m
  BY <1>2
<1>4. \A x \in T : n - m <= n - x
  BY <1>2, <1>3
<1> QED BY <1>3, <1>4

(* The days no checkpoint covers, and the total of those that one does.     *)
After(t) == {d \in Nat : \A c \in DOMAIN t.checkpoints : c < d}

Base(t) ==
  IF DOMAIN t.checkpoints = {} THEN Zero ELSE t.checkpoints[LatestCheckpoint(t)]

LEMMA LatestCheckpointIs ==
  ASSUME NEW L \in Bounds, NEW t \in Tables(L), DOMAIN t.checkpoints # {}
  PROVE  /\ LatestCheckpoint(t) \in DOMAIN t.checkpoints
         /\ \A c \in DOMAIN t.checkpoints : c <= LatestCheckpoint(t)
         /\ LatestCheckpoint(t) \in Nat
<1>1. DOMAIN t.checkpoints \subseteq 1 .. L.day /\ L.day \in Nat
  BY TablesTyped
<1>2. \E m \in DOMAIN t.checkpoints : \A c \in DOMAIN t.checkpoints : c <= m
  BY <1>1, Greatest
<1> QED BY <1>1, <1>2 DEF LatestCheckpoint

LEMMA BaseTyped ==
  ASSUME NEW L \in Bounds, NEW t \in Tables(L)
  PROVE  Base(t) \in Counts /\ \A W : CountedOn(t, W) \in Counts
<1>1. Base(t) \in Counts
  BY LatestCheckpointIs, TablesTyped, CountsAdd DEF Base
<1>2. ASSUME NEW W PROVE CountedOn(t, W) \in Counts
  BY TablesTyped, CountedTyped, CountedOnIs
<1> QED BY <1>1, <1>2

LEMMA CountedSame ==
  ASSUME NEW t, NEW V, NEW W,
         \A i \in DOMAIN t.deltas : (t.deltas[i].day \in V) <=> (t.deltas[i].day \in W)
  PROVE  CountedOn(t, V) = CountedOn(t, W)
<1>1. Counted(t.deltas, V) = Counted(t.deltas, W)
  BY DEF Counted
<1> QED BY <1>1, CountedOnIs

LEMMA CountedSplits ==
  ASSUME NEW L \in Bounds, NEW t \in Tables(L), NEW V, NEW W, V \subseteq W
  PROVE  CountedOn(t, W) = Plus(CountedOn(t, V), CountedOn(t, W \ V))
<1> DEFINE S == Counted(t.deltas, W)
           A == Counted(t.deltas, V)
<1>1. A \in SUBSET S /\ S \ A = Counted(t.deltas, W \ V)
  BY DEF Counted
<1>2. IsFiniteSet(S) /\ \A i \in DOMAIN t.deltas : Amounts(t.deltas)[i] \in Counts
  BY TablesTyped, CountedTyped
<1>3. S \subseteq DOMAIN t.deltas
  BY DEF Counted
<1> HIDE DEF S, A
<1>4. SumOf(Amounts(t.deltas), S) =
        Plus(SumOf(Amounts(t.deltas), A), SumOf(Amounts(t.deltas), S \ A))
  BY <1>1, <1>2, <1>3, SumSplits
<1> QED BY <1>1, <1>4, CountedOnIs DEF S, A

(* The lifetime total: what is folded in, and what is counted since.        *)
LEMMA LifetimeIs ==
  ASSUME NEW L \in Bounds, NEW t \in Tables(L)
  PROVE  /\ ComputeLifetime(t) = Plus(Base(t), CountedOn(t, After(t)))
         /\ ComputeLifetime(t) \in Counts
<1>1. \A i \in DOMAIN t.deltas : t.deltas[i].day \in Nat /\ t.deltas[i].day \in DaysOf(t)
  BY TablesTyped DEF DaysOf
<1>2. Base(t) \in Counts /\ \A W : CountedOn(t, W) \in Counts
  BY BaseTyped
<1>3. CASE DOMAIN t.checkpoints = {}
  <2>1. CountedOn(t, DaysOf(t)) = CountedOn(t, After(t))
    BY <1>1, <1>3, CountedSame DEF After
  <2>2. Plus(Zero, CountedOn(t, After(t))) = CountedOn(t, After(t))
    BY <1>2, CountsAdd
  <2> QED BY <1>2, <1>3, <2>1, <2>2 DEF ComputeLifetime, Base
<1>4. CASE DOMAIN t.checkpoints # {}
  <2> DEFINE base == LatestCheckpoint(t)
  <2>1. base \in DOMAIN t.checkpoints /\ base \in Nat /\ \A c \in DOMAIN t.checkpoints : c <= base
    BY <1>4, LatestCheckpointIs
  <2>2. DOMAIN t.checkpoints \subseteq Nat
    BY TablesTyped
  <2> HIDE DEF base
  <2>3. \A d \in Nat : d \in After(t) <=> d > base
    BY <2>1, <2>2 DEF After
  <2>4. CountedOn(t, {d \in DaysOf(t) : d > base}) = CountedOn(t, After(t))
    BY <1>1, <2>3, CountedSame
  <2>5. Plus(Base(t), CountedOn(t, After(t))) \in Counts
    BY <1>2, CountsAdd
  <2> QED BY <1>4, <2>4, <2>5 DEF ComputeLifetime, Base, base
<1> QED BY <1>3, <1>4

(* The parts of LedgerIsConsistent, of any tables.                          *)
Cumulative(t) ==
  \A c \in DOMAIN t.checkpoints :
    t.checkpoints[c] = SumOf(t.daily, {d \in DOMAIN t.daily : d <= c})

(* Counted deltas and daily buckets of the days no checkpoint covers.       *)
Balanced(t) ==
  \A W \in SUBSET After(t) : CountedOn(t, W) = SumOf(t.daily, W \cap DOMAIN t.daily)

LEMMA BaseIsSum ==
  ASSUME NEW L \in Bounds, NEW t \in Tables(L), Cumulative(t)
  PROVE  Base(t) = SumOf(t.daily, DOMAIN t.daily \ After(t))
<1>1. DOMAIN t.daily \subseteq Nat /\ DOMAIN t.checkpoints \subseteq Nat
  BY TablesTyped
<1>2. CASE DOMAIN t.checkpoints = {}
  <2>1. DOMAIN t.daily \ After(t) = {}
    BY <1>1, <1>2 DEF After
  <2>2. SumOf(t.daily, {}) = Zero
    BY SumRecursion, FS_EmptySet
  <2> QED BY <1>2, <2>1, <2>2 DEF Base
<1>3. CASE DOMAIN t.checkpoints # {}
  <2> DEFINE base == LatestCheckpoint(t)
  <2>1. base \in DOMAIN t.checkpoints /\ base \in Nat /\ \A c \in DOMAIN t.checkpoints : c <= base
    BY <1>3, LatestCheckpointIs
  <2> HIDE DEF base
  <2>2. {d \in DOMAIN t.daily : d <= base} = DOMAIN t.daily \ After(t)
    BY <1>1, <2>1 DEF After
  <2> QED BY <1>3, <2>1, <2>2 DEF Base, base, Cumulative
<1> QED BY <1>2, <1>3

(* The two figures of the dashboard agree.                                  *)
LEMMA LifetimeIsDays ==
  ASSUME NEW L \in Bounds, NEW t \in Tables(L), Cumulative(t), Balanced(t)
  PROVE  ComputeLifetime(t) = SumOf(t.daily, DOMAIN t.daily)
<1> DEFINE D == DOMAIN t.daily
           A == D \ After(t)
<1>1. IsFiniteSet(D) /\ \A d \in D : t.daily[d] \in Counts
  BY TablesTyped
<1>2. CountedOn(t, After(t)) = SumOf(t.daily, After(t) \cap D)
  BY DEF Balanced
<1>3. A \in SUBSET D /\ D \ A = After(t) \cap D
  OBVIOUS
<1>4. Base(t) = SumOf(t.daily, A)
  BY BaseIsSum
<1> HIDE DEF A
<1>5. SumOf(t.daily, D) = Plus(SumOf(t.daily, A), SumOf(t.daily, D \ A))
  BY <1>1, <1>3, SumSplits
<1> QED BY <1>2, <1>3, <1>4, <1>5, LifetimeIs

-----------------------------------------------------------------------------
(* The transaction of a tick                                                *)

(* A checkpoint moves what it covers from the deltas to the base: no figure *)
(* changes.                                                                 *)
LEMMA CheckpointKeeps ==
  ASSUME NEW L \in Bounds, NEW t \in Tables(L), NEW today \in 1 .. L.day,
         NEW v, v = WriteDueCheckpoint(t, today)
  PROVE  /\ v \in Tables(L)
         /\ v.snapshots = t.snapshots /\ v.deltas = t.deltas /\ v.epochs = t.epochs
         /\ v.hourly = t.hourly /\ v.daily = t.daily
         /\ \A c \in DOMAIN v.checkpoints : c \in DOMAIN t.checkpoints \/ c = today - 1
         /\ ComputeLifetime(v) = ComputeLifetime(t)
         /\ Cumulative(t) /\ Balanced(t) => Cumulative(v) /\ Balanced(v)
<1> DEFINE y == today - 1
           New == {d \in Nat : d \in After(t) /\ d <= y}
           total == Plus(Base(t), CountedOn(t, New))
<1>1. CASE ~CheckpointDue(t, y)
  <2>1. v = t
    BY <1>1 DEF WriteDueCheckpoint
  <2> QED BY <2>1
<1>2. CASE CheckpointDue(t, y)
  <2>1. \A i \in DOMAIN t.deltas : t.deltas[i].day \in Nat /\ t.deltas[i].day \in DaysOf(t)
    BY TablesTyped DEF DaysOf
  <2>2. CountedOn(t, {d \in DaysOf(t) : (\A c \in DOMAIN t.checkpoints : c < d) /\ d <= y}) =
        CountedOn(t, New)
    BY <2>1, CountedSame DEF After
  <2>3. v = [t EXCEPT !.checkpoints = Put(@, y, total)]
    BY <1>2, <2>2 DEF WriteDueCheckpoint, Base
  <2>4. /\ DOMAIN t.checkpoints \subseteq Nat /\ L.day \in Nat
        /\ t.checkpoints \in Partial(1 .. L.day, Counts)
    BY TablesTyped DEF Tables
  <2>5. y \in 1 .. L.day /\ \A c \in DOMAIN t.checkpoints : c < y
    <3>1. PICK i \in DOMAIN t.deltas : t.deltas[i].day <= y
      BY <1>2 DEF CheckpointDue
    <3>2. t.deltas[i] \in DeltasOf(L)
      <4>1. t.deltas \in Partial(1 .. L.ticks, DeltasOf(L))
        BY DEF Tables
      <4> QED BY <4>1, PartialHas
    <3>3. t.deltas[i].day \in 1 .. L.day
      BY <3>2 DEF DeltasOf
    <3> QED BY <1>2, <2>4, <3>1, <3>3 DEF CheckpointDue
  <2>6. Base(t) \in Counts /\ \A W : CountedOn(t, W) \in Counts
    BY BaseTyped
  <2>7. total \in Counts
    BY <2>6, CountsAdd
  <2> HIDE DEF total
  <2>8. Put(t.checkpoints, y, total) \in Partial(1 .. L.day, Counts)
    BY <2>4, <2>5, <2>7, PutIs
  <2>9. /\ DOMAIN Put(t.checkpoints, y, total) = DOMAIN t.checkpoints \cup {y}
        /\ Put(t.checkpoints, y, total)[y] = total
        /\ \A c \in DOMAIN t.checkpoints : Put(t.checkpoints, y, total)[c] = t.checkpoints[c]
    BY <2>5 DEF Put
  <2>10. /\ v \in Tables(L)
         /\ v.snapshots = t.snapshots /\ v.deltas = t.deltas /\ v.epochs = t.epochs
         /\ v.hourly = t.hourly /\ v.daily = t.daily
         /\ v.checkpoints = Put(t.checkpoints, y, total)
    BY <2>3, <2>8 DEF Tables
  <2> HIDE DEF y
  <2>11. After(v) = {d \in Nat : y < d} /\ After(v) = After(t) \ New /\ New \subseteq After(t)
    BY <2>4, <2>5, <2>9, <2>10 DEF After
  <2>12. \A W : CountedOn(v, W) = CountedOn(t, W)
    BY <2>10 DEF CountedOn
  <2>13. Base(v) = total
    <3>1. DOMAIN v.checkpoints # {} /\ \A c \in DOMAIN v.checkpoints : c <= y
      BY <2>4, <2>5, <2>9, <2>10
    <3>2. LatestCheckpoint(v) \in DOMAIN v.checkpoints /\ y <= LatestCheckpoint(v)
      BY <2>9, <2>10, <3>1, LatestCheckpointIs
    <3>3. LatestCheckpoint(v) = y
      BY <2>4, <2>5, <2>9, <2>10, <3>1, <3>2
    <3> QED BY <2>9, <2>10, <3>1, <3>3 DEF Base
  <2>14. ComputeLifetime(v) = ComputeLifetime(t)
    <3>1. CountedOn(t, After(t)) = Plus(CountedOn(t, New), CountedOn(t, After(t) \ New))
      BY <2>11, CountedSplits
    <3>2. ComputeLifetime(v) = Plus(total, CountedOn(t, After(t) \ New))
      BY <2>10, <2>11, <2>12, <2>13, LifetimeIs
    <3>3. ComputeLifetime(t) =
            Plus(Base(t), Plus(CountedOn(t, New), CountedOn(t, After(t) \ New)))
      BY <3>1, LifetimeIs
    <3> QED BY <2>6, <3>2, <3>3, Associative DEF total
  <2>15. ASSUME Cumulative(t), Balanced(t)
         PROVE  Cumulative(v) /\ Balanced(v)
    <3>1. Balanced(v)
      BY <2>10, <2>11, <2>12, <2>15 DEF Balanced
    <3> DEFINE D == {d \in DOMAIN t.daily : d <= y}
               old == DOMAIN t.daily \ After(t)
    <3>2. total = SumOf(t.daily, D)
      <4>1. Base(t) = SumOf(t.daily, old)
        BY <2>15, BaseIsSum
      <4>2. CountedOn(t, New) = SumOf(t.daily, New \cap DOMAIN t.daily)
        BY <2>11, <2>15 DEF Balanced
      <4>3. DOMAIN t.daily \subseteq Nat
        BY TablesTyped
      <4>4. old \in SUBSET D /\ D \ old = New \cap DOMAIN t.daily
        BY <2>4, <2>5, <4>3 DEF After
      <4>5. IsFiniteSet(D) /\ \A d \in D : t.daily[d] \in Counts
        BY TablesTyped, FS_Subset
      <4> HIDE DEF D, old
      <4>6. SumOf(t.daily, D) = Plus(SumOf(t.daily, old), SumOf(t.daily, D \ old))
        BY <4>4, <4>5, SumSplits
      <4> QED BY <4>1, <4>2, <4>4, <4>6 DEF total
    <3>3. Cumulative(v)
      BY <2>9, <2>10, <2>15, <3>2 DEF Cumulative
    <3> QED BY <3>1, <3>3
  <2> QED BY <2>9, <2>10, <2>14, <2>15 DEF y
<1> QED BY <1>1, <1>2

(* What the rows and the rollups of a tick do to the sums.                  *)
LEMMA RollupGrows ==
  ASSUME NEW L \in Bounds, NEW t \in Tables(L), NEW u \in Tables(L),
         NEW id \in 1 .. L.ticks, id \notin DOMAIN t.deltas, NEW delta \in DeltasOf(L),
         u.deltas = Put(t.deltas, id, delta),
         u.daily = IF delta.counted THEN AddTo(t.daily, delta.day, delta.bytes) ELSE t.daily,
         u.checkpoints = t.checkpoints
  PROVE  /\ ComputeLifetime(u) =
              IF delta.counted /\ delta.day \in After(t)
              THEN Plus(ComputeLifetime(t), delta.bytes) ELSE ComputeLifetime(t)
         /\ delta.day \in After(t) /\ Cumulative(t) /\ Balanced(t) =>
              Cumulative(u) /\ Balanced(u)
<1>1. L.day \in Nat /\ L.ticks \in Nat /\ t.deltas \in Partial(1 .. L.ticks, DeltaRows)
  BY TablesTyped
<1>2. delta \in DeltaRows /\ delta.bytes \in Counts /\ delta.day \in 1 .. L.day /\ delta.day \in Nat
  BY <1>1 DEF Bounds, DeltasOf, DeltaRows, BytesOf, Counts
<1>3. After(u) = After(t) /\ Base(u) = Base(t)
  BY DEF After, Base, LatestCheckpoint
<1>4. ASSUME NEW W
      PROVE  CountedOn(u, W) = IF delta.counted /\ delta.day \in W
                               THEN Plus(CountedOn(t, W), delta.bytes) ELSE CountedOn(t, W)
  BY <1>1, <1>2, CountedOnIs, CountedGrows
<1>5. ASSUME NEW W
      PROVE  SumOf(u.daily, W \cap DOMAIN u.daily) =
               IF delta.counted /\ delta.day \in W
               THEN Plus(SumOf(t.daily, W \cap DOMAIN t.daily), delta.bytes)
               ELSE SumOf(t.daily, W \cap DOMAIN t.daily)
  <2>1. t.daily \in Partial(1 .. L.day, Counts)
    BY DEF Tables
  <2>2. CASE delta.counted
    <3>1. u.daily = AddTo(t.daily, delta.day, delta.bytes)
      BY <2>2
    <3> QED BY <1>1, <1>2, <2>1, <2>2, <3>1, AddToSums
  <2>3. CASE ~delta.counted
    BY <2>3
  <2> QED BY <2>2, <2>3
<1>6. Base(t) \in Counts /\ \A W : CountedOn(t, W) \in Counts
  BY BaseTyped
<1>7. ComputeLifetime(t) = Plus(Base(t), CountedOn(t, After(t)))
  BY LifetimeIs
<1>8. ComputeLifetime(u) = Plus(Base(t), CountedOn(u, After(t)))
  BY <1>3, LifetimeIs
<1> DEFINE since == CountedOn(t, After(t))
<1>9. CountedOn(u, After(t)) = IF delta.counted /\ delta.day \in After(t)
                               THEN Plus(since, delta.bytes) ELSE since
  BY <1>4
<1>10. ComputeLifetime(u) = IF delta.counted /\ delta.day \in After(t)
                            THEN Plus(ComputeLifetime(t), delta.bytes) ELSE ComputeLifetime(t)
  <2>1. Base(t) \in Counts /\ since \in Counts
    BY <1>6
  <2> HIDE DEF since
  <2>2. Plus(Base(t), Plus(since, delta.bytes)) = Plus(Plus(Base(t), since), delta.bytes)
    BY <1>2, <2>1, Associative
  <2>3. ComputeLifetime(t) = Plus(Base(t), since)
    BY <1>7 DEF since
  <2>4. CASE delta.counted /\ delta.day \in After(t)
    BY <1>8, <1>9, <2>2, <2>3, <2>4
  <2>5. CASE ~(delta.counted /\ delta.day \in After(t))
    BY <1>8, <1>9, <2>3, <2>5
  <2> QED BY <2>4, <2>5
<1>11. ASSUME delta.day \in After(t), Cumulative(t), Balanced(t)
       PROVE  Cumulative(u) /\ Balanced(u)
  <2>1. Balanced(u)
    <3> SUFFICES ASSUME NEW W \in SUBSET After(t)
                 PROVE  CountedOn(u, W) = SumOf(u.daily, W \cap DOMAIN u.daily)
      BY <1>3 DEF Balanced
    <3>1. CountedOn(t, W) = SumOf(t.daily, W \cap DOMAIN t.daily)
      BY <1>11 DEF Balanced
    <3> QED BY <1>4, <1>5, <3>1
  <2>2. ASSUME NEW c \in DOMAIN t.checkpoints
        PROVE  t.checkpoints[c] = SumOf(u.daily, {d \in DOMAIN u.daily : d <= c})
    <3> DEFINE W == {d \in Nat : d <= c}
    <3>1. DOMAIN t.daily \subseteq Nat /\ DOMAIN u.daily \subseteq Nat
      BY TablesTyped
    <3>2. /\ {d \in DOMAIN u.daily : d <= c} = W \cap DOMAIN u.daily
          /\ {d \in DOMAIN t.daily : d <= c} = W \cap DOMAIN t.daily
      BY <3>1
    <3>3. DOMAIN t.checkpoints \subseteq 1 .. L.day
      BY TablesTyped
    <3>4. delta.day \notin W
      BY <1>1, <1>2, <1>11, <3>3 DEF After
    <3> HIDE DEF W
    <3> QED BY <1>5, <1>11, <3>2, <3>4 DEF Cumulative
  <2> QED BY <2>1, <2>2 DEF Cumulative
<1> QED BY <1>10, <1>11

-----------------------------------------------------------------------------
(* The rows of tables that n ticks were committed to.                       *)
Shape(t, n) ==
  /\ DOMAIN t.snapshots \subseteq 1 .. n
  /\ DOMAIN t.deltas \subseteq 1 .. n
  /\ \A i \in DOMAIN t.snapshots : t.snapshots[i].seq = i
  /\ n = 0 => t = EmptyTables
  /\ n > 0 =>
       /\ n \in DOMAIN t.snapshots
       /\ Len(t.epochs) \in 1 .. n
       /\ t.snapshots[n].epoch = Len(t.epochs)
       /\ \A e \in 1 .. Len(t.epochs) : t.epochs[e] = "open" <=> e = Len(t.epochs)

LEMMA EmptyIs ==
  ASSUME NEW L \in Bounds
  PROVE  /\ EmptyTables \in Tables(L) /\ Shape(EmptyTables, 0)
         /\ Cumulative(EmptyTables) /\ Balanced(EmptyTables)
         /\ ComputeLifetime(EmptyTables) = Zero
<1>0. <<>> = [x \in {} |-> Zero] /\ DOMAIN <<>> = {}
  OBVIOUS
<1>1. \A A, B : <<>> \in Partial(A, B)
  <2> SUFFICES ASSUME NEW A, NEW B PROVE <<>> \in Partial(A, B)
    OBVIOUS
  <2>1. [x \in {} |-> Zero] \in [{} -> B]
    OBVIOUS
  <2>2. {} \in SUBSET A
    OBVIOUS
  <2>3. [x \in {} |-> Zero] \in Partial(A, B)
    BY <2>1, <2>2 DEF Partial
  <2> QED BY <1>0, <2>3
<1>2. <<>> \in Seq({"open", "ended"})
  OBVIOUS
<1>3. EmptyTables \in Tables(L)
  BY <1>1, <1>2 DEF EmptyTables, Tables
<1>4. \A W : Counted(<<>>, W) = {}
  BY DEF Counted
<1>5. \A f : SumOf(f, {}) = Zero
  BY SumRecursion, FS_EmptySet
<1>6. \A W : CountedOn(EmptyTables, W) = Zero
  BY <1>4, <1>5, CountedOnIs DEF EmptyTables
<1>7. Balanced(EmptyTables)
  <2>1. \A W : W \cap DOMAIN EmptyTables.daily = {}
    BY DEF EmptyTables
  <2> QED BY <1>5, <1>6, <2>1 DEF Balanced
<1>8. ComputeLifetime(EmptyTables) = Zero
  <2>1. DOMAIN EmptyTables.checkpoints = {}
    BY DEF EmptyTables
  <2> QED BY <1>6, <2>1 DEF ComputeLifetime
<1>9. Shape(EmptyTables, 0) /\ Cumulative(EmptyTables)
  BY DEF Shape, Cumulative, EmptyTables
<1> QED BY <1>3, <1>7, <1>8, <1>9

LEMMA NewestIs ==
  ASSUME NEW L \in Bounds, NEW t \in Tables(L), NEW n \in Nat, Shape(t, n)
  PROVE  /\ DOMAIN t.snapshots = {} <=> n = 0
         /\ NextId(t) = n + 1
         /\ n = 0 => LatestSnapshot(t) = None /\ ActiveEpoch(t) = None
         /\ n > 0 => /\ LatestSnapshot(t) = t.snapshots[n]
                     /\ t.snapshots[n] \in RowsOf(L) /\ t.snapshots[n].seq = n
                     /\ OpenEpochs(t) = {Len(t.epochs)}
                     /\ ActiveEpoch(t) = Len(t.epochs)
                     /\ ActiveEpoch(t) \in 1 .. n
<1>1. t.snapshots \in Partial(1 .. L.ticks, RowsOf(L)) /\ t.epochs \in Seq({"open", "ended"})
  BY DEF Tables
<1>2. \A i \in DOMAIN t.snapshots : t.snapshots[i] \in RowsOf(L)
  BY <1>1, PartialHas
<1>3. CASE n = 0
  <2>1. DOMAIN t.snapshots = {} /\ t.epochs = <<>>
    BY <1>3 DEF Shape, EmptyTables
  <2>2. NextId(t) = 1
    BY <2>1 DEF NextId, Max
  <2>3. OpenEpochs(t) = {}
    BY <2>1 DEF OpenEpochs
  <2> QED BY <1>3, <2>1, <2>2, <2>3 DEF LatestSnapshot, ActiveEpoch
<1>4. CASE n > 0
  <2>1. /\ n \in DOMAIN t.snapshots /\ DOMAIN t.snapshots \subseteq 1 .. n
        /\ \A i \in DOMAIN t.snapshots : t.snapshots[i].seq = i
        /\ Len(t.epochs) \in 1 .. n
        /\ \A e \in 1 .. Len(t.epochs) : t.epochs[e] = "open" <=> e = Len(t.epochs)
    BY <1>4 DEF Shape
  <2>2. NextId(t) = n + 1
    <3> DEFINE ids == {0} \cup DOMAIN t.snapshots
    <3>1. n \in ids /\ \A i \in ids : i <= n /\ i \in Nat
      BY <2>1
    <3> HIDE DEF ids
    <3>2. \A x \in ids : (\A y \in ids : x >= y) <=> x = n
      BY <3>1
    <3>3. Max(ids) = n
      BY Zenon, <3>1, <3>2 DEF Max
    <3> QED BY <3>3 DEF NextId, ids
  <2>3. LatestSnapshot(t) = t.snapshots[n]
    <3> DEFINE Best(i) == \A j \in DOMAIN t.snapshots :
                    \/ t.snapshots[j].seq < t.snapshots[i].seq
                    \/ t.snapshots[j].seq = t.snapshots[i].seq /\ j <= i
    <3>1. \A i \in DOMAIN t.snapshots : Best(i) <=> i = n
      BY <2>1
    <3> HIDE DEF Best
    <3>2. (CHOOSE i \in DOMAIN t.snapshots : Best(i)) = n
      BY <2>1, <3>1
    <3> QED BY <2>1, <3>2 DEF LatestSnapshot, Best
  <2>4. OpenEpochs(t) = {Len(t.epochs)}
    BY <1>1, <2>1 DEF OpenEpochs
  <2>5. ActiveEpoch(t) = Len(t.epochs)
    BY <2>1, <2>4 DEF ActiveEpoch
  <2> QED BY <1>2, <1>4, <2>1, <2>2, <2>3, <2>4, <2>5
<1> QED BY <1>3, <1>4

(* A decision that fits the newest row.                                     *)
Fits(decision, n, L) ==
  /\ decision.snapshot \in [seq : {n + 1}, uptime : 0 .. L.uptime, bytes : BytesOf(L),
                            day : 1 .. L.day]
  /\ decision.delta \in DeltasOf(L)
  /\ decision.newEpoch \in BOOLEAN /\ decision.endsPrevious \in BOOLEAN
  /\ n > 0 /\ decision.newEpoch = TRUE => decision.endsPrevious = TRUE
  /\ n = 0 => decision.newEpoch = TRUE

LEMMA PersistKeeps ==
  ASSUME NEW L \in Bounds, NEW t \in Tables(L), NEW n \in Nat, Shape(t, n), n + 1 <= L.ticks,
         NEW decision, Fits(decision, n, L),
         NEW epoch, epoch = ActiveEpoch(t),
         NEW u, u = PersistTick(t, decision, epoch),
         NEW next, next = EpochOf(t, decision, epoch)
  PROVE  /\ u \in Tables(L)
         /\ u.snapshots = Put(t.snapshots, n + 1, RowOf(decision.snapshot, next))
         /\ u.deltas = Put(t.deltas, n + 1, decision.delta)
         /\ u.hourly = t.hourly /\ u.daily = t.daily /\ u.checkpoints = t.checkpoints
         /\ Shape(u, n + 1)
         /\ u.snapshots[n + 1] = RowOf(decision.snapshot, next)
<1> DEFINE row == RowOf(decision.snapshot, next)
           ended == IF decision.endsPrevious THEN EndEpoch(t.epochs, epoch) ELSE t.epochs
           opened == IF decision.newEpoch THEN Append(ended, "open") ELSE t.epochs
<1>0. L.ticks \in Nat /\ n + 1 \in 1 .. L.ticks
  BY DEF Bounds
<1>1. /\ t.snapshots \in Partial(1 .. L.ticks, RowsOf(L))
      /\ t.deltas \in Partial(1 .. L.ticks, DeltasOf(L))
      /\ t.epochs \in Seq({"open", "ended"})
  BY DEF Tables
<1>2. NextId(t) = n + 1
  BY NewestIs
<1>3. u = [t EXCEPT !.epochs = opened, !.snapshots = Put(@, n + 1, row),
                    !.deltas = Put(@, n + 1, decision.delta)]
  BY <1>2 DEF PersistTick
<1>4. /\ opened \in Seq({"open", "ended"})
      /\ next = Len(opened) /\ Len(opened) \in 1 .. n + 1
      /\ \A e \in 1 .. Len(opened) : opened[e] = "open" <=> e = Len(opened)
  <2>1. CASE n = 0
    <3>1. t.epochs = <<>> /\ epoch = None
      BY <2>1, NewestIs DEF Shape, EmptyTables
    <3>2. opened = Append(<<>>, "open") /\ next = 1
      BY <2>1, <3>1 DEF Fits, EndEpoch, EpochOf
    <3>3. opened = <<"open">>
      BY <3>2
    <3> HIDE DEF opened
    <3> QED BY <2>1, <3>2, <3>3
  <2>2. CASE n > 0
    <3>1. /\ epoch = Len(t.epochs) /\ Len(t.epochs) \in 1 .. n
          /\ \A e \in 1 .. Len(t.epochs) : t.epochs[e] = "open" <=> e = Len(t.epochs)
      BY <2>2, NewestIs DEF Shape
    <3>2. CASE ~decision.newEpoch
      BY <1>1, <3>1, <3>2 DEF EpochOf
    <3>3. CASE decision.newEpoch
      <4>1. epoch # None
        BY <3>1, LedgerConstants
      <4>2. ended = [t.epochs EXCEPT ![epoch] = "ended"]
        BY <2>2, <3>3, <4>1 DEF Fits, EndEpoch
      <4>3. /\ ended \in Seq({"open", "ended"}) /\ Len(ended) = Len(t.epochs)
            /\ \A e \in 1 .. Len(t.epochs) : ended[e] # "open"
        BY <1>1, <3>1, <4>2
      <4>4. opened = Append(ended, "open") /\ next = Len(t.epochs) + 1
        BY <3>3 DEF EpochOf
      <4> HIDE DEF ended, opened
      <4> QED BY <3>1, <4>3, <4>4
    <3> QED BY <3>2, <3>3
  <2> QED BY <2>1, <2>2
<1> HIDE DEF opened
<1>5. row \in RowsOf(L)
  <2>1. next \in 1 .. L.ticks
    BY <1>0, <1>4
  <2> QED BY <1>0, <2>1 DEF RowOf, RowsOf, Fits
<1>6. row.seq = n + 1 /\ row.epoch = next
  BY DEF RowOf, Fits
<1> HIDE DEF row
<1>7. /\ Put(t.snapshots, n + 1, row) \in Partial(1 .. L.ticks, RowsOf(L))
      /\ Put(t.deltas, n + 1, decision.delta) \in Partial(1 .. L.ticks, DeltasOf(L))
  BY <1>0, <1>1, <1>5, PutIs DEF Fits
<1>8. /\ u \in Tables(L)
      /\ u.snapshots = Put(t.snapshots, n + 1, row)
      /\ u.deltas = Put(t.deltas, n + 1, decision.delta)
      /\ u.epochs = opened
      /\ u.hourly = t.hourly /\ u.daily = t.daily /\ u.checkpoints = t.checkpoints
  BY <1>3, <1>4, <1>7 DEF Tables
<1>9. /\ DOMAIN u.snapshots = DOMAIN t.snapshots \cup {n + 1}
      /\ DOMAIN u.deltas = DOMAIN t.deltas \cup {n + 1}
      /\ u.snapshots[n + 1] = row
      /\ \A i \in DOMAIN t.snapshots : i # n + 1 => u.snapshots[i] = t.snapshots[i]
  BY <1>8 DEF Put
<1>10. Shape(u, n + 1)
  <2>1. DOMAIN t.snapshots \subseteq 1 .. n /\ DOMAIN t.deltas \subseteq 1 .. n
    BY DEF Shape
  <2>2. \A i \in DOMAIN t.snapshots : t.snapshots[i].seq = i
    BY DEF Shape
  <2>3. \A i \in DOMAIN u.snapshots : u.snapshots[i].seq = i
    BY <1>6, <1>9, <2>1, <2>2
  <2> QED BY <1>4, <1>6, <1>8, <1>9, <2>1, <2>3 DEF Shape
<1> QED BY <1>8, <1>9, <1>10 DEF row

(* The hour buckets and the daily ones, and the dates of the rows.          *)
Hours(t) ==
  \A d \in DOMAIN t.hourly \cup DOMAIN t.daily :
    IF d \in DOMAIN t.hourly
    THEN d \in DOMAIN t.daily /\ t.hourly[d] = t.daily[d]
    ELSE d < LatestSnapshot(t).day - HourlyDays

(* The figures of the tables agree; and nothing in them is of a day to      *)
(* come, nor any checkpoint of today or later.                              *)
Settled(t) == Cumulative(t) /\ Balanced(t) /\ Hours(t)

DatedBy(t, today) ==
  /\ \A i \in DOMAIN t.snapshots : t.snapshots[i].day <= today
  /\ \A d \in DOMAIN t.daily : d <= today
  /\ \A c \in DOMAIN t.checkpoints : c < today

LEMMA UpsertKeeps ==
  ASSUME NEW L \in Bounds, NEW t \in Tables(L), NEW day \in 1 .. L.day, NEW bytes \in Counts,
         NEW u, u = UpsertRollups(t, day, bytes)
  PROVE  /\ u \in Tables(L)
         /\ u.snapshots = t.snapshots /\ u.deltas = t.deltas /\ u.epochs = t.epochs
         /\ u.checkpoints = t.checkpoints
         /\ u.daily = AddTo(t.daily, day, bytes)
         /\ u.hourly = AddTo(t.hourly, day, bytes)
<1>1. L.day \in Nat
  BY DEF Bounds
<1>2. t.daily \in Partial(1 .. L.day, Counts) /\ t.hourly \in Partial(1 .. L.day, Counts)
  BY DEF Tables
<1>3. /\ AddTo(t.daily, day, bytes) \in Partial(1 .. L.day, Counts)
      /\ AddTo(t.hourly, day, bytes) \in Partial(1 .. L.day, Counts)
  BY <1>1, <1>2, AddToIs
<1> QED BY <1>3 DEF UpsertRollups, Tables

LEMMA HoursGrow ==
  ASSUME NEW L \in Bounds, NEW t \in Tables(L), NEW n \in Nat, Shape(t, n),
         NEW today \in 1 .. L.day, NEW bytes \in Counts, NEW counted \in BOOLEAN,
         DatedBy(t, today), Hours(t),
         NEW u, LatestSnapshot(u).day = today,
         u.daily = IF counted THEN AddTo(t.daily, today, bytes) ELSE t.daily,
         u.hourly = IF counted THEN AddTo(t.hourly, today, bytes) ELSE t.hourly
  PROVE  Hours(u)
<1>1. /\ DOMAIN t.daily \subseteq 1 .. L.day /\ DOMAIN t.hourly \subseteq 1 .. L.day
      /\ HourlyDays \in Nat /\ L.day \in Nat
  <2>1. t.daily \in Partial(1 .. L.day, Counts) /\ t.hourly \in Partial(1 .. L.day, Counts)
    BY DEF Tables
  <2>2. DOMAIN t.daily \subseteq 1 .. L.day
    BY <2>1, PartialHas
  <2>3. DOMAIN t.hourly \subseteq 1 .. L.day
    BY <2>1, PartialHas
  <2> QED BY <2>2, <2>3, LedgerConstants DEF Bounds
<1>2. ASSUME NEW d \in DOMAIN t.hourly \cup DOMAIN t.daily
      PROVE  IF d \in DOMAIN t.hourly
             THEN d \in DOMAIN t.daily /\ t.hourly[d] = t.daily[d]
             ELSE d < today - HourlyDays
  <2>1. CASE n = 0
    <3>1. DOMAIN t.hourly = {} /\ DOMAIN t.daily = {}
      BY <2>1 DEF Shape, EmptyTables
    <3> QED BY <3>1
  <2>2. CASE n > 0
    <3>1. LatestSnapshot(t) = t.snapshots[n] /\ n \in DOMAIN t.snapshots
      BY <2>2, NewestIs DEF Shape
    <3>2. t.snapshots[n] \in RowsOf(L)
      BY <2>2, NewestIs
    <3>3. t.snapshots[n].day <= today /\ t.snapshots[n].day \in Nat
      BY <1>1, <3>1, <3>2 DEF DatedBy, RowsOf
    <3> QED BY <1>1, <3>1, <3>3 DEF Hours
  <2> QED BY <2>1, <2>2
<1>3. CASE ~counted
  BY <1>2, <1>3 DEF Hours
<1>4. CASE counted
  <2>1. /\ DOMAIN u.daily = DOMAIN t.daily \cup {today}
        /\ DOMAIN u.hourly = DOMAIN t.hourly \cup {today}
        /\ u.daily[today] = IF today \in DOMAIN t.daily THEN Plus(t.daily[today], bytes) ELSE bytes
        /\ u.hourly[today] = IF today \in DOMAIN t.hourly THEN Plus(t.hourly[today], bytes) ELSE bytes
        /\ \A d \in DOMAIN t.daily : d # today => u.daily[d] = t.daily[d]
        /\ \A d \in DOMAIN t.hourly : d # today => u.hourly[d] = t.hourly[d]
    BY <1>4 DEF AddTo, Put
  <2>2. u.hourly[today] = u.daily[today]
    <3>1. today \in DOMAIN t.daily => today \in DOMAIN t.hourly
      BY <1>1, <1>2
    <3> QED BY <1>2, <2>1, <3>1
  <2> SUFFICES ASSUME NEW d \in DOMAIN u.hourly \cup DOMAIN u.daily
               PROVE  IF d \in DOMAIN u.hourly
                      THEN d \in DOMAIN u.daily /\ u.hourly[d] = u.daily[d]
                      ELSE d < today - HourlyDays
    BY DEF Hours
  <2>3. CASE d = today
    BY <2>1, <2>2, <2>3
  <2>4. CASE d # today
    BY <1>2, <2>1, <2>4
  <2> QED BY <2>3, <2>4
<1> QED BY <1>3, <1>4

LEMMA TickKeeps ==
  ASSUME NEW L \in Bounds, NEW t \in Tables(L), NEW n \in Nat, Shape(t, n), n + 1 <= L.ticks,
         NEW today \in 1 .. L.day,
         NEW decision, Fits(decision, n, L),
         decision.snapshot.day = today, decision.delta.day = today,
         NEW epoch, epoch = ActiveEpoch(t),
         NEW u, u = Tick(t, decision, epoch, today),
         NEW row, row = RowOf(decision.snapshot, EpochOf(t, decision, epoch))
  PROVE  /\ u \in Tables(L)
         /\ Shape(u, n + 1)
         /\ LatestSnapshot(u) = row
         /\ ActiveEpoch(u) = EpochOf(t, decision, epoch)
         /\ ComputeLifetime(u) = IF decision.delta.counted /\ today \in After(t)
                                 THEN Plus(ComputeLifetime(t), decision.delta.bytes)
                                 ELSE ComputeLifetime(t)
         /\ DatedBy(t, today) => DatedBy(u, today)
         /\ DatedBy(t, today) /\ Settled(t) => Settled(u)
<1> DEFINE delta == decision.delta
           p == PersistTick(t, decision, epoch)
           m == IF delta.counted THEN UpsertRollups(p, delta.day, delta.bytes) ELSE p
<1>0. /\ L.ticks \in Nat /\ n + 1 \in 1 .. L.ticks /\ n + 1 \in Nat /\ n + 1 > 0
      /\ delta \in DeltasOf(L) /\ delta.bytes \in Counts /\ delta.counted \in BOOLEAN
  BY DEF Fits, Bounds, DeltasOf, BytesOf, Counts
<1>1. /\ p \in Tables(L) /\ Shape(p, n + 1)
      /\ p.snapshots = Put(t.snapshots, n + 1, row) /\ p.snapshots[n + 1] = row
      /\ p.deltas = Put(t.deltas, n + 1, delta)
      /\ p.hourly = t.hourly /\ p.daily = t.daily /\ p.checkpoints = t.checkpoints
  BY PersistKeeps
<1>2. u = WriteDueCheckpoint(m, today)
  BY DEF Tick, ApplyTick
<1> HIDE DEF delta, p
<1>3. /\ m \in Tables(L)
      /\ m.snapshots = p.snapshots /\ m.deltas = p.deltas /\ m.epochs = p.epochs
      /\ m.checkpoints = t.checkpoints
      /\ m.daily = IF delta.counted THEN AddTo(t.daily, today, delta.bytes) ELSE t.daily
      /\ m.hourly = IF delta.counted THEN AddTo(t.hourly, today, delta.bytes) ELSE t.hourly
  <2>1. delta.day = today
    BY DEF delta
  <2>2. CASE delta.counted
    <3>1. m = UpsertRollups(p, today, delta.bytes)
      BY <2>1, <2>2
    <3> HIDE DEF m
    <3> QED BY <1>0, <1>1, <2>2, <3>1, UpsertKeeps
  <2>3. CASE ~delta.counted
    BY <1>1, <2>3
  <2> QED BY <1>0, <2>2, <2>3
<1> HIDE DEF m
<1>4. /\ u \in Tables(L)
      /\ u.snapshots = p.snapshots /\ u.deltas = p.deltas /\ u.epochs = p.epochs
      /\ u.hourly = m.hourly /\ u.daily = m.daily
      /\ \A c \in DOMAIN u.checkpoints : c \in DOMAIN t.checkpoints \/ c = today - 1
      /\ ComputeLifetime(u) = ComputeLifetime(m)
      /\ Cumulative(m) /\ Balanced(m) => Cumulative(u) /\ Balanced(u)
  BY <1>2, <1>3, CheckpointKeeps
<1>5. Shape(u, n + 1)
  BY <1>0, <1>1, <1>4 DEF Shape
<1>6. LatestSnapshot(u) = row /\ ActiveEpoch(u) = EpochOf(t, decision, epoch)
  <2>1. LatestSnapshot(u) = row /\ ActiveEpoch(u) = Len(u.epochs)
    BY <1>0, <1>1, <1>4, <1>5, NewestIs
  <2>2. row.epoch = Len(u.epochs)
    BY <1>0, <1>1, <1>4, <1>5 DEF Shape
  <2> QED BY <2>1, <2>2 DEF RowOf
<1>7. /\ ComputeLifetime(m) = IF delta.counted /\ today \in After(t)
                              THEN Plus(ComputeLifetime(t), delta.bytes) ELSE ComputeLifetime(t)
      /\ today \in After(t) /\ Cumulative(t) /\ Balanced(t) => Cumulative(m) /\ Balanced(m)
  <2>1. n + 1 \notin DOMAIN t.deltas
    BY DEF Shape
  <2>2. delta.day = today
    BY DEF delta
  <2> QED BY <1>0, <1>1, <1>3, <2>1, <2>2, RollupGrows
<1>8. today \in Nat /\ (DatedBy(t, today) => today \in After(t))
  BY DEF Bounds, DatedBy, After
<1>9. ASSUME DatedBy(t, today)
      PROVE  DatedBy(u, today)
  <2>1. \A i \in DOMAIN u.snapshots : u.snapshots[i].day <= today
    <3>1. /\ DOMAIN u.snapshots = DOMAIN t.snapshots \cup {n + 1} /\ u.snapshots[n + 1] = row
          /\ \A i \in DOMAIN t.snapshots : i # n + 1 => u.snapshots[i] = t.snapshots[i]
      BY <1>1, <1>4 DEF Put
    <3>2. row.day = today
      BY DEF RowOf
    <3> QED BY <1>8, <1>9, <3>1, <3>2 DEF DatedBy
  <2>2. DOMAIN u.daily \subseteq DOMAIN t.daily \cup {today}
    BY <1>3, <1>4 DEF AddTo, Put
  <2>3. \A c \in DOMAIN u.checkpoints : c < today
    BY <1>4, <1>8, <1>9 DEF DatedBy
  <2> QED BY <1>8, <1>9, <2>1, <2>2, <2>3 DEF DatedBy
<1>10. ASSUME DatedBy(t, today), Settled(t)
       PROVE  Settled(u)
  <2>1. Cumulative(u) /\ Balanced(u)
    BY <1>4, <1>7, <1>8, <1>10 DEF Settled
  <2>2. LatestSnapshot(u).day = today
    BY <1>6 DEF RowOf
  <2>3. Hours(u)
    <3>1. /\ u.daily = IF delta.counted THEN AddTo(t.daily, today, delta.bytes) ELSE t.daily
          /\ u.hourly = IF delta.counted THEN AddTo(t.hourly, today, delta.bytes) ELSE t.hourly
          /\ Hours(t)
      BY <1>3, <1>4, <1>10 DEF Settled
    <3> QED BY <1>0, <1>10, <2>2, <3>1, HoursGrow
  <2> QED BY <2>1, <2>3 DEF Settled
<1> QED BY <1>4, <1>5, <1>6, <1>7, <1>9, <1>10 DEF delta

(* Pruning loses nothing.                                                   *)
LEMMA PruneKeeps ==
  ASSUME NEW L \in Bounds, NEW t \in Tables(L), NEW n \in Nat, Shape(t, n), n > 0,
         NEW today \in 1 .. L.day, NEW u, u = Prune(t, today)
  PROVE  /\ u \in Tables(L)
         /\ Shape(u, n)
         /\ LatestSnapshot(u) = LatestSnapshot(t)
         /\ ActiveEpoch(u) = ActiveEpoch(t)
         /\ ComputeLifetime(u) = ComputeLifetime(t)
         /\ \A D : DatedBy(t, D) => DatedBy(u, D)
         /\ LatestSnapshot(t).day = today /\ Settled(t) => Settled(u)
<1> DEFINE rows == {i \in DOMAIN t.snapshots :
                      t.snapshots[i].day >= today - SnapshotDays \/ i = Max(DOMAIN t.snapshots)}
           kept == {i \in DOMAIN t.deltas : ~(t.deltas[i].day < today - DeltaDays
                      /\ \E c \in DOMAIN t.checkpoints : t.deltas[i].day <= c)}
           hours == {d \in DOMAIN t.hourly : ~(d < today - HourlyDays /\ d \in DOMAIN t.daily)}
<1>1. /\ t.snapshots \in Partial(1 .. L.ticks, RowsOf(L))
      /\ t.deltas \in Partial(1 .. L.ticks, DeltasOf(L))
      /\ t.hourly \in Partial(1 .. L.day, Counts)
      /\ t.deltas \in Partial(1 .. L.ticks, DeltaRows)
      /\ L.ticks \in Nat
      /\ \A i \in DOMAIN t.deltas : t.deltas[i].day \in Nat
      /\ DOMAIN t.checkpoints \subseteq 1 .. L.day
  BY TablesTyped DEF Tables
<1>2. u = [t EXCEPT !.snapshots = Restrict(t.snapshots, rows),
                    !.deltas = Restrict(t.deltas, kept),
                    !.hourly = Restrict(t.hourly, hours)]
  BY DEF Prune, PruneSnapshots, PruneDeltas, PruneHourly
<1>3. n \in rows
  <2>1. n \in DOMAIN t.snapshots /\ DOMAIN t.snapshots \subseteq 1 .. n
    BY DEF Shape
  <2>2. \A x \in DOMAIN t.snapshots : (\A y \in DOMAIN t.snapshots : x >= y) <=> x = n
    BY <2>1
  <2>3. Max(DOMAIN t.snapshots) = n
    BY Zenon, <2>1, <2>2 DEF Max
  <2> QED BY <2>1, <2>3
<1>4. rows \in SUBSET DOMAIN t.snapshots /\ kept \in SUBSET DOMAIN t.deltas
      /\ hours \in SUBSET DOMAIN t.hourly
  OBVIOUS
<1>5. \A i \in DOMAIN t.deltas : t.deltas[i].day \in After(t) => i \in kept
  BY <1>1 DEF After
<1>6. hours = {d \in DOMAIN t.hourly : ~(d < today - HourlyDays /\ d \in DOMAIN t.daily)}
  OBVIOUS
<1> HIDE DEF rows, kept, hours
<1>7. /\ Restrict(t.snapshots, rows) \in Partial(1 .. L.ticks, RowsOf(L))
      /\ Restrict(t.deltas, kept) \in Partial(1 .. L.ticks, DeltasOf(L))
      /\ Restrict(t.hourly, hours) \in Partial(1 .. L.day, Counts)
  BY <1>1, <1>4, RestrictIs
<1>8. /\ u \in Tables(L)
      /\ u.snapshots = Restrict(t.snapshots, rows)
      /\ u.deltas = Restrict(t.deltas, kept)
      /\ u.hourly = Restrict(t.hourly, hours)
      /\ u.epochs = t.epochs /\ u.daily = t.daily /\ u.checkpoints = t.checkpoints
  BY <1>2, <1>7 DEF Tables
<1>9. /\ DOMAIN u.snapshots = rows /\ \A i \in rows : u.snapshots[i] = t.snapshots[i]
      /\ DOMAIN u.deltas = kept
      /\ DOMAIN u.hourly = hours /\ \A d \in hours : u.hourly[d] = t.hourly[d]
  BY <1>8 DEF Restrict
<1>10. Shape(u, n)
  BY <1>3, <1>4, <1>8, <1>9 DEF Shape
<1>11. LatestSnapshot(u) = LatestSnapshot(t) /\ ActiveEpoch(u) = ActiveEpoch(t)
  <2>1. LatestSnapshot(u) = u.snapshots[n] /\ LatestSnapshot(t) = t.snapshots[n]
    BY <1>8, <1>10, NewestIs
  <2>2. ActiveEpoch(u) = Len(u.epochs) /\ ActiveEpoch(t) = Len(t.epochs)
    BY <1>8, <1>10, NewestIs
  <2> QED BY <1>3, <1>8, <1>9, <2>1, <2>2
<1>12. After(u) = After(t) /\ Base(u) = Base(t)
  BY <1>8 DEF After, Base, LatestCheckpoint
<1>13. ASSUME NEW W \in SUBSET After(t)
       PROVE  CountedOn(u, W) = CountedOn(t, W)
  <2>1. \A i \in DOMAIN t.deltas : t.deltas[i].day \in W => i \in kept
    BY <1>5
  <2>2. SumOf(Amounts(u.deltas), Counted(u.deltas, W)) =
        SumOf(Amounts(t.deltas), Counted(t.deltas, W))
    BY <1>1, <1>4, <1>8, <2>1, CountedStays
  <2> QED BY <2>2, CountedOnIs
<1>14. ComputeLifetime(u) = ComputeLifetime(t)
  <2>1. CountedOn(u, After(t)) = CountedOn(t, After(t))
    BY <1>13
  <2>2. ComputeLifetime(t) = Plus(Base(t), CountedOn(t, After(t)))
    BY LifetimeIs
  <2>3. ComputeLifetime(u) = Plus(Base(t), CountedOn(u, After(t)))
    BY <1>8, <1>12, LifetimeIs
  <2> QED BY <2>1, <2>2, <2>3
<1>15. \A D : DatedBy(t, D) => DatedBy(u, D)
  BY <1>4, <1>8, <1>9 DEF DatedBy
<1>16. ASSUME LatestSnapshot(t).day = today, Settled(t)
       PROVE  Settled(u)
  <2>1. Cumulative(u)
    BY <1>8, <1>16 DEF Settled, Cumulative
  <2>2. Balanced(u)
    BY <1>8, <1>12, <1>13, <1>16 DEF Settled, Balanced
  <2>3. Hours(u)
    BY <1>6, <1>8, <1>9, <1>11, <1>16 DEF Settled, Hours
  <2> QED BY <2>1, <2>2, <2>3 DEF Settled
<1> QED BY <1>8, <1>10, <1>11, <1>14, <1>15, <1>16

-----------------------------------------------------------------------------
(* The accounting decision                                                  *)

Readings(L) == [uptime : 0 .. L.uptime, bytes : BytesOf(L), relayed : BytesOf(L)]

(* The memory of a collector that has seen n ticks.                         *)
Remembers(prev, n, L) ==
  /\ n = 0 => prev = None
  /\ n > 0 => prev \in RowsOf(L) /\ prev.seq = n

LEMMA RowIsSome ==
  ASSUME NEW L \in Bounds, NEW row \in RowsOf(L)
  PROVE  row # None
<1>1. row \in [seq : Nat, uptime : Nat, bytes : [Directions -> Nat], day : Nat, epoch : Nat]
  BY DEF RowsOf, BytesOf, Bounds
<1> QED BY <1>1, LedgerConstants

(* What a decision holds: the rows of the reading, and one of four outcomes *)
(* (an epoch begins, one ends, the bytes are counted).                      *)
Recorded(decision, n, reading, day, bytes) ==
  /\ decision.snapshot = [seq |-> n + 1, uptime |-> reading.uptime,
                          bytes |-> reading.bytes, day |-> day]
  /\ decision.delta.bytes = bytes
  /\ decision.delta = [bytes |-> decision.delta.bytes, day |-> day,
                       counted |-> decision.delta.counted]

First(decision) ==
  decision.newEpoch = TRUE /\ decision.endsPrevious = FALSE /\ decision.delta.counted = FALSE

NewRun(decision) ==
  decision.newEpoch = TRUE /\ decision.endsPrevious = TRUE /\ decision.delta.counted = TRUE

Clamped(decision) ==
  decision.newEpoch = FALSE /\ decision.endsPrevious = FALSE /\ decision.delta.counted = FALSE

SameRun(decision) ==
  decision.newEpoch = FALSE /\ decision.endsPrevious = FALSE /\ decision.delta.counted = TRUE

LEMMA DecideCases ==
  ASSUME NEW L \in Bounds, NEW n \in Nat, NEW prev, Remembers(prev, n, L),
         NEW reading \in Readings(L), NEW day \in 1 .. L.day,
         NEW decision, decision = Decide(reading, prev, day)
  PROVE  /\ n = 0 => First(decision) /\ Recorded(decision, n, reading, day, Zero)
         /\ n > 0 =>
              \/ /\ Restarted(reading, prev)
                 /\ NewRun(decision) /\ Recorded(decision, n, reading, day, reading.bytes)
              \/ /\ ~Restarted(reading, prev)
                 /\ ~AtMost(Zero, Minus(reading.bytes, prev.bytes))
                 /\ Clamped(decision) /\ Recorded(decision, n, reading, day, Zero)
              \/ /\ ~Restarted(reading, prev)
                 /\ AtMost(Zero, Minus(reading.bytes, prev.bytes))
                 /\ SameRun(decision)
                 /\ Recorded(decision, n, reading, day, Minus(reading.bytes, prev.bytes))
<1>0. /\ CountedFor("initial_baseline", "none") = FALSE
      /\ CountedFor("epoch_baseline", "reset") = TRUE
      /\ CountedFor("normal", "negative_clamped") = FALSE
      /\ CountedFor("normal", "none") = TRUE
  BY DEF CountedFor
<1>1. CASE n = 0
  <2>1. prev = None /\ 1 = n + 1
    BY <1>1 DEF Remembers
  <2>2. decision = Decision(TRUE, FALSE, 1, reading, day, "initial_baseline", "none", Zero)
    BY Zenon, <2>1 DEF Decide
  <2>3. First(decision) /\ Recorded(decision, n, reading, day, Zero)
    BY <1>0, <2>1, <2>2 DEF Decision, First, Recorded
  <2> QED BY <1>1, <2>3
<1>2. CASE n > 0
  <2> DEFINE moved == Minus(reading.bytes, prev.bytes)
             seq == prev.seq + 1
  <2>1. prev # None /\ seq = n + 1
    BY <1>2, RowIsSome DEF Remembers
  <2>2. CASE Restarted(reading, prev)
    <3>1. decision = Decision(TRUE, TRUE, seq, reading, day, "epoch_baseline", "reset",
                              reading.bytes)
      BY Zenon, <2>1, <2>2 DEF Decide
    <3> HIDE DEF seq
    <3>2. NewRun(decision) /\ Recorded(decision, n, reading, day, reading.bytes)
      BY <1>0, <2>1, <3>1 DEF Decision, NewRun, Recorded
    <3> QED BY <1>2, <2>2, <3>2
  <2>3. CASE ~Restarted(reading, prev) /\ ~AtMost(Zero, moved)
    <3>1. decision = Decision(FALSE, FALSE, seq, reading, day, "normal", "negative_clamped",
                              Zero)
      BY Zenon, <2>1, <2>3 DEF Decide
    <3> HIDE DEF seq
    <3>2. Clamped(decision) /\ Recorded(decision, n, reading, day, Zero)
      BY <1>0, <2>1, <3>1 DEF Decision, Clamped, Recorded
    <3> QED BY <1>2, <2>3, <3>2
  <2>4. CASE ~Restarted(reading, prev) /\ AtMost(Zero, moved)
    <3>1. decision = Decision(FALSE, FALSE, seq, reading, day, "normal", "none", moved)
      BY Zenon, <2>1, <2>4 DEF Decide
    <3> HIDE DEF seq
    <3>2. SameRun(decision) /\ Recorded(decision, n, reading, day, moved)
      BY <1>0, <2>1, <3>1 DEF Decision, SameRun, Recorded
    <3> QED BY <1>2, <2>4, <3>2
  <2> QED BY <2>2, <2>3, <2>4
<1> QED BY <1>1, <1>2

LEMMA DecisionFits ==
  ASSUME NEW L \in Bounds, NEW n \in Nat, NEW prev, Remembers(prev, n, L),
         NEW reading \in Readings(L), NEW day \in 1 .. L.day,
         NEW decision, decision = Decide(reading, prev, day)
  PROVE  /\ Fits(decision, n, L)
         /\ decision.snapshot.day = day /\ decision.delta.day = day
         /\ decision.snapshot.seq = n + 1
         /\ decision.snapshot.uptime = reading.uptime /\ decision.snapshot.bytes = reading.bytes
         /\ decision.delta.bytes \in Counts /\ decision.delta.counted \in BOOLEAN
<1>0. L.relayed \in Nat /\ L.day \in Nat
  BY DEF Bounds
<1>1. /\ reading.bytes \in BytesOf(L) /\ reading.uptime \in 0 .. L.uptime
      /\ Zero \in BytesOf(L) /\ BytesOf(L) \subseteq Counts
  BY <1>0 DEF Readings, BytesOf, Zero, Counts
<1>2. n > 0 /\ AtMost(Zero, Minus(reading.bytes, prev.bytes)) =>
        Minus(reading.bytes, prev.bytes) \in BytesOf(L)
  <2>1. n > 0 => prev.bytes \in BytesOf(L)
    BY DEF Remembers, RowsOf
  <2> QED BY <1>0, <1>1, <2>1 DEF BytesOf, Minus, AtMost, Zero
<1>3. PICK bytes \in BytesOf(L) : Recorded(decision, n, reading, day, bytes)
  <2>1. CASE n = 0
    BY <1>1, <2>1, DecideCases
  <2>2. CASE n > 0
    BY <1>1, <1>2, <2>2, DecideCases
  <2> QED BY <2>1, <2>2
<1>4. /\ decision.newEpoch \in BOOLEAN /\ decision.endsPrevious \in BOOLEAN
      /\ decision.delta.counted \in BOOLEAN
      /\ n > 0 /\ decision.newEpoch = TRUE => decision.endsPrevious = TRUE
      /\ n = 0 => decision.newEpoch = TRUE
  <2>1. CASE n = 0
    <3>1. First(decision)
      BY <2>1, DecideCases
    <3>2. /\ decision.newEpoch \in BOOLEAN /\ decision.endsPrevious \in BOOLEAN
          /\ decision.delta.counted \in BOOLEAN /\ decision.newEpoch = TRUE
      BY Zenon, <3>1 DEF First
    <3> QED BY <2>1, <3>2
  <2>2. CASE n > 0
    <3>1. NewRun(decision) \/ Clamped(decision) \/ SameRun(decision)
      BY <2>2, DecideCases
    <3>2. /\ decision.newEpoch \in BOOLEAN /\ decision.endsPrevious \in BOOLEAN
          /\ decision.delta.counted \in BOOLEAN
          /\ decision.newEpoch = TRUE => decision.endsPrevious = TRUE
      BY Zenon, <3>1 DEF NewRun, Clamped, SameRun
    <3>3. n # 0
      BY <2>2
    <3> QED BY Zenon, <3>2, <3>3
  <2>3. n = 0 \/ n > 0
    OBVIOUS
  <2> QED BY Zenon, <2>1, <2>2, <2>3
<1>5. decision.delta \in DeltasOf(L)
  BY <1>3, <1>4 DEF DeltasOf, Recorded
<1>6. decision.snapshot \in [seq : {n + 1}, uptime : 0 .. L.uptime, bytes : BytesOf(L),
                             day : 1 .. L.day]
  BY <1>1, <1>3 DEF Recorded
<1>7. Fits(decision, n, L)
  BY <1>4, <1>5, <1>6 DEF Fits
<1> QED BY <1>1, <1>3, <1>4, <1>7 DEF Recorded

(* What a tick adds to the lifetime total is at most what the reading says  *)
(* was moved since the newest row, whichever of the two explanations of the *)
(* reading is true: the same run of Conduit, or one that began since.       *)
LEMMA DecisionCounts ==
  ASSUME NEW L \in Bounds, NEW n \in Nat, n > 0, NEW prev, Remembers(prev, n, L),
         NEW reading \in Readings(L), NEW day \in 1 .. L.day,
         NEW decision, decision = Decide(reading, prev, day), NEW d \in Directions
  PROVE  LET added == IF decision.delta.counted THEN decision.delta.bytes[d] ELSE 0
         IN /\ added <= reading.bytes[d]
            /\ prev.uptime <= reading.uptime /\ AtMost(prev.bytes, reading.bytes) =>
                 /\ decision.delta.counted
                 /\ added = reading.bytes[d] - prev.bytes[d]
<1>0. /\ UptimeEps \in Nat /\ L.relayed \in Nat /\ L.uptime \in Nat
  BY LedgerConstants DEF Bounds
<1>1. /\ prev.bytes \in [Directions -> Nat] /\ prev.uptime \in Nat
      /\ reading.bytes \in [Directions -> Nat] /\ reading.uptime \in Nat
  BY <1>0 DEF Remembers, RowsOf, Readings, BytesOf
<1>2. prev.bytes[d] \in Nat /\ reading.bytes[d] \in Nat
  BY <1>1
<1>3. Minus(reading.bytes, prev.bytes)[d] = reading.bytes[d] - prev.bytes[d]
  BY DEF Minus
<1>4. AtMost(Zero, Minus(reading.bytes, prev.bytes)) <=> AtMost(prev.bytes, reading.bytes)
  BY <1>1 DEF AtMost, Zero, Minus
<1>5. Restarted(reading, prev) => ~(prev.uptime <= reading.uptime)
  BY <1>0, <1>1 DEF Restarted
<1>6. \/ /\ Restarted(reading, prev)
          /\ NewRun(decision) /\ Recorded(decision, n, reading, day, reading.bytes)
       \/ /\ ~AtMost(prev.bytes, reading.bytes) /\ Clamped(decision)
       \/ /\ ~Restarted(reading, prev)
          /\ SameRun(decision)
          /\ Recorded(decision, n, reading, day, Minus(reading.bytes, prev.bytes))
  BY <1>4, DecideCases
<1>7. \/ /\ Restarted(reading, prev)
         /\ decision.delta.counted = TRUE /\ decision.delta.bytes = reading.bytes
      \/ /\ ~AtMost(prev.bytes, reading.bytes) /\ decision.delta.counted = FALSE
      \/ /\ ~Restarted(reading, prev)
         /\ decision.delta.counted = TRUE
         /\ decision.delta.bytes = Minus(reading.bytes, prev.bytes)
  BY <1>6 DEF NewRun, Clamped, SameRun, Recorded
<1> QED BY <1>2, <1>3, <1>5, <1>7

-----------------------------------------------------------------------------
(* What was relayed by the time of a reading.  One reading is later than    *)
(* another when Conduit moved on from it, or began a new run since: either  *)
(* way it relayed what its counters say.                                    *)
Measures == [uptime : Nat, bytes : Counts, relayed : Counts]

Later(k, l) ==
  \/ /\ k.uptime <= l.uptime
     /\ \A d \in Directions : /\ k.bytes[d] <= l.bytes[d]
                              /\ l.bytes[d] + k.relayed[d] <= l.relayed[d] + k.bytes[d]
  \/ \A d \in Directions : l.bytes[d] + k.relayed[d] <= l.relayed[d]

LEMMA LaterSelf ==
  ASSUME NEW k \in Measures
  PROVE  Later(k, k)
BY DEF Measures, Counts, Later

LEMMA LaterChain ==
  ASSUME NEW a \in Measures, NEW b \in Measures, NEW c \in Measures, Later(a, b), Later(b, c)
  PROVE  Later(a, c)
<1>1. \A d \in Directions : /\ a.bytes[d] \in Nat /\ b.bytes[d] \in Nat /\ c.bytes[d] \in Nat
                            /\ a.relayed[d] \in Nat /\ b.relayed[d] \in Nat /\ c.relayed[d] \in Nat
  BY DEF Measures, Counts
<1>2. a.uptime \in Nat /\ b.uptime \in Nat /\ c.uptime \in Nat
  BY DEF Measures
<1>3. \/ \A d \in Directions : b.bytes[d] + a.relayed[d] <= b.relayed[d]
      \/ /\ a.uptime <= b.uptime
         /\ \A d \in Directions : /\ a.bytes[d] <= b.bytes[d]
                                  /\ b.bytes[d] + a.relayed[d] <= b.relayed[d] + a.bytes[d]
  BY DEF Later
<1>4. \/ \A d \in Directions : c.bytes[d] + b.relayed[d] <= c.relayed[d]
      \/ /\ b.uptime <= c.uptime
         /\ \A d \in Directions : /\ b.bytes[d] <= c.bytes[d]
                                  /\ c.bytes[d] + b.relayed[d] <= c.relayed[d] + b.bytes[d]
  BY DEF Later
<1>5. CASE \/ \A d \in Directions : b.bytes[d] + a.relayed[d] <= b.relayed[d]
           \/ \A d \in Directions : c.bytes[d] + b.relayed[d] <= c.relayed[d]
  <2>1. \A d \in Directions : c.bytes[d] + a.relayed[d] <= c.relayed[d]
    BY <1>1, <1>3, <1>4, <1>5
  <2> QED BY <2>1 DEF Later
<1>6. CASE /\ a.uptime <= b.uptime /\ b.uptime <= c.uptime
           /\ \A d \in Directions : /\ a.bytes[d] <= b.bytes[d]
                                    /\ b.bytes[d] + a.relayed[d] <= b.relayed[d] + a.bytes[d]
           /\ \A d \in Directions : /\ b.bytes[d] <= c.bytes[d]
                                    /\ c.bytes[d] + b.relayed[d] <= c.relayed[d] + b.bytes[d]
  <2>1. \A d \in Directions : /\ a.bytes[d] <= c.bytes[d]
                              /\ c.bytes[d] + a.relayed[d] <= c.relayed[d] + a.bytes[d]
    BY <1>1, <1>6
  <2>2. a.uptime <= c.uptime
    BY <1>2, <1>6
  <2> QED BY <2>1, <2>2 DEF Later
<1> QED BY <1>3, <1>4, <1>5, <1>6

(* What the tables know: the newest row, and the total they count from the  *)
(* base at which recording began.                                           *)
Seen(t, base) == [
  uptime  |-> LatestSnapshot(t).uptime,
  bytes   |-> LatestSnapshot(t).bytes,
  relayed |-> Plus(ComputeLifetime(t), base)]

Accounted(t, base, k) == DOMAIN t.snapshots # {} => Later(Seen(t, base), k)

(* The same without loss, for a Conduit that never restarted.               *)
Exact(t, base, k) ==
  /\ k.bytes = k.relayed
  /\ DOMAIN t.snapshots # {} =>
       /\ Seen(t, base).relayed = Seen(t, base).bytes
       /\ Seen(t, base).uptime <= k.uptime
       /\ AtMost(Seen(t, base).bytes, k.bytes)

LEMMA SeenTyped ==
  ASSUME NEW L \in Bounds, NEW t \in Tables(L), NEW n \in Nat, Shape(t, n), n > 0,
         NEW base \in Counts
  PROVE  Seen(t, base) \in Measures
<1>1. LatestSnapshot(t) \in RowsOf(L)
  BY NewestIs
<1>2. LatestSnapshot(t).uptime \in Nat /\ LatestSnapshot(t).bytes \in Counts
  BY <1>1 DEF RowsOf, BytesOf, Counts, Bounds
<1>3. Plus(ComputeLifetime(t), base) \in Counts
  BY LifetimeIs, CountsAdd
<1> QED BY <1>2, <1>3 DEF Seen, Measures

LEMMA TickAccounts ==
  ASSUME NEW L \in Bounds, NEW t \in Tables(L), NEW n \in Nat, Shape(t, n), n + 1 <= L.ticks,
         NEW today \in 1 .. L.day, NEW reading \in Readings(L),
         NEW prev, prev = LatestSnapshot(t), NEW epoch, epoch = ActiveEpoch(t),
         NEW decision, decision = Decide(reading, prev, today),
         NEW u, u = Tick(t, decision, epoch, today),
         NEW base \in Counts, NEW base2, base2 = IF prev = None THEN reading.relayed ELSE base,
         Accounted(t, base, reading)
  PROVE  /\ base2 \in Counts
         /\ Accounted(u, base2, reading)
         /\ Exact(t, base, reading) /\ today \in After(t) => Exact(u, base2, reading)
<1> DEFINE total == ComputeLifetime(t)
           total2 == ComputeLifetime(u)
           row == RowOf(decision.snapshot, EpochOf(t, decision, epoch))
<1>0. Remembers(prev, n, L)
  BY NewestIs DEF Remembers
<1>1. /\ Fits(decision, n, L)
      /\ decision.snapshot.day = today /\ decision.delta.day = today
      /\ decision.snapshot.uptime = reading.uptime /\ decision.snapshot.bytes = reading.bytes
      /\ decision.delta.bytes \in Counts /\ decision.delta.counted \in BOOLEAN
  BY <1>0, DecisionFits
<1>2. /\ u \in Tables(L) /\ Shape(u, n + 1) /\ LatestSnapshot(u) = row
      /\ total2 = IF decision.delta.counted /\ today \in After(t)
                  THEN Plus(total, decision.delta.bytes) ELSE total
  BY <1>1, TickKeeps
<1>3. reading.relayed \in Counts /\ reading.bytes \in Counts /\ reading.uptime \in Nat
  BY DEF Readings, BytesOf, Counts, Bounds
<1>4. total \in Counts /\ total2 \in Counts
  BY <1>2, LifetimeIs
<1>5. base2 \in Counts
  BY <1>3
<1>6. row.uptime = reading.uptime /\ row.bytes = reading.bytes
  BY <1>1 DEF RowOf
<1> HIDE DEF row, total, total2
<1>7. /\ Seen(u, base2).uptime = reading.uptime /\ Seen(u, base2).bytes = reading.bytes
      /\ \A d \in Directions : Seen(u, base2).relayed[d] = total2[d] + base2[d]
  BY <1>2, <1>6 DEF Seen, Plus, total2
<1>8. /\ \A d \in Directions : total2[d] + base2[d] <= reading.relayed[d]
      /\ Exact(t, base, reading) /\ today \in After(t) =>
           \A d \in Directions : total2[d] + base2[d] = reading.bytes[d]
  <2>1. CASE n = 0
    <3>1. prev = None /\ t = EmptyTables
      BY <2>1, NewestIs DEF Shape
    <3>2. decision.delta.counted = FALSE
      BY <1>0, <2>1, DecideCases DEF First
    <3>3. total2 = Zero
      BY <1>2, <3>1, <3>2, EmptyIs DEF total
    <3>4. \A d \in Directions : total2[d] + base2[d] = reading.relayed[d]
      BY <1>3, <3>1, <3>3 DEF Zero, Counts
    <3> QED BY <1>3, <3>4 DEF Exact, Counts
  <2>2. CASE n > 0
    <3>1. /\ prev \in RowsOf(L) /\ prev # None /\ base2 = base /\ DOMAIN t.snapshots # {}
      BY <2>2, NewestIs, RowIsSome
    <3>2. /\ prev.uptime \in Nat /\ \A d \in Directions : prev.bytes[d] \in Nat
      BY <3>1 DEF RowsOf, BytesOf, Bounds
    <3>3. /\ Seen(t, base).uptime = prev.uptime /\ Seen(t, base).bytes = prev.bytes
          /\ \A d \in Directions : Seen(t, base).relayed[d] = total[d] + base[d]
      BY DEF Seen, Plus, total
    <3>4. Later(Seen(t, base), reading)
      BY <3>1 DEF Accounted
    <3> DEFINE added(d) == IF decision.delta.counted THEN decision.delta.bytes[d] ELSE 0
    <3>5. \A d \in Directions :
            /\ added(d) <= reading.bytes[d]
            /\ prev.uptime <= reading.uptime /\ AtMost(prev.bytes, reading.bytes) =>
                 /\ decision.delta.counted
                 /\ added(d) = reading.bytes[d] - prev.bytes[d]
      BY <1>0, <2>2, DecisionCounts
    <3>6. \A d \in Directions : /\ total[d] \in Nat /\ total2[d] \in Nat /\ base[d] \in Nat
                                /\ added(d) \in Nat
                                /\ reading.bytes[d] \in Nat /\ reading.relayed[d] \in Nat
      BY <1>1, <1>3, <1>4 DEF Counts
    <3>7. \A d \in Directions :
            /\ total2[d] <= total[d] + added(d)
            /\ today \in After(t) => total2[d] = total[d] + added(d)
      <4>1. CASE decision.delta.counted /\ today \in After(t)
        BY <1>2, <3>6, <4>1 DEF Plus
      <4>2. CASE ~(decision.delta.counted /\ today \in After(t))
        <5>1. total2 = total
          BY <1>2, <4>2
        <5>2. today \in After(t) => \A d \in Directions : added(d) = 0
          BY <4>2
        <5> QED BY <3>6, <5>1, <5>2
      <4> QED BY <4>1, <4>2
    <3> HIDE DEF added
    <3>8. \A d \in Directions : total2[d] + base[d] <= reading.relayed[d]
      <4>1. CASE \A d \in Directions : reading.bytes[d] + (total[d] + base[d]) <= reading.relayed[d]
        BY <3>5, <3>6, <3>7, <4>1
      <4>2. CASE /\ prev.uptime <= reading.uptime
                 /\ \A d \in Directions :
                      /\ prev.bytes[d] <= reading.bytes[d]
                      /\ reading.bytes[d] + (total[d] + base[d]) <= reading.relayed[d] + prev.bytes[d]
        <5>1. \A d \in Directions : added(d) = reading.bytes[d] - prev.bytes[d]
          BY <3>5, <4>2 DEF AtMost
        <5> QED BY <3>2, <3>6, <3>7, <4>2, <5>1
      <4> QED BY <3>3, <3>4, <4>1, <4>2 DEF Later
    <3>9. ASSUME Exact(t, base, reading), today \in After(t)
          PROVE  \A d \in Directions : total2[d] + base[d] = reading.bytes[d]
      <4>1. /\ prev.uptime <= reading.uptime /\ AtMost(prev.bytes, reading.bytes)
            /\ \A d \in Directions : total[d] + base[d] = prev.bytes[d]
        BY <3>1, <3>3, <3>9 DEF Exact
      <4> QED BY <3>2, <3>5, <3>6, <3>7, <3>9, <4>1
    <3> QED BY <3>1, <3>8, <3>9
  <2> QED BY <2>1, <2>2
<1>9. Accounted(u, base2, reading)
  <2>1. \A d \in Directions : /\ reading.bytes[d] \in Nat /\ reading.relayed[d] \in Nat
                              /\ total2[d] + base2[d] \in Nat
    BY <1>3, <1>4, <1>5 DEF Counts
  <2> QED BY <1>3, <1>7, <1>8, <2>1 DEF Accounted, Later
<1>10. ASSUME Exact(t, base, reading), today \in After(t)
       PROVE  Exact(u, base2, reading)
  <2>1. Seen(u, base2).relayed = [d \in Directions |-> total2[d] + base2[d]]
    BY DEF Seen, Plus, total2
  <2>2. Seen(u, base2).relayed = reading.bytes
    BY <1>3, <1>8, <1>10, <2>1 DEF Counts
  <2>3. AtMost(reading.bytes, reading.bytes) /\ reading.uptime <= reading.uptime
    BY <1>3 DEF AtMost, Counts
  <2> QED BY <1>7, <1>10, <2>2, <2>3 DEF Exact
<1> QED BY <1>5, <1>9, <1>10

-----------------------------------------------------------------------------
(* The collector: types, the shape of the tables, and its memory            *)

ColStates(L) == [
  at : {"off", "waiting", "reader", "decide", "prune"}, synced : BOOLEAN, now : 0 .. L.day,
  reading : Readings(L), prev : RowsOf(L) \cup {None}, epoch : 1 .. L.ticks \cup {None},
  pruned : 0 .. L.day \cup {None}]

Kept(t, L) == t \in Tables(L) /\ \E n \in Nat : Shape(t, n)

(* Types, the shape of what is committed and of what survives, and that the *)
(* memory of the collector is that of the tables.                           *)
Ground ==
  /\ limits \in Scenarios
  /\ Kept(db, limits)
  /\ Kept(disk, limits)
  /\ DOMAIN disk.snapshots # {} => DOMAIN db.snapshots # {}
  /\ conduit \in [uptime : 0 .. limits.uptime, bytes : BytesOf(limits)]
  /\ clock \in [day : 1 .. limits.day, wall : 1 .. limits.day, synced : BOOLEAN]
  /\ truth \in [relayed : BytesOf(limits), base : BytesOf(limits), restarts : Nat, losses : Nat]
  /\ AtMost(conduit.bytes, truth.relayed)
  /\ col \in ColStates(limits)
  /\ col.at \in {"reader", "decide", "prune"} => col.now \in 1 .. limits.day
  /\ col.at \in {"decide", "prune"} => col.synced = TRUE
  /\ MemoryMatchesTables
  /\ col.at = "prune" => DOMAIN db.snapshots # {} /\ LatestSnapshot(db).day = col.now

LEMMA KeptIs ==
  ASSUME NEW L \in Bounds, NEW t, Kept(t, L)
  PROVE  /\ LatestSnapshot(t) \in RowsOf(L) \cup {None}
         /\ ActiveEpoch(t) \in 1 .. L.ticks \cup {None}
         /\ LatestSnapshot(t) = None <=> DOMAIN t.snapshots = {}
         /\ DOMAIN t.snapshots # {} => /\ OpenEpochs(t) = {Len(t.epochs)}
                                       /\ LatestSnapshot(t).epoch = Len(t.epochs)
<1>1. PICK n \in Nat : Shape(t, n)
  BY DEF Kept
<1>2. t \in Tables(L) /\ L.ticks \in Nat
  BY DEF Kept, Bounds
<1>3. CASE n = 0
  BY <1>1, <1>2, <1>3, NewestIs
<1>4. CASE n > 0
  <2>1. /\ LatestSnapshot(t) = t.snapshots[n] /\ t.snapshots[n] \in RowsOf(L)
        /\ DOMAIN t.snapshots # {} /\ ActiveEpoch(t) = Len(t.epochs)
        /\ ActiveEpoch(t) \in 1 .. n /\ OpenEpochs(t) = {Len(t.epochs)}
    BY <1>1, <1>2, <1>4, NewestIs
  <2>2. n \in DOMAIN t.snapshots /\ t.snapshots[n].epoch = Len(t.epochs)
    BY <1>1, <1>4 DEF Shape
  <2>3. n \in 1 .. L.ticks
    <3>1. t.snapshots \in Partial(1 .. L.ticks, RowsOf(L))
      BY <1>2 DEF Tables
    <3> QED BY <2>2, <3>1, PartialHas
  <2>4. LatestSnapshot(t) # None
    BY <2>1, RowIsSome
  <2> QED BY <1>2, <2>1, <2>2, <2>3, <2>4
<1> QED BY <1>3, <1>4

LEMMA GroundTyped ==
  ASSUME Ground
  PROVE  /\ limits \in Bounds
         /\ db \in Tables(limits) /\ disk \in Tables(limits)
         /\ Reading \in Readings(limits) /\ Reading \in Measures
         /\ col.reading \in Readings(limits) /\ col.reading \in Measures
         /\ truth.base \in Counts
<1>1. limits \in Bounds
  BY ScenariosAreBounds DEF Ground, Bounds
<1>2. Readings(limits) \subseteq Measures /\ BytesOf(limits) \subseteq Counts
  BY <1>1 DEF Bounds, Readings, Measures, BytesOf, Counts
<1>3. Reading \in Readings(limits) /\ col.reading \in Readings(limits)
  BY DEF Ground, Reading, Readings, ColStates
<1> QED BY <1>1, <1>2, <1>3 DEF Ground, Kept

(* What a committed tick leaves.                                            *)
LEMMA Persisted ==
  ASSUME Ground, TickPersists
  PROVE  /\ Kept(db', limits) /\ DOMAIN db'.snapshots # {}
         /\ LatestSnapshot(db') = col'.prev /\ ActiveEpoch(db') = col'.epoch
         /\ LatestSnapshot(db').day = col.now
         /\ truth' \in [relayed : BytesOf(limits), base : BytesOf(limits), restarts : Nat,
                        losses : Nat]
         /\ truth' = [truth EXCEPT !.base = truth'.base]
         /\ DOMAIN db.snapshots # {} => truth' = truth
         /\ DatedBy(db, col.now) => DatedBy(db', col.now)
         /\ DatedBy(db, col.now) /\ Settled(db) => Settled(db')
         /\ Accounted(db, truth.base, col.reading) => Accounted(db', truth'.base, col.reading)
         /\ Accounted(db, truth.base, col.reading) /\ Exact(db, truth.base, col.reading)
              /\ DatedBy(db, col.now) => Exact(db', truth'.base, col.reading)
<1> DEFINE decision == Decide(col.reading, col.prev, col.now)
           row == RowOf(decision.snapshot, EpochOf(db, decision, col.epoch))
           base2 == IF col.prev = None THEN col.reading.relayed ELSE truth.base
<1>1. /\ limits \in Bounds /\ db \in Tables(limits) /\ col.reading \in Readings(limits)
      /\ truth.base \in Counts
  BY GroundTyped
<1>2. PICK n \in Nat : Shape(db, n)
  BY DEF Ground, Kept
<1>3. /\ col.at = "decide" /\ col.now \in 1 .. limits.day
      /\ col.prev = LatestSnapshot(db) /\ col.epoch = ActiveEpoch(db)
  BY DEF TickPersists, Ground, MemoryMatchesTables
<1>4. Remembers(col.prev, n, limits)
  BY <1>1, <1>2, <1>3, NewestIs DEF Remembers
<1>5. /\ Fits(decision, n, limits)
      /\ decision.snapshot.day = col.now /\ decision.delta.day = col.now
      /\ decision.snapshot.seq = n + 1
  BY <1>1, <1>3, <1>4, DecisionFits
<1>6. /\ n + 1 <= limits.ticks
      /\ db' = Tick(db, decision, col.epoch, col.now)
      /\ truth' = [truth EXCEPT !.base = base2]
  <2>1. truth' = IF col.prev = None THEN [truth EXCEPT !.base = col.reading.relayed] ELSE truth
    BY DEF TickPersists
  <2>2. truth = [truth EXCEPT !.base = truth.base]
    BY DEF Ground
  <2>3. decision.snapshot.seq <= limits.ticks /\ db' = Tick(db, decision, col.epoch, col.now)
    BY DEF TickPersists
  <2> QED BY <1>5, <2>1, <2>2, <2>3
<1>7. col'.prev = row /\ col'.epoch = EpochOf(db, decision, col.epoch)
  <2>1. col \in ColStates(limits)
    BY DEF Ground
  <2> HIDE DEF decision
  <2>2. col' = LET moved == Advanced(col, decision)
               IN IF col.now = col.pruned
                  THEN Waiting(moved)
                  ELSE [moved EXCEPT !.at = "prune", !.reading = NoReading]
    BY DEF TickPersists, decision
  <2> QED BY <2>1, <2>2 DEF Advanced, Waiting, ColStates
<1>8. base2 \in BytesOf(limits)
  BY <1>1 DEF Ground, Readings
<1> HIDE DEF decision, row, base2
<1>9. /\ db' \in Tables(limits) /\ Shape(db', n + 1) /\ LatestSnapshot(db') = row
      /\ ActiveEpoch(db') = EpochOf(db, decision, col.epoch)
      /\ DatedBy(db, col.now) => DatedBy(db', col.now)
      /\ DatedBy(db, col.now) /\ Settled(db) => Settled(db')
  BY <1>1, <1>2, <1>3, <1>5, <1>6, TickKeeps DEF row
<1>10. row.day = col.now
  BY <1>5 DEF row, RowOf
<1>11. Kept(db', limits) /\ DOMAIN db'.snapshots # {}
  <2>1. n + 1 \in Nat /\ n + 1 # 0
    OBVIOUS
  <2> QED BY <1>1, <1>9, <2>1, NewestIs DEF Kept
<1>12. /\ truth'.base = base2
       /\ truth' \in [relayed : BytesOf(limits), base : BytesOf(limits), restarts : Nat,
                      losses : Nat]
  BY <1>6, <1>8 DEF Ground
<1>13. DOMAIN db.snapshots # {} => truth' = truth
  <2>1. DOMAIN db.snapshots # {} => col.prev # None
    BY <1>1, <1>3, KeptIs DEF Ground
  <2> QED BY <1>6, <2>1 DEF base2, Ground
<1>14. ASSUME Accounted(db, truth.base, col.reading)
       PROVE  /\ Accounted(db', truth'.base, col.reading)
              /\ Exact(db, truth.base, col.reading) /\ DatedBy(db, col.now) =>
                   Exact(db', truth'.base, col.reading)
  <2>1. DatedBy(db, col.now) => col.now \in After(db)
    BY <1>1, <1>3 DEF DatedBy, After, Bounds
  <2>2. base2 = IF col.prev = None THEN col.reading.relayed ELSE truth.base
    BY DEF base2
  <2>3. decision = Decide(col.reading, col.prev, col.now)
    BY DEF decision
  <2>4. /\ Accounted(db', base2, col.reading)
        /\ Exact(db, truth.base, col.reading) /\ col.now \in After(db) =>
             Exact(db', base2, col.reading)
    BY <1>1, <1>2, <1>3, <1>6, <1>14, <2>2, <2>3, TickAccounts
  <2> QED BY <1>12, <2>1, <2>4
<1> QED BY <1>6, <1>7, <1>9, <1>10, <1>11, <1>12, <1>13, <1>14

(* What retention leaves.                                                   *)
LEMMA Pruned ==
  ASSUME Ground, PruneCommits
  PROVE  /\ Kept(db', limits) /\ DOMAIN db'.snapshots # {} /\ DOMAIN db.snapshots # {}
         /\ LatestSnapshot(db') = LatestSnapshot(db) /\ ActiveEpoch(db') = ActiveEpoch(db)
         /\ ComputeLifetime(db') = ComputeLifetime(db)
         /\ \A D : DatedBy(db, D) => DatedBy(db', D)
         /\ Settled(db) => Settled(db')
<1>1. limits \in Bounds /\ db \in Tables(limits)
  BY GroundTyped
<1>2. PICK n \in Nat : Shape(db, n)
  BY DEF Ground, Kept
<1>3. /\ col.at = "prune" /\ col.now \in 1 .. limits.day /\ db' = Prune(db, col.now)
      /\ DOMAIN db.snapshots # {} /\ LatestSnapshot(db).day = col.now
  BY DEF PruneCommits, Ground
<1>4. n > 0
  BY <1>1, <1>2, <1>3, NewestIs
<1>5. /\ db' \in Tables(limits) /\ Shape(db', n)
      /\ LatestSnapshot(db') = LatestSnapshot(db) /\ ActiveEpoch(db') = ActiveEpoch(db)
      /\ ComputeLifetime(db') = ComputeLifetime(db)
      /\ \A D : DatedBy(db, D) => DatedBy(db', D)
      /\ LatestSnapshot(db).day = col.now /\ Settled(db) => Settled(db')
  BY <1>1, <1>2, <1>3, <1>4, PruneKeeps
<1>6. DOMAIN db'.snapshots # {}
  BY <1>1, <1>4, <1>5, NewestIs
<1> QED BY <1>3, <1>5, <1>6 DEF Kept

LEMMA GroundInit == Init => Ground
<1> SUFFICES ASSUME Init PROVE Ground
  OBVIOUS
<1>1. limits \in Scenarios /\ limits \in Bounds
  BY ScenariosAreBounds DEF Init, Bounds
<1>2. Kept(db, limits) /\ Kept(disk, limits) /\ DOMAIN disk.snapshots = {}
  <2>1. EmptyTables \in Tables(limits) /\ Shape(EmptyTables, 0) /\ 0 \in Nat
    BY <1>1, EmptyIs
  <2>2. DOMAIN EmptyTables.snapshots = {}
    BY DEF EmptyTables
  <2> QED BY <2>1, <2>2 DEF Init, Kept
<1>3. Zero \in BytesOf(limits)
  BY <1>1 DEF Zero, BytesOf, Bounds
<1>4. conduit \in [uptime : 0 .. limits.uptime, bytes : BytesOf(limits)]
  BY <1>1, <1>3 DEF Init, Bounds
<1>5. truth \in [relayed : BytesOf(limits), base : BytesOf(limits), restarts : Nat, losses : Nat]
  BY <1>3 DEF Init
<1>6. clock \in [day : 1 .. limits.day, wall : 1 .. limits.day, synced : BOOLEAN]
  <2>1. PICK shown \in 1 .. limits.day : clock = [day |-> 1, wall |-> shown, synced |-> FALSE]
    BY DEF Init, Days
  <2>2. 1 \in 1 .. limits.day
    BY <1>1, <2>1 DEF Bounds
  <2> QED BY <2>1, <2>2
<1>7. AtMost(conduit.bytes, truth.relayed)
  BY DEF Init, AtMost, Zero
<1>8. col = Off /\ Off \in ColStates(limits) /\ Off.at = "off"
  BY <1>1, <1>3 DEF Init, Off, NoReading, ColStates, Readings, Bounds
<1>9. MemoryMatchesTables
  BY <1>8 DEF MemoryMatchesTables
<1> QED BY <1>1, <1>2, <1>4, <1>5, <1>6, <1>7, <1>8, <1>9 DEF Ground

(* The actions of the host and of Conduit leave the collector and the       *)
(* committed tables alone, but for a power loss.                            *)
LEMMA GroundEnvironment ==
  ASSUME Ground,
         ConduitRuns \/ ConduitRestarts \/ DayEnds \/ ClockSynchronizes \/ ClockIsStepped
           \/ JournalSyncs
  PROVE  Ground'
<1>0. limits \in Bounds
  BY GroundTyped
<1>1. /\ limits' = limits /\ db' = db /\ col' = col
  BY DEF ConduitRuns, ConduitRestarts, DayEnds, ClockSynchronizes, ClockIsStepped, JournalSyncs
<1>2. disk' = disk \/ disk' = db
  BY DEF ConduitRuns, ConduitRestarts, DayEnds, ClockSynchronizes, ClockIsStepped, JournalSyncs
<1>3. /\ conduit' \in [uptime : 0 .. limits.uptime, bytes : BytesOf(limits)]
      /\ truth' \in [relayed : BytesOf(limits), base : BytesOf(limits), restarts : Nat,
                     losses : Nat]
      /\ AtMost(conduit'.bytes, truth'.relayed)
  <2>1. CASE ConduitRuns
    <3>1. PICK moved \in [Directions -> {0, 1}] :
            /\ AtMost(Plus(truth.relayed, moved), [d \in Directions |-> limits.relayed])
            /\ conduit' = [uptime |-> conduit.uptime + 1, bytes |-> Plus(conduit.bytes, moved)]
            /\ truth' = [truth EXCEPT !.relayed = Plus(@, moved)]
      BY <2>1 DEF ConduitRuns
    <3>2. conduit.uptime < limits.uptime
      BY <2>1 DEF ConduitRuns
    <3>3. \A d \in Directions :
            /\ truth.relayed[d] \in Nat /\ conduit.bytes[d] \in Nat /\ moved[d] \in Nat
            /\ conduit.bytes[d] <= truth.relayed[d]
            /\ truth.relayed[d] + moved[d] <= limits.relayed
      BY <1>0, <3>1 DEF Ground, BytesOf, AtMost, Plus, Bounds
    <3>4. Plus(conduit.bytes, moved) \in BytesOf(limits) /\ Plus(truth.relayed, moved) \in BytesOf(limits)
      BY <1>0, <3>3 DEF Plus, BytesOf, Bounds
    <3>5. AtMost(Plus(conduit.bytes, moved), Plus(truth.relayed, moved))
      BY <3>3 DEF AtMost, Plus
    <3>6. conduit.uptime + 1 \in 0 .. limits.uptime
      BY <1>0, <3>2 DEF Ground, Bounds
    <3>7. /\ conduit'.bytes = Plus(conduit.bytes, moved)
          /\ truth'.relayed = Plus(truth.relayed, moved)
      BY <3>1 DEF Ground
    <3> QED BY <3>1, <3>4, <3>5, <3>6, <3>7 DEF Ground
  <2>2. CASE ConduitRestarts
    <3>1. FreshConduit \in [uptime : 0 .. limits.uptime, bytes : BytesOf(limits)]
      BY <1>0 DEF FreshConduit, Zero, BytesOf, Bounds
    <3>2. /\ conduit' = FreshConduit
          /\ truth' = [truth EXCEPT !.restarts = truth.restarts + 1]
      BY <2>2 DEF ConduitRestarts
    <3>3. truth' \in [relayed : BytesOf(limits), base : BytesOf(limits), restarts : Nat,
                      losses : Nat]
      BY <3>2 DEF Ground
    <3>4. AtMost(FreshConduit.bytes, truth'.relayed)
      BY <1>0, <3>3 DEF FreshConduit, Zero, AtMost, BytesOf, Bounds
    <3> QED BY <3>1, <3>2, <3>3, <3>4
  <2>3. CASE DayEnds \/ ClockSynchronizes \/ ClockIsStepped \/ JournalSyncs
    BY <2>3 DEF Ground, DayEnds, ClockSynchronizes, ClockIsStepped, JournalSyncs
  <2> QED BY <2>1, <2>2, <2>3
<1>4. clock' \in [day : 1 .. limits.day, wall : 1 .. limits.day, synced : BOOLEAN]
  <2>1. CASE DayEnds
    <3>1. limits.day \in Nat /\ clock.day \in 1 .. limits.day /\ clock.wall \in 1 .. limits.day
      BY <1>0 DEF Ground, Bounds
    <3> DEFINE shown == IF clock.wall < limits.day THEN clock.wall + 1 ELSE clock.wall
    <3>2. clock.day + 1 \in 1 .. limits.day /\ shown \in 1 .. limits.day
      BY <2>1, <3>1 DEF DayEnds
    <3>3. clock' = [clock EXCEPT !.day = clock.day + 1, !.wall = shown]
      BY <2>1 DEF DayEnds
    <3> QED BY <3>2, <3>3 DEF Ground
  <2>2. CASE ClockSynchronizes
    BY <2>2 DEF Ground, ClockSynchronizes
  <2>3. CASE ClockIsStepped
    BY <2>3 DEF Ground, ClockIsStepped, Days
  <2>4. CASE ConduitRuns \/ ConduitRestarts \/ JournalSyncs
    BY <2>4 DEF Ground, ConduitRuns, ConduitRestarts, JournalSyncs
  <2> QED BY <2>1, <2>2, <2>3, <2>4
<1> QED BY <1>1, <1>2, <1>3, <1>4 DEF Ground, MemoryMatchesTables

LEMMA GroundLoss ==
  ASSUME Ground, PowerLoss
  PROVE  Ground'
<1>0. limits \in Bounds
  BY GroundTyped
<1>1. /\ db' = disk /\ disk' = disk /\ limits' = limits /\ col' = Off /\ conduit' = FreshConduit
      /\ truth' = [truth EXCEPT !.losses = truth.losses + 1]
  BY DEF PowerLoss
<1>2. Zero \in BytesOf(limits)
  BY <1>0 DEF Zero, BytesOf, Bounds
<1>3. Off \in ColStates(limits) /\ Off.at = "off"
  BY <1>0, <1>2 DEF Off, NoReading, ColStates, Readings, Bounds
<1>4. FreshConduit \in [uptime : 0 .. limits.uptime, bytes : BytesOf(limits)]
  BY <1>0, <1>2 DEF FreshConduit, Bounds
<1>5. truth' \in [relayed : BytesOf(limits), base : BytesOf(limits), restarts : Nat, losses : Nat]
  BY <1>1 DEF Ground
<1>6. AtMost(FreshConduit.bytes, truth'.relayed)
  BY <1>0, <1>5 DEF FreshConduit, Zero, AtMost, BytesOf, Bounds
<1>7. clock' \in [day : 1 .. limits.day, wall : 1 .. limits.day, synced : BOOLEAN]
  BY DEF Ground, PowerLoss, Days
<1>8. MemoryMatchesTables'
  BY <1>1, <1>3 DEF MemoryMatchesTables
<1> QED BY <1>1, <1>3, <1>4, <1>5, <1>6, <1>7, <1>8 DEF Ground

LEMMA GroundCollector ==
  ASSUME Ground, Collector
  PROVE  Ground'
<1>0. limits \in Bounds
  BY GroundTyped
<1>1. /\ disk' = disk /\ limits' = limits /\ conduit' = conduit /\ clock' = clock
  BY DEF Collector, CollectorStarts, CollectorEnds, TickBegins, TickDefers, TickReads,
         TickPersists, TickPersistFails, PruneCommits, PruneFails
<1>2. Zero \in BytesOf(limits)
  BY <1>0 DEF Zero, BytesOf, Bounds
<1>3. /\ NoReading \in Readings(limits) /\ 0 \in 0 .. limits.day
      /\ Off \in ColStates(limits) /\ Off.at = "off"
  BY <1>0, <1>2 DEF Off, NoReading, ColStates, Readings, Bounds
<1>4. ASSUME db' = db, truth' = truth, col' \in ColStates(limits),
             col'.at \in {"reader", "decide", "prune"} => col'.now \in 1 .. limits.day,
             col'.at \in {"decide", "prune"} => col'.synced = TRUE,
             col'.at # "off" => col'.prev = LatestSnapshot(db) /\ col'.epoch = ActiveEpoch(db),
             col'.at # "prune"
      PROVE  Ground'
  BY <1>1, <1>4 DEF Ground, MemoryMatchesTables
<1>5. col.at # "off" => col.prev = LatestSnapshot(db) /\ col.epoch = ActiveEpoch(db)
  BY DEF Ground, MemoryMatchesTables
<1>6. col \in ColStates(limits)
  BY DEF Ground
<1>7. /\ Waiting(col) \in ColStates(limits) /\ Waiting(col).at = "waiting"
      /\ Waiting(col).prev = col.prev /\ Waiting(col).epoch = col.epoch
  BY <1>3, <1>6 DEF Waiting, ColStates
<1>8. CASE CollectorStarts
  <2>1. /\ LatestSnapshot(db) \in RowsOf(limits) \cup {None}
        /\ ActiveEpoch(db) \in 1 .. limits.ticks \cup {None}
    BY <1>0, KeptIs DEF Ground
  <2> DEFINE prev == LatestSnapshot(db)
             epoch == ActiveEpoch(db)
  <2> HIDE DEF prev, epoch
  <2>2. col' = [Off EXCEPT !.at = "waiting", !.prev = prev, !.epoch = epoch]
    BY <1>8 DEF CollectorStarts, prev, epoch
  <2>3. /\ col' \in ColStates(limits) /\ col'.at = "waiting"
        /\ col'.prev = prev /\ col'.epoch = epoch
    BY <1>3, <2>1, <2>2 DEF ColStates, prev, epoch
  <2>4. db' = db /\ truth' = truth
    BY <1>8 DEF CollectorStarts
  <2> QED BY <1>4, <2>3, <2>4 DEF prev, epoch
<1>9. CASE CollectorEnds
  BY <1>3, <1>4, <1>9 DEF CollectorEnds
<1>10. CASE TickBegins
  <2>1. col' = [col EXCEPT !.at = "reader", !.synced = clock.synced, !.now = clock.wall]
    BY <1>10 DEF TickBegins
  <2>2. clock.wall \in 1 .. limits.day /\ clock.wall \in 0 .. limits.day /\ clock.synced \in BOOLEAN
    BY <1>0 DEF Ground, Bounds
  <2>3. /\ col' \in ColStates(limits) /\ col'.at = "reader" /\ col'.now = clock.wall
        /\ col'.prev = col.prev /\ col'.epoch = col.epoch
    BY <1>6, <2>1, <2>2 DEF ColStates
  <2>4. db' = db /\ truth' = truth /\ col.at # "off"
    BY <1>10 DEF TickBegins
  <2> QED BY <1>4, <1>5, <2>2, <2>3, <2>4
<1>11. CASE TickDefers \/ TickPersistFails \/ PruneFails
  <2>1. db' = db /\ truth' = truth /\ col.at # "off" /\ col' = Waiting(col)
    BY <1>11 DEF TickDefers, TickPersistFails, PruneFails
  <2> QED BY <1>4, <1>5, <1>7, <2>1
<1>12. CASE TickReads
  <2>1. /\ col' = [col EXCEPT !.at = "decide", !.reading = Reading]
        /\ col.at = "reader" /\ col.synced = TRUE /\ db' = db /\ truth' = truth
    BY <1>6, <1>12 DEF TickReads, ColStates
  <2>2. Reading \in Readings(limits) /\ col.now \in 1 .. limits.day
    BY <2>1, GroundTyped DEF Ground
  <2>3. /\ col' \in ColStates(limits) /\ col'.at = "decide" /\ col'.now = col.now
        /\ col'.synced = col.synced /\ col'.prev = col.prev /\ col'.epoch = col.epoch
    BY <1>6, <2>1, <2>2 DEF ColStates
  <2> QED BY <1>4, <1>5, <2>1, <2>2, <2>3
<1>13. CASE TickPersists
  <2>1. /\ Kept(db', limits) /\ DOMAIN db'.snapshots # {}
        /\ LatestSnapshot(db') = col'.prev /\ ActiveEpoch(db') = col'.epoch
        /\ LatestSnapshot(db').day = col.now
        /\ truth' \in [relayed : BytesOf(limits), base : BytesOf(limits), restarts : Nat,
                       losses : Nat]
        /\ truth' = [truth EXCEPT !.base = truth'.base]
    BY <1>13, Persisted
  <2>2. truth'.relayed = truth.relayed
    BY <2>1 DEF Ground
  <2>3. /\ col'.prev \in RowsOf(limits) \cup {None}
        /\ col'.epoch \in 1 .. limits.ticks \cup {None}
    BY <1>0, <2>1, KeptIs
  <2>4. /\ col' = [col EXCEPT !.at = col'.at, !.synced = col'.synced, !.now = col'.now,
                              !.reading = NoReading, !.prev = col'.prev, !.epoch = col'.epoch]
        /\ \/ col'.at = "waiting" /\ col'.synced = FALSE /\ col'.now = 0
           \/ col'.at = "prune" /\ col'.synced = col.synced /\ col'.now = col.now
    <3> DEFINE decision == Decide(col.reading, col.prev, col.now)
    <3> HIDE DEF decision
    <3>1. col' = LET moved == Advanced(col, decision)
                 IN IF col.now = col.pruned
                    THEN Waiting(moved)
                    ELSE [moved EXCEPT !.at = "prune", !.reading = NoReading]
      BY <1>13 DEF TickPersists, decision
    <3> QED BY <1>6, <3>1 DEF Advanced, Waiting, ColStates
  <2>5. /\ col.synced = TRUE /\ col.now \in 1 .. limits.day
    BY <1>13 DEF TickPersists, Ground
  <2>6. /\ col' \in ColStates(limits)
        /\ col'.at \in {"reader", "decide", "prune"} => col'.now \in 1 .. limits.day
        /\ col'.at \in {"decide", "prune"} => col'.synced = TRUE
        /\ col'.at = "prune" => LatestSnapshot(db').day = col'.now
    BY <1>3, <1>6, <2>1, <2>3, <2>4, <2>5 DEF ColStates
  <2>7. MemoryMatchesTables'
    BY <2>1 DEF MemoryMatchesTables
  <2> QED BY <1>1, <2>1, <2>2, <2>6, <2>7 DEF Ground
<1>14. CASE PruneCommits
  <2>1. /\ Kept(db', limits) /\ DOMAIN db'.snapshots # {}
        /\ LatestSnapshot(db') = LatestSnapshot(db) /\ ActiveEpoch(db') = ActiveEpoch(db)
    BY <1>14, Pruned
  <2>2. /\ col' = [Waiting(col) EXCEPT !.pruned = col.now] /\ truth' = truth
        /\ col.at = "prune" /\ col.now \in 0 .. limits.day
    BY <1>6, <1>14 DEF PruneCommits, ColStates
  <2>3. /\ col' \in ColStates(limits) /\ col'.at = "waiting"
        /\ col'.prev = col.prev /\ col'.epoch = col.epoch
    BY <1>7, <2>2 DEF ColStates
  <2>4. MemoryMatchesTables'
    BY <1>5, <2>1, <2>2, <2>3 DEF MemoryMatchesTables
  <2> QED BY <1>1, <2>1, <2>2, <2>3, <2>4 DEF Ground
<1> QED BY <1>8, <1>9, <1>10, <1>11, <1>12, <1>13, <1>14 DEF Collector

LEMMA GroundStep == Ground /\ [Next]_vars => Ground'
<1> SUFFICES ASSUME Ground, [Next]_vars PROVE Ground'
  OBVIOUS
<1>1. CASE UNCHANGED vars
  BY <1>1 DEF vars, Ground, MemoryMatchesTables
<1>2. CASE Environment
  BY <1>2, GroundEnvironment, GroundLoss DEF Environment
<1>3. CASE Collector
  BY <1>3, GroundCollector
<1> QED BY <1>1, <1>2, <1>3 DEF Next

-----------------------------------------------------------------------------
(* What is counted was relayed                                              *)

Accounting ==
  /\ Accounted(db, truth.base, Reading)
  /\ Accounted(disk, truth.base, Reading)
  /\ col.at = "decide" => /\ Accounted(db, truth.base, col.reading)
                          /\ Later(col.reading, Reading)

LEMMA AccountedLater ==
  ASSUME NEW L \in Bounds, NEW t, Kept(t, L), NEW base \in Counts,
         NEW k \in Measures, NEW l \in Measures, Accounted(t, base, k), Later(k, l)
  PROVE  Accounted(t, base, l)
<1> SUFFICES ASSUME DOMAIN t.snapshots # {} PROVE Later(Seen(t, base), l)
  BY DEF Accounted
<1>1. Later(Seen(t, base), k)
  BY DEF Accounted
<1>2. PICK n \in Nat : Shape(t, n)
  BY DEF Kept
<1>3. t \in Tables(L)
  BY DEF Kept
<1>4. n > 0
  BY <1>2, <1>3, NewestIs
<1>5. Seen(t, base) \in Measures
  BY <1>2, <1>3, <1>4, SeenTyped
<1> QED BY <1>1, <1>5, LaterChain

(* Whatever Conduit and the host do, the next reading is a later one.       *)
LEMMA ReadingMoves ==
  ASSUME Ground, Ground', [Next]_vars
  PROVE  Later(Reading, Reading')
<1>1. Reading \in Measures /\ limits \in Bounds
  BY GroundTyped
<1>2. \A d \in Directions : conduit.bytes[d] \in Nat /\ truth.relayed[d] \in Nat
  BY <1>1 DEF Reading, Measures, Counts
<1>3. CASE ConduitRuns
  <2>1. PICK moved \in [Directions -> {0, 1}] :
          /\ conduit' = [uptime |-> conduit.uptime + 1, bytes |-> Plus(conduit.bytes, moved)]
          /\ truth' = [truth EXCEPT !.relayed = Plus(@, moved)]
    BY <1>3 DEF ConduitRuns
  <2>2. conduit'.uptime = conduit.uptime + 1 /\ conduit'.bytes = Plus(conduit.bytes, moved)
        /\ truth'.relayed = Plus(truth.relayed, moved)
    BY <2>1 DEF Ground
  <2>3. conduit.uptime \in Nat /\ \A d \in Directions : moved[d] \in Nat
    BY <1>1 DEF Reading, Measures
  <2> QED BY <1>2, <2>2, <2>3 DEF Later, Reading, Plus
<1>4. CASE conduit' = FreshConduit /\ truth'.relayed = truth.relayed
  BY <1>2, <1>4 DEF FreshConduit, Zero, Later, Reading
<1>5. CASE conduit' = conduit /\ truth'.relayed = truth.relayed
  <2>1. Reading' = Reading
    BY <1>5 DEF Reading
  <2> QED BY <1>1, <2>1, LaterSelf
<1>6. CASE ConduitRestarts \/ PowerLoss
  <2>1. conduit' = FreshConduit /\ truth'.relayed = truth.relayed
    BY <1>6 DEF Ground, ConduitRestarts, PowerLoss
  <2> QED BY <1>4, <2>1
<1>7. CASE TickPersists
  <2>1. conduit' = conduit /\ truth' = [truth EXCEPT !.base = truth'.base]
    BY <1>7, Persisted DEF TickPersists
  <2> QED BY <1>5, <2>1 DEF Ground
<1>8. CASE \/ DayEnds \/ ClockSynchronizes \/ ClockIsStepped \/ JournalSyncs
           \/ CollectorStarts \/ CollectorEnds \/ TickBegins \/ TickDefers \/ TickReads
           \/ TickPersistFails \/ PruneCommits \/ PruneFails \/ UNCHANGED vars
  <2>1. conduit' = conduit /\ truth' = truth
    BY <1>8 DEF DayEnds, ClockSynchronizes, ClockIsStepped, JournalSyncs,
       CollectorStarts, CollectorEnds, TickBegins, TickDefers, TickReads,
       TickPersistFails, PruneCommits, PruneFails, vars
  <2> QED BY <1>5, <2>1
<1> QED BY <1>3, <1>6, <1>7, <1>8 DEF Next, Environment, Collector

LEMMA AccountingInit == Init => Accounting
BY DEF Init, Accounting, Accounted, EmptyTables, Off

LEMMA AccountingStep ==
  ASSUME Ground, Ground', Accounting, [Next]_vars
  PROVE  Accounting'
<1>1. /\ limits \in Bounds /\ Reading \in Measures /\ col.reading \in Measures
      /\ truth.base \in Counts
  BY GroundTyped
<1>2. Reading' \in Measures /\ truth'.base \in Counts
  <2>1. limits' \in Bounds
    BY ScenariosAreBounds DEF Ground, Bounds
  <2>2. Readings(limits') \subseteq Measures /\ BytesOf(limits') \subseteq Counts
    BY <2>1 DEF Bounds, Readings, Measures, BytesOf, Counts
  <2>3. Reading' \in Readings(limits')
    BY DEF Ground, Reading, Readings
  <2> QED BY <2>2, <2>3 DEF Ground
<1>3. Later(Reading, Reading')
  BY ReadingMoves
<1>4. Accounted(db, truth.base, Reading') /\ Accounted(disk, truth.base, Reading')
  BY <1>1, <1>2, <1>3, AccountedLater DEF Ground, Accounting
<1>5. col.at = "decide" => Later(col.reading, Reading')
  BY <1>1, <1>2, <1>3, LaterChain DEF Accounting
<1>6. CASE \/ ConduitRuns \/ ConduitRestarts \/ DayEnds \/ ClockSynchronizes
           \/ ClockIsStepped \/ JournalSyncs \/ UNCHANGED vars
  <2>1. /\ db' = db /\ col' = col /\ (disk' = disk \/ disk' = db) /\ truth'.base = truth.base
    BY <1>6 DEF Ground, ConduitRuns, ConduitRestarts, DayEnds, ClockSynchronizes,
       ClockIsStepped, JournalSyncs, vars
  <2> QED BY <1>4, <1>5, <2>1 DEF Accounting
<1>7. CASE PowerLoss
  <2>1. db' = disk /\ disk' = disk /\ col'.at = "off" /\ truth'.base = truth.base
    BY <1>7 DEF Ground, PowerLoss, Off
  <2> QED BY <1>4, <2>1 DEF Accounting
<1>8. CASE \/ CollectorStarts \/ CollectorEnds \/ TickBegins \/ TickDefers
           \/ TickPersistFails \/ PruneFails
  <2>1. db' = db /\ disk' = disk /\ truth' = truth
    BY <1>8 DEF CollectorStarts, CollectorEnds, TickBegins, TickDefers, TickPersistFails,
       PruneFails
  <2>2. col'.at # "decide"
    <3>1. col \in ColStates(limits)
      BY DEF Ground
    <3>2. CASE CollectorStarts
      BY <3>2 DEF CollectorStarts, Off
    <3>3. CASE CollectorEnds
      BY <3>3 DEF CollectorEnds, Off
    <3>4. CASE TickBegins
      BY <3>1, <3>4 DEF TickBegins, ColStates
    <3>5. CASE TickDefers \/ TickPersistFails \/ PruneFails
      BY <3>1, <3>5 DEF TickDefers, TickPersistFails, PruneFails, Waiting, ColStates
    <3> QED BY <1>8, <3>2, <3>3, <3>4, <3>5
  <2> QED BY <1>4, <2>1, <2>2 DEF Accounting
<1>9. CASE TickReads
  <2>1. db' = db /\ disk' = disk /\ truth' = truth /\ col'.reading = Reading /\ Reading' = Reading
    BY <1>9 DEF TickReads, Ground, ColStates, Reading
  <2> QED BY <1>3, <1>4, <2>1 DEF Accounting
<1>10. CASE TickPersists
  <2>1. /\ Kept(db', limits)
        /\ DOMAIN db.snapshots # {} => truth' = truth
        /\ Accounted(db, truth.base, col.reading) => Accounted(db', truth'.base, col.reading)
    BY <1>10, Persisted
  <2>2. col.at = "decide" /\ disk' = disk
    BY <1>10 DEF TickPersists
  <2>3. Accounted(db', truth'.base, Reading')
    BY <1>1, <1>2, <1>5, <2>1, <2>2, AccountedLater DEF Accounting
  <2>4. Accounted(disk', truth'.base, Reading')
    <3>1. CASE DOMAIN disk.snapshots = {}
      BY <2>2, <3>1 DEF Accounted
    <3>2. CASE DOMAIN disk.snapshots # {}
      BY <1>4, <2>1, <2>2, <3>2 DEF Ground
    <3> QED BY <3>1, <3>2
  <2>5. col'.at # "decide"
    <3> DEFINE decision == Decide(col.reading, col.prev, col.now)
    <3> HIDE DEF decision
    <3>1. col' = LET moved == Advanced(col, decision)
                 IN IF col.now = col.pruned
                    THEN Waiting(moved)
                    ELSE [moved EXCEPT !.at = "prune", !.reading = NoReading]
      BY <1>10 DEF TickPersists, decision
    <3>2. col \in ColStates(limits)
      BY DEF Ground
    <3> QED BY <3>1, <3>2 DEF Advanced, Waiting, ColStates
  <2> QED BY <2>3, <2>4, <2>5 DEF Accounting
<1>11. CASE PruneCommits
  <2>1. /\ LatestSnapshot(db') = LatestSnapshot(db) /\ ComputeLifetime(db') = ComputeLifetime(db)
        /\ DOMAIN db.snapshots # {}
    BY <1>11, Pruned
  <2>2. disk' = disk /\ truth' = truth /\ col'.at # "decide"
    <3>1. col \in ColStates(limits)
      BY DEF Ground
    <3> QED BY <1>11, <3>1 DEF PruneCommits, Waiting, ColStates
  <2>3. Accounted(db', truth'.base, Reading')
    BY <1>4, <2>1, <2>2 DEF Accounted, Seen
  <2> QED BY <1>4, <2>2, <2>3 DEF Accounting
<1> QED BY <1>6, <1>7, <1>8, <1>9, <1>10, <1>11 DEF Next, Environment, Collector

-----------------------------------------------------------------------------
(* Under a clock that nobody steps                                          *)

Busy == col.at \in {"reader", "decide", "prune"}

(* A tick lands on the day it began, and that day is not folded in yet.     *)
Calendar == ~limits.steps =>
  /\ Settled(db) /\ Settled(disk)
  /\ DatedBy(db, clock.day) /\ DatedBy(disk, clock.day)
  /\ clock.synced = TRUE => clock.wall = clock.day
  /\ Busy /\ col.synced = TRUE => DatedBy(db, col.now) /\ col.now <= clock.day

LEMMA DatedLater ==
  ASSUME NEW L \in Bounds, NEW t \in Tables(L), NEW D \in Nat, NEW E \in Nat, D <= E,
         DatedBy(t, D)
  PROVE  DatedBy(t, E)
<1>1. \A i \in DOMAIN t.snapshots : t.snapshots[i].day \in Nat
  <2>1. t.snapshots \in Partial(1 .. L.ticks, RowsOf(L))
    BY DEF Tables
  <2>2. \A i \in DOMAIN t.snapshots : t.snapshots[i] \in RowsOf(L)
    BY <2>1, PartialHas
  <2> QED BY <2>2 DEF RowsOf, Bounds
<1>2. DOMAIN t.daily \subseteq Nat /\ DOMAIN t.checkpoints \subseteq Nat
  BY TablesTyped
<1> QED BY <1>1, <1>2 DEF DatedBy

LEMMA CalendarInit == Init => Calendar
<1> SUFFICES ASSUME Init PROVE Calendar
  OBVIOUS
<1>1. limits \in Bounds
  BY ScenariosAreBounds DEF Init, Bounds
<1>2. Hours(EmptyTables) /\ DatedBy(EmptyTables, clock.day)
  BY DEF Hours, DatedBy, EmptyTables
<1>3. Settled(EmptyTables)
  BY <1>1, <1>2, EmptyIs DEF Settled
<1>4. clock.synced = FALSE /\ ~Busy
  BY DEF Init, Busy, Off
<1> QED BY <1>2, <1>3, <1>4 DEF Init, Calendar

LEMMA CalendarStep ==
  ASSUME Ground, Ground', Calendar, [Next]_vars
  PROVE  Calendar'
<1> SUFFICES ASSUME ~limits'.steps PROVE Calendar'
  BY DEF Calendar
<1>0. /\ limits \in Bounds /\ db \in Tables(limits) /\ disk \in Tables(limits)
      /\ clock.day \in Nat /\ limits.day \in Nat
  <2>1. limits \in Bounds /\ db \in Tables(limits) /\ disk \in Tables(limits)
    BY GroundTyped
  <2>2. limits.day \in Nat /\ clock.day \in 1 .. limits.day
    BY <2>1 DEF Ground, Bounds
  <2> QED BY <2>1, <2>2
<1>1. limits' = limits
  BY DEF Next, Environment, Collector, vars, ConduitRuns, ConduitRestarts, DayEnds,
     ClockSynchronizes, ClockIsStepped, JournalSyncs, PowerLoss, CollectorStarts, CollectorEnds,
     TickBegins, TickDefers, TickReads, TickPersists, TickPersistFails, PruneCommits, PruneFails
<1>2. /\ Settled(db) /\ Settled(disk)
      /\ DatedBy(db, clock.day) /\ DatedBy(disk, clock.day)
      /\ clock.synced = TRUE => clock.wall = clock.day
      /\ Busy /\ col.synced = TRUE => DatedBy(db, col.now) /\ col.now <= clock.day
  BY <1>1 DEF Calendar
<1>3. CASE ConduitRuns \/ ConduitRestarts \/ JournalSyncs \/ UNCHANGED vars
  <2>1. db' = db /\ col' = col /\ clock' = clock /\ (disk' = disk \/ disk' = db)
    BY <1>3 DEF ConduitRuns, ConduitRestarts, JournalSyncs, vars
  <2> QED BY <1>2, <2>1 DEF Calendar, Busy
<1>4. CASE DayEnds
  <2>1. db' = db /\ col' = col /\ disk' = disk
    BY <1>4 DEF DayEnds
  <2>2. clock'.day = clock.day + 1 /\ (clock'.synced = TRUE => clock'.wall = clock'.day)
    <3>1. /\ clock.day < limits.day
          /\ clock' = [clock EXCEPT !.day = clock.day + 1,
                          !.wall = IF clock.wall < limits.day THEN clock.wall + 1 ELSE clock.wall]
      BY <1>4 DEF DayEnds
    <3>2. /\ clock'.day = clock.day + 1 /\ clock'.synced = clock.synced
          /\ clock'.wall = IF clock.wall < limits.day THEN clock.wall + 1 ELSE clock.wall
      BY <3>1 DEF Ground
    <3> QED BY <1>0, <1>2, <3>1, <3>2
  <2>3. DatedBy(db, clock.day + 1) /\ DatedBy(disk, clock.day + 1)
    BY <1>0, <1>2, DatedLater
  <2>4. Busy => col.now \in Nat
    BY <1>0 DEF Busy, Ground
  <2> QED BY <1>0, <1>2, <2>1, <2>2, <2>3, <2>4 DEF Calendar, Busy
<1>5. CASE ClockSynchronizes
  <2>1. /\ db' = db /\ col' = col /\ disk' = disk
        /\ clock' = [clock EXCEPT !.wall = clock.day, !.synced = TRUE]
    BY <1>5 DEF ClockSynchronizes
  <2>2. clock'.day = clock.day /\ clock'.wall = clock'.day
    BY <2>1 DEF Ground
  <2> QED BY <1>2, <2>1, <2>2 DEF Calendar, Busy
<1>6. CASE ClockIsStepped
  BY <1>1, <1>6 DEF ClockIsStepped
<1>7. CASE PowerLoss
  <2>1. db' = disk /\ disk' = disk /\ col' = Off
    BY <1>7 DEF PowerLoss
  <2>2. clock'.day = clock.day /\ clock'.synced = FALSE
    BY <1>7 DEF PowerLoss, Ground
  <2>3. ~Busy'
    BY <2>1 DEF Busy, Off
  <2> QED BY <1>2, <2>1, <2>2, <2>3 DEF Calendar
<1>8. CASE CollectorStarts \/ CollectorEnds \/ TickDefers \/ TickPersistFails \/ PruneFails
  <2>1. db' = db /\ disk' = disk /\ clock' = clock
    BY <1>8 DEF CollectorStarts, CollectorEnds, TickDefers, TickPersistFails, PruneFails
  <2>2. ~Busy'
    <3>1. col \in ColStates(limits)
      BY DEF Ground
    <3>2. CASE CollectorStarts
      BY <3>2 DEF CollectorStarts, Off, Busy
    <3>3. CASE CollectorEnds
      BY <3>3 DEF CollectorEnds, Off, Busy
    <3>4. CASE TickDefers \/ TickPersistFails \/ PruneFails
      BY <3>1, <3>4 DEF TickDefers, TickPersistFails, PruneFails, Waiting, ColStates, Busy
    <3> QED BY <1>8, <3>2, <3>3, <3>4
  <2> QED BY <1>2, <2>1, <2>2 DEF Calendar
<1>9. CASE TickBegins
  <2>1. /\ db' = db /\ disk' = disk /\ clock' = clock
        /\ col'.synced = clock.synced /\ col'.now = clock.wall
    BY <1>9 DEF TickBegins, Ground, ColStates
  <2> QED BY <1>0, <1>2, <2>1 DEF Calendar
<1>10. CASE TickReads
  <2>1. /\ db' = db /\ disk' = disk /\ clock' = clock /\ Busy
        /\ col'.synced = col.synced /\ col'.now = col.now
    BY <1>10 DEF TickReads, Ground, ColStates, Busy
  <2> QED BY <1>2, <2>1 DEF Calendar
<1>11. CASE TickPersists
  <2>1. disk' = disk /\ clock' = clock /\ Busy /\ col.synced = TRUE /\ col.now \in Nat
    BY <1>0, <1>11 DEF TickPersists, Ground, Busy
  <2>2. DatedBy(db, col.now) /\ col.now <= clock.day
    BY <1>2, <2>1
  <2>3. /\ Kept(db', limits) /\ DatedBy(db', col.now) /\ Settled(db')
    BY <1>2, <1>11, <2>2, Persisted
  <2>4. DatedBy(db', clock.day)
    BY <1>0, <2>1, <2>2, <2>3, DatedLater DEF Kept
  <2>5. Busy' /\ col'.synced = TRUE => col'.now = col.now
    <3> DEFINE decision == Decide(col.reading, col.prev, col.now)
    <3> HIDE DEF decision
    <3>1. col' = LET moved == Advanced(col, decision)
                 IN IF col.now = col.pruned
                    THEN Waiting(moved)
                    ELSE [moved EXCEPT !.at = "prune", !.reading = NoReading]
      BY <1>11 DEF TickPersists, decision
    <3>2. col \in ColStates(limits)
      BY DEF Ground
    <3> QED BY <3>1, <3>2 DEF Advanced, Waiting, ColStates, Busy
  <2> QED BY <1>2, <2>1, <2>2, <2>3, <2>4, <2>5 DEF Calendar
<1>12. CASE PruneCommits
  <2>1. \A D : DatedBy(db, D) => DatedBy(db', D)
    BY <1>12, Pruned
  <2>2. Settled(db')
    BY <1>2, <1>12, Pruned
  <2>3. disk' = disk /\ clock' = clock /\ ~Busy'
    <3>1. col \in ColStates(limits)
      BY DEF Ground
    <3> QED BY <1>12, <3>1 DEF PruneCommits, Waiting, ColStates, Busy
  <2> QED BY <1>2, <2>1, <2>2, <2>3 DEF Calendar
<1> QED BY <1>3, <1>4, <1>5, <1>6, <1>7, <1>8, <1>9, <1>10, <1>11, <1>12
        DEF Next, Environment, Collector

-----------------------------------------------------------------------------
(* While Conduit has not restarted                                          *)

Calm == truth.restarts = 0 /\ truth.losses = 0 /\ ~limits.steps

(* Nothing is missing from the total up to the newest row.                  *)
Lossless == Calm =>
  /\ Exact(db, truth.base, Reading)
  /\ col.at = "decide" => /\ Exact(db, truth.base, col.reading)
                          /\ col.reading.uptime <= conduit.uptime
                          /\ AtMost(col.reading.bytes, conduit.bytes)

LEMMA ExactLater ==
  ASSUME NEW L \in Bounds, NEW t, Kept(t, L), NEW base \in Counts,
         NEW k \in Measures, NEW l \in Measures, Exact(t, base, k),
         l.bytes = l.relayed, k.uptime <= l.uptime, AtMost(k.bytes, l.bytes)
  PROVE  Exact(t, base, l)
<1> SUFFICES ASSUME DOMAIN t.snapshots # {}
             PROVE  /\ Seen(t, base).uptime <= l.uptime
                    /\ AtMost(Seen(t, base).bytes, l.bytes)
  BY DEF Exact
<1>1. PICK n \in Nat : Shape(t, n)
  BY DEF Kept
<1>2. t \in Tables(L)
  BY DEF Kept
<1>3. Seen(t, base) \in Measures
  BY <1>1, <1>2, NewestIs, SeenTyped
<1>4. Seen(t, base).uptime <= k.uptime /\ AtMost(Seen(t, base).bytes, k.bytes)
  BY DEF Exact
<1> HIDE DEF Seen
<1> QED BY <1>3, <1>4 DEF Measures, Counts, AtMost

LEMMA LosslessInit == Init => Lossless
BY DEF Init, Lossless, Exact, EmptyTables, Off, Reading

LEMMA LosslessStep ==
  ASSUME Ground, Ground', Accounting, Calendar, Lossless, [Next]_vars
  PROVE  Lossless'
<1> SUFFICES ASSUME Calm' PROVE Lossless'
  BY DEF Lossless
<1>0. /\ limits \in Bounds /\ Reading \in Measures /\ col.reading \in Measures
      /\ truth.base \in Counts
  BY GroundTyped
<1>1. CASE UNCHANGED vars
  BY <1>1 DEF vars, Calm, Lossless, Reading
<1>2. CASE ConduitRuns
  <2>1. PICK moved \in [Directions -> {0, 1}] :
          /\ conduit' = [uptime |-> conduit.uptime + 1, bytes |-> Plus(conduit.bytes, moved)]
          /\ truth' = [truth EXCEPT !.relayed = Plus(@, moved)]
    BY <1>2 DEF ConduitRuns
  <2>2. /\ conduit'.uptime = conduit.uptime + 1 /\ conduit'.bytes = Plus(conduit.bytes, moved)
        /\ truth'.relayed = Plus(truth.relayed, moved) /\ truth'.base = truth.base
        /\ truth'.restarts = truth.restarts /\ truth'.losses = truth.losses
        /\ db' = db /\ col' = col /\ limits' = limits
    BY <1>2, <2>1 DEF Ground, ConduitRuns
  <2>3. Calm
    BY <2>2 DEF Calm
  <2>4. conduit.bytes = truth.relayed /\ Exact(db, truth.base, Reading)
    BY <2>3 DEF Lossless, Exact, Reading
  <2>5. /\ conduit.uptime \in Nat
        /\ \A d \in Directions : conduit.bytes[d] \in Nat /\ moved[d] \in Nat
    BY <1>0 DEF Reading, Measures, Counts
  <2>6. /\ Reading'.bytes = Reading'.relayed /\ Reading.uptime <= Reading'.uptime
        /\ AtMost(Reading.bytes, Reading'.bytes)
    BY <2>2, <2>4, <2>5 DEF Reading, AtMost, Plus
  <2>7. Reading' \in Measures
    <3>1. Plus(conduit.bytes, moved) \in Counts /\ conduit.uptime + 1 \in Nat
      BY <2>5 DEF Plus, Counts
    <3> QED BY <2>2, <2>4, <3>1 DEF Reading, Measures
  <2>8. Exact(db, truth.base, Reading')
    BY <1>0, <2>4, <2>6, <2>7, ExactLater DEF Ground
  <2>9. col.at = "decide" => /\ Exact(db, truth.base, col.reading)
                             /\ col.reading.uptime <= conduit.uptime + 1
                             /\ AtMost(col.reading.bytes, Plus(conduit.bytes, moved))
    <3> SUFFICES ASSUME col.at = "decide"
                 PROVE  /\ Exact(db, truth.base, col.reading)
                        /\ col.reading.uptime <= conduit.uptime + 1
                        /\ AtMost(col.reading.bytes, Plus(conduit.bytes, moved))
      OBVIOUS
    <3>1. /\ Exact(db, truth.base, col.reading) /\ col.reading.uptime <= conduit.uptime
          /\ AtMost(col.reading.bytes, conduit.bytes)
      BY <2>3 DEF Lossless
    <3>2. /\ col.reading.uptime \in Nat
          /\ \A d \in Directions : col.reading.bytes[d] \in Nat
      BY <1>0 DEF Measures, Counts
    <3> QED BY <2>5, <3>1, <3>2 DEF AtMost, Plus
  <2> QED BY <2>2, <2>8, <2>9 DEF Lossless
<1>3. CASE ConduitRestarts \/ PowerLoss
  <2>1. truth'.restarts = truth.restarts + 1 \/ truth'.losses = truth.losses + 1
    BY <1>3 DEF Ground, ConduitRestarts, PowerLoss
  <2>2. truth.restarts \in Nat /\ truth.losses \in Nat
    BY DEF Ground
  <2> QED BY <2>1, <2>2 DEF Calm
<1>4. CASE DayEnds \/ ClockSynchronizes \/ ClockIsStepped \/ JournalSyncs
  <2>1. db' = db /\ col' = col /\ truth' = truth /\ conduit' = conduit /\ limits' = limits
    BY <1>4 DEF DayEnds, ClockSynchronizes, ClockIsStepped, JournalSyncs
  <2> QED BY <2>1 DEF Calm, Lossless, Reading
<1>5. CASE \/ CollectorStarts \/ CollectorEnds \/ TickBegins \/ TickDefers
           \/ TickPersistFails \/ PruneFails
  <2>1. db' = db /\ truth' = truth /\ conduit' = conduit /\ limits' = limits
    BY <1>5 DEF CollectorStarts, CollectorEnds, TickBegins, TickDefers, TickPersistFails,
       PruneFails
  <2>2. col'.at # "decide"
    <3>1. col \in ColStates(limits)
      BY DEF Ground
    <3>2. CASE CollectorStarts
      BY <3>2 DEF CollectorStarts, Off
    <3>3. CASE CollectorEnds
      BY <3>3 DEF CollectorEnds, Off
    <3>4. CASE TickBegins
      BY <3>1, <3>4 DEF TickBegins, ColStates
    <3>5. CASE TickDefers \/ TickPersistFails \/ PruneFails
      BY <3>1, <3>5 DEF TickDefers, TickPersistFails, PruneFails, Waiting, ColStates
    <3> QED BY <1>5, <3>2, <3>3, <3>4, <3>5
  <2> QED BY <2>1, <2>2 DEF Calm, Lossless, Reading
<1>6. CASE TickReads
  <2>1. /\ db' = db /\ truth' = truth /\ conduit' = conduit /\ limits' = limits
        /\ col'.reading = Reading
    BY <1>6 DEF TickReads, Ground, ColStates
  <2>2. Exact(db, truth.base, Reading)
    BY <2>1 DEF Calm, Lossless
  <2>3. conduit.uptime <= conduit.uptime /\ AtMost(conduit.bytes, conduit.bytes)
    BY <1>0 DEF Reading, Measures, Counts, AtMost
  <2> QED BY <2>1, <2>2, <2>3 DEF Lossless, Reading
<1>7. CASE TickPersists
  <2>1. /\ Kept(db', limits)
        /\ truth' = [truth EXCEPT !.base = truth'.base]
        /\ truth' \in [relayed : BytesOf(limits), base : BytesOf(limits), restarts : Nat,
                       losses : Nat]
        /\ Accounted(db, truth.base, col.reading) /\ Exact(db, truth.base, col.reading)
             /\ DatedBy(db, col.now) => Exact(db', truth'.base, col.reading)
    BY <1>7, Persisted
  <2>2. conduit' = conduit /\ limits' = limits /\ col.at = "decide"
    BY <1>7 DEF TickPersists
  <2>3. /\ truth'.relayed = truth.relayed /\ truth'.restarts = truth.restarts
        /\ truth'.losses = truth.losses
    BY <2>1 DEF Ground
  <2>4. Calm
    BY <2>2, <2>3 DEF Calm
  <2>5. /\ Exact(db, truth.base, Reading) /\ Exact(db, truth.base, col.reading)
        /\ col.reading.uptime <= conduit.uptime /\ AtMost(col.reading.bytes, conduit.bytes)
    BY <2>2, <2>4 DEF Lossless
  <2>6. DatedBy(db, col.now)
    BY <2>2, <2>4 DEF Calm, Calendar, Busy, Ground
  <2>7. Exact(db', truth'.base, col.reading)
    BY <2>1, <2>2, <2>5, <2>6 DEF Accounting
  <2>8. Reading' = Reading /\ Reading.bytes = Reading.relayed
    BY <2>2, <2>3, <2>5 DEF Reading, Exact
  <2>9. truth'.base \in Counts
    BY <1>0, <2>1 DEF BytesOf, Counts, Bounds
  <2>10. col.reading.uptime <= Reading.uptime /\ AtMost(col.reading.bytes, Reading.bytes)
    BY <2>5 DEF Reading
  <2>11. Exact(db', truth'.base, Reading')
    <3> HIDE DEF Reading
    <3> QED BY <1>0, <2>1, <2>7, <2>8, <2>9, <2>10, ExactLater
  <2>12. col'.at # "decide"
    <3> DEFINE decision == Decide(col.reading, col.prev, col.now)
    <3> HIDE DEF decision
    <3>1. col' = LET moved == Advanced(col, decision)
                 IN IF col.now = col.pruned
                    THEN Waiting(moved)
                    ELSE [moved EXCEPT !.at = "prune", !.reading = NoReading]
      BY <1>7 DEF TickPersists, decision
    <3>2. col \in ColStates(limits)
      BY DEF Ground
    <3> QED BY <3>1, <3>2 DEF Advanced, Waiting, ColStates
  <2> QED BY <2>11, <2>12 DEF Lossless
<1>8. CASE PruneCommits
  <2>1. /\ LatestSnapshot(db') = LatestSnapshot(db) /\ ComputeLifetime(db') = ComputeLifetime(db)
        /\ DOMAIN db.snapshots # {}
    BY <1>8, Pruned
  <2>2. truth' = truth /\ conduit' = conduit /\ limits' = limits /\ col'.at # "decide"
    <3>1. col \in ColStates(limits)
      BY DEF Ground
    <3> QED BY <1>8, <3>1 DEF PruneCommits, Waiting, ColStates
  <2>3. Exact(db, truth.base, Reading)
    BY <2>2 DEF Calm, Lossless
  <2>4. Exact(db', truth'.base, Reading')
    BY <2>1, <2>2, <2>3 DEF Exact, Seen, Reading
  <2> QED BY <2>2, <2>4 DEF Lossless
<1> QED BY <1>1, <1>2, <1>3, <1>4, <1>5, <1>6, <1>7, <1>8 DEF Next, Environment, Collector

-----------------------------------------------------------------------------
(* The theorems                                                             *)

LedgerInv == Ground /\ Accounting /\ Calendar /\ Lossless

LEMMA LedgerInvariant == Spec => []LedgerInv
<1>1. Init => LedgerInv
  BY GroundInit, AccountingInit, CalendarInit, LosslessInit DEF LedgerInv
<1>2. LedgerInv /\ [Next]_vars => LedgerInv'
  BY GroundStep, AccountingStep, CalendarStep, LosslessStep DEF LedgerInv
<1> QED BY <1>1, <1>2, PTL DEF Spec

(* Rows, counters, readings and the collector's memory stay in their types, *)
(* whatever the interleaving of ticks, restarts, power losses and a clock   *)
(* that is stepped (TrafficTypeOK).                                         *)
THEOREM LedgerTypes == Spec => []TrafficTypeOK
<1>1. LedgerInv => TrafficTypeOK
  <2> SUFFICES ASSUME Ground PROVE TrafficTypeOK
    BY DEF LedgerInv
  <2>1. limits \in Bounds /\ db \in Tables(limits)
    BY GroundTyped
  <2>2. Rows = RowsOf(limits) /\ Bytes = BytesOf(limits) /\ Days = 1 .. limits.day
    BY DEF Rows, RowsOf, Bytes, BytesOf, Days
  <2>3. Range(db.snapshots) \subseteq Rows
    <3>1. db.snapshots \in Partial(1 .. limits.ticks, RowsOf(limits))
      BY <2>1 DEF Tables
    <3>2. \A i \in DOMAIN db.snapshots : db.snapshots[i] \in RowsOf(limits)
      BY <3>1, PartialHas
    <3> QED BY <2>2, <3>2 DEF Range
  <2>4. Range(db.deltas) \subseteq [bytes : Bytes, day : Days, counted : BOOLEAN]
    <3>1. db.deltas \in Partial(1 .. limits.ticks, DeltasOf(limits))
      BY <2>1 DEF Tables
    <3>2. \A i \in DOMAIN db.deltas : db.deltas[i] \in DeltasOf(limits)
      BY <3>1, PartialHas
    <3>3. DeltasOf(limits) = [bytes : Bytes, day : Days, counted : BOOLEAN]
      BY <2>2 DEF DeltasOf
    <3> QED BY <3>2, <3>3 DEF Range
  <2>5. ToSet(db.epochs) \subseteq {"open", "ended"}
    BY <2>1 DEF Tables, ToSet
  <2>6. DOMAIN db.daily \subseteq Days /\ DOMAIN db.checkpoints \subseteq Days
    BY <2>1, <2>2, TablesTyped
  <2>7. DOMAIN db.hourly \subseteq Days
    <3>1. db.hourly \in Partial(1 .. limits.day, Counts)
      BY <2>1 DEF Tables
    <3> QED BY <2>2, <3>1, PartialHas
  <2>8. /\ conduit \in [uptime : 0 .. limits.uptime, bytes : Bytes]
        /\ clock \in [day : Days, wall : Days, synced : BOOLEAN]
    BY <2>2 DEF Ground
  <2>9. /\ col.at \in {"off", "waiting", "reader", "decide", "prune"}
        /\ col.prev \in Rows \cup {None}
        /\ col.epoch \in 1 .. limits.ticks \cup {None}
    BY <2>2 DEF Ground, ColStates
  <2> QED BY <2>3, <2>4, <2>5, <2>6, <2>7, <2>8, <2>9 DEF TrafficTypeOK
<1> QED BY <1>1, LedgerInvariant, PTL

(* However ticks, failures, prunings, restarts and power losses interleave, *)
(* the checkpoints, the daily and hour buckets, the lifetime total derived  *)
(* from them, the epochs and the collector's memory agree                   *)
(* (LedgerIsConsistent).                                                    *)
THEOREM LedgerAgrees == Spec => []LedgerIsConsistent
<1>1. LedgerInv => LedgerIsConsistent
  <2> SUFFICES ASSUME Ground, Calendar PROVE LedgerIsConsistent
    BY DEF LedgerInv
  <2>1. limits \in Bounds /\ db \in Tables(limits) /\ Kept(db, limits)
    BY GroundTyped DEF Ground
  <2>2. ~limits.steps => Cumulative(db) /\ Balanced(db) /\ Hours(db)
    BY DEF Calendar, Settled
  <2>3. CheckpointIsCumulative
    BY <2>2 DEF CheckpointIsCumulative, Cumulative
  <2>4. LifetimeIsSumOfDays
    BY <2>1, <2>2, LifetimeIsDays DEF LifetimeIsSumOfDays
  <2>5. HoursAddUpToDay
    BY <2>2 DEF HoursAddUpToDay, Hours
  <2>6. OneOpenEpoch
    BY <2>1, KeptIs DEF OneOpenEpoch
  <2>7. MemoryMatchesTables
    BY DEF Ground
  <2> QED BY <2>3, <2>4, <2>5, <2>6, <2>7 DEF LedgerIsConsistent
<1> QED BY <1>1, LedgerInvariant, PTL

(* The lifetime total never exceeds what Conduit relayed since recording    *)
(* began; and it is no less than the last reading knows of, while neither   *)
(* Conduit nor the host restarted and nobody stepped the clock              *)
(* (CountsWhatWasRelayed).                                                  *)
THEOREM LedgerCountsTraffic == Spec => []CountsWhatWasRelayed
<1>1. LedgerInv => CountsWhatWasRelayed
  <2> SUFFICES ASSUME Ground, Accounting, Lossless, DOMAIN db.snapshots # {}
               PROVE  /\ AtMost(ComputeLifetime(db), Minus(truth.relayed, truth.base))
                      /\ Calm => ComputeLifetime(db) = Minus(LatestSnapshot(db).bytes, truth.base)
    BY DEF LedgerInv, CountsWhatWasRelayed, NeverOvercounts, NothingLostWithoutRestart, Calm
  <2>1. limits \in Bounds /\ db \in Tables(limits) /\ Reading \in Measures /\ truth.base \in Counts
    BY GroundTyped
  <2>2. ComputeLifetime(db) \in Counts
    BY <2>1, LifetimeIs
  <2>3. LatestSnapshot(db).bytes \in Counts
    <3>1. LatestSnapshot(db) \in RowsOf(limits)
      BY <2>1, KeptIs DEF Ground
    <3> QED BY <2>1, <3>1 DEF RowsOf, BytesOf, Counts, Bounds
  <2> DEFINE total == ComputeLifetime(db)
             last == LatestSnapshot(db).bytes
  <2>4. /\ \A d \in Directions : Seen(db, truth.base).relayed[d] = total[d] + truth.base[d]
        /\ Seen(db, truth.base).bytes = last
        /\ Seen(db, truth.base).relayed = Plus(total, truth.base)
    BY DEF Seen, Plus
  <2>5. Later(Seen(db, truth.base), Reading)
    BY DEF Accounting, Accounted
  <2> HIDE DEF total, last
  <2>6. \A d \in Directions : /\ total[d] \in Nat /\ truth.base[d] \in Nat
                              /\ last[d] \in Nat /\ Reading.bytes[d] \in Nat
                              /\ Reading.relayed[d] \in Nat
    BY <2>1, <2>2, <2>3 DEF Counts, Measures, total, last
  <2>7. \A d \in Directions : total[d] + truth.base[d] <= Reading.relayed[d]
    BY <2>4, <2>5, <2>6 DEF Later
  <2>8. AtMost(total, Minus(truth.relayed, truth.base))
    BY <2>6, <2>7 DEF AtMost, Minus, Reading
  <2>9. ASSUME Calm
        PROVE  total = Minus(last, truth.base)
    <3>1. Plus(total, truth.base) = last
      BY <2>4, <2>9 DEF Lossless, Exact
    <3>2. \A d \in Directions : total[d] + truth.base[d] = last[d]
      BY <3>1 DEF Plus
    <3>3. \A d \in Directions : total[d] = last[d] - truth.base[d]
      BY <2>6, <3>2
    <3>4. total = [d \in Directions |-> total[d]]
      BY <2>2 DEF Counts, total
    <3> QED BY <3>3, <3>4 DEF Minus
  <2> QED BY <2>8, <2>9 DEF total, last
<1> QED BY <1>1, LedgerInvariant, PTL
=============================================================================
