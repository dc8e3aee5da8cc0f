------------------------ MODULE CabinetReportsProofs ------------------------
(***************************************************************************)
(* Theorems about the figures of a cabinet, for any number of demands,     *)
(* any calendar and any writes between the statements: the shares that are *)
(* shown make a whole, and figures nothing was written under agree.        *)
(*                                                                         *)
(* Sums come first.  They are folds, so what they are is shown by          *)
(* induction over the set; induction is stated of sets of numbers and sets *)
(* of subsets, because the provers do not instantiate predicates.          *)
(***************************************************************************)
EXTENDS CabinetReports, FiniteSetTheorems, WellFoundedInduction, TLAPS

-----------------------------------------------------------------------------
(***************************************************************************)
(* Induction, stated of sets instead of predicates.                        *)
(***************************************************************************)
LEMMA NatSetInduction ==
  ASSUME NEW I, 0 \in I, \A n \in Nat : n \in I => n + 1 \in I
  PROVE  Nat \subseteq I
<1>. DEFINE out == Nat \ I
<1>1. SUFFICES ASSUME out # {} PROVE FALSE
  OBVIOUS
<1>2. PICK x \in out : \A y \in out : <<y, x>> \notin OpToRel(<, Nat)
  BY <1>1, WFMin, NatLessThanWellFounded
<1>3. \A y \in out : ~ (y < x)
  BY <1>2, Zenon DEF OpToRel
<1>4. x \in Nat /\ x # 0 /\ x - 1 \in Nat /\ x - 1 < x /\ (x - 1) + 1 = x
  OBVIOUS
<1>. QED
  BY <1>3, <1>4

LEMMA FiniteSetInduction ==
  ASSUME NEW S, IsFiniteSet(S), NEW I, {} \in I,
         \A T \in SUBSET S : T # {} /\ (\A x \in T : T \ {x} \in I) => T \in I
  PROVE  SUBSET S \subseteq I
<1>. DEFINE out == (SUBSET S) \ I
<1>1. SUFFICES ASSUME out # {} PROVE FALSE
  OBVIOUS
<1>2. FiniteSubsetsOf(S) = SUBSET S
  BY FS_FiniteSubsetsOfFinite
<1>3. IsWellFoundedOn(StrictSubsetOrdering(S), SUBSET S)
  BY <1>2, FS_StrictSubsetOrderingWellFounded
<1>4. PICK T \in out : \A U \in out : <<U, T>> \notin StrictSubsetOrdering(S)
  <2>1. out \subseteq SUBSET S
    OBVIOUS
  <2>. HIDE DEF out
  <2>. QED
    BY <1>1, <1>3, <2>1, WFMin, Zenon
<1>5. \A x \in T : <<T \ {x}, T>> \in StrictSubsetOrdering(S) /\ T \ {x} \in SUBSET S
  BY DEF StrictSubsetOrdering
<1>6. T # {} /\ \A x \in T : T \ {x} \in I
  BY <1>4, <1>5
<1>. QED
  BY <1>6

(***************************************************************************)
(* A sum takes out one element of the set at a time, whichever it is.      *)
(***************************************************************************)
AnyOf(s) == CHOOSE x \in s : TRUE

Sums(f, S, g) ==
  g = [s \in SUBSET S |-> IF s = {} THEN 0 ELSE f[AnyOf(s)] + g[s \ {AnyOf(s)}]]

LEMMA TotalUnfolds ==
  ASSUME NEW f, NEW S
  PROVE  Total(f, S) = (CHOOSE g : Sums(f, S, g))[S]
BY DEF Total, MapThenSumSet, MapThenFoldSet, Sums, AnyOf

LEMMA AnyIsIn ==
  ASSUME NEW s, s # {} PROVE AnyOf(s) \in s
BY DEF AnyOf

LEMMA SumsExist ==
  ASSUME NEW f, NEW S, IsFiniteSet(S), \A x \in S : f[x] \in Int
  PROVE  \E g \in [SUBSET S -> Int] : Sums(f, S, g)
<1>. DEFINE Upto(n) == {s \in SUBSET S : Cardinality(s) <= n}
            Good(n, g) == \A s \in Upto(n) :
                            g[s] = IF s = {} THEN 0 ELSE f[AnyOf(s)] + g[s \ {AnyOf(s)}]
            I == {n \in Nat : \E g \in [Upto(n) -> Int] : Good(n, g)}
<1>1. \A s \in SUBSET S : /\ IsFiniteSet(s) /\ Cardinality(s) \in Nat
                          /\ Cardinality(s) <= Cardinality(S)
                          /\ s # {} => /\ AnyOf(s) \in s
                                       /\ Cardinality(s \ {AnyOf(s)}) = Cardinality(s) - 1
  BY FS_Subset, FS_CardinalityType, FS_RemoveElement, AnyIsIn
<1>2. 0 \in I
  <2>. DEFINE g == [s \in Upto(0) |-> 0]
  <2>1. ASSUME NEW s \in Upto(0) PROVE s = {}
    <3>1. s \in SUBSET S /\ Cardinality(s) <= 0
      OBVIOUS
    <3>2. IsFiniteSet(s) /\ Cardinality(s) \in Nat
      BY <1>1, <3>1
    <3>3. Cardinality(s) = 0
      BY <3>1, <3>2
    <3>. QED
      BY <3>2, <3>3, FS_EmptySet
  <2>2. g \in [Upto(0) -> Int]
    OBVIOUS
  <2>3. \A s \in Upto(0) : g[s] = 0
    OBVIOUS
  <2>. HIDE DEF Upto, g
  <2>4. Good(0, g)
    BY <2>1, <2>3
  <2>. QED
    BY <2>2, <2>4
<1>3. ASSUME NEW n \in Nat, n \in I PROVE n + 1 \in I
  <2>1. PICK g \in [Upto(n) -> Int] : Good(n, g)
    BY <1>3
  <2>. DEFINE h == [s \in Upto(n + 1) |->
                      IF s \in Upto(n) THEN g[s] ELSE f[AnyOf(s)] + g[s \ {AnyOf(s)}]]
  <2>2. \A s \in Upto(n + 1) : s # {} => s \ {AnyOf(s)} \in Upto(n) /\ f[AnyOf(s)] \in Int
    BY <1>1
  <2>3. Upto(n) \subseteq Upto(n + 1)
    <3>1. \A s \in Upto(n) : s \in SUBSET S /\ Cardinality(s) \in Nat /\ Cardinality(s) <= n
      BY <1>1
    <3>2. \A s \in Upto(n) : Cardinality(s) <= n + 1
      BY <3>1
    <3>. QED
      BY <3>1, <3>2
  <2>4. {} \in Upto(n)
    BY FS_EmptySet
  <2>5. h \in [Upto(n + 1) -> Int]
    <3>1. ASSUME NEW s \in Upto(n + 1)
          PROVE  (IF s \in Upto(n) THEN g[s] ELSE f[AnyOf(s)] + g[s \ {AnyOf(s)}]) \in Int
      <4>1. CASE s \in Upto(n)
        BY <4>1
      <4>2. CASE s \notin Upto(n)
        <5>1. f[AnyOf(s)] \in Int /\ g[s \ {AnyOf(s)}] \in Int
          BY <2>2, <2>4, <4>2
        <5>. QED
          BY <4>2, <5>1
      <4>. QED
        BY <4>1, <4>2
    <3>. HIDE DEF Upto
    <3>. QED
      BY <3>1
  <2>6. ASSUME NEW s \in Upto(n + 1)
        PROVE  h[s] = IF s = {} THEN 0 ELSE f[AnyOf(s)] + h[s \ {AnyOf(s)}]
    <3>1. s # {} => h[s \ {AnyOf(s)}] = g[s \ {AnyOf(s)}]
      BY <2>2, <2>3
    <3>2. CASE s \in Upto(n)
      BY <2>1, <3>1, <3>2
    <3>3. CASE s \notin Upto(n)
      BY <2>4, <3>1, <3>3
    <3>. QED
      BY <3>2, <3>3
  <2>. HIDE DEF h
  <2>7. Good(n + 1, h)
    BY <2>6
  <2>. HIDE DEF Good, Upto
  <2>. QED
    BY <2>5, <2>7
<1>4. Cardinality(S) \in I
  <2>. HIDE DEF I
  <2>. QED
    BY <1>1, <1>2, <1>3, NatSetInduction
<1>5. Upto(Cardinality(S)) = SUBSET S
  BY <1>1
<1>6. PICK g \in [SUBSET S -> Int] : Good(Cardinality(S), g)
  BY <1>4, <1>5
<1>7. g = [s \in SUBSET S |-> IF s = {} THEN 0 ELSE f[AnyOf(s)] + g[s \ {AnyOf(s)}]]
  BY <1>5, <1>6
<1>. QED
  BY <1>6, <1>7 DEF Sums

LEMMA SumsAreUnique ==
  ASSUME NEW f, NEW S, IsFiniteSet(S), NEW T \in SUBSET S,
         NEW g, Sums(f, S, g), NEW h, Sums(f, T, h)
  PROVE  g[T] = h[T]
<1>. DEFINE I == {s \in SUBSET T : g[s] = h[s]}
<1>0. IsFiniteSet(T)
  BY FS_Subset
<1>1. {} \in I
  BY DEF Sums
<1>2. ASSUME NEW U \in SUBSET T, U # {}, \A x \in U : U \ {x} \in I
      PROVE  U \in I
  <2>1. AnyOf(U) \in U
    BY <1>2, AnyIsIn
  <2>2. g[U] = f[AnyOf(U)] + g[U \ {AnyOf(U)}] /\ h[U] = f[AnyOf(U)] + h[U \ {AnyOf(U)}]
    BY <1>2 DEF Sums
  <2>. QED
    BY <1>2, <2>1, <2>2
<1>3. T \in I
  <2>. HIDE DEF I
  <2>. QED
    BY <1>0, <1>1, <1>2, FiniteSetInduction
<1>. QED
  BY <1>3

(* The sum over a set, from the sum over the set without what is taken out. *)
LEMMA TotalRecurs ==
  ASSUME NEW f, NEW S, IsFiniteSet(S), \A x \in S : f[x] \in Int
  PROVE  /\ Total(f, {}) = 0
         /\ Total(f, S) \in Int
         /\ S # {} => Total(f, S) = f[AnyOf(S)] + Total(f, S \ {AnyOf(S)})
<1>1. ASSUME NEW T \in SUBSET S
      PROVE  \E g : Sums(f, T, g)
  BY SumsExist, FS_Subset
<1>2. PICK g \in [SUBSET S -> Int] : Sums(f, S, g)
  BY SumsExist
<1>3. ASSUME NEW T \in SUBSET S
      PROVE  Total(f, T) = g[T]
  <2>. DEFINE h == CHOOSE h : Sums(f, T, h)
  <2>1. Sums(f, T, h)
    BY <1>1
  <2>2. Total(f, T) = h[T]
    BY TotalUnfolds
  <2>. HIDE DEF h
  <2>. QED
    BY <1>2, <2>1, <2>2, SumsAreUnique
<1>4. g[{}] = 0 /\ (S # {} => g[S] = f[AnyOf(S)] + g[S \ {AnyOf(S)}])
  BY <1>2 DEF Sums
<1>. QED
  BY <1>2, <1>3, <1>4

LEMMA TotalTakesOut ==
  ASSUME NEW f, NEW S, IsFiniteSet(S), \A x \in S : f[x] \in Int, NEW x \in S
  PROVE  Total(f, S) = f[x] + Total(f, S \ {x})
<1>. DEFINE I == {T \in SUBSET S : \A y \in T : Total(f, T) = f[y] + Total(f, T \ {y})}
<1>1. \A T \in SUBSET S : /\ IsFiniteSet(T) /\ Total(f, T) \in Int
                          /\ T # {} => Total(f, T) = f[AnyOf(T)] + Total(f, T \ {AnyOf(T)})
  BY TotalRecurs, FS_Subset
<1>2. {} \in I
  OBVIOUS
<1>3. ASSUME NEW T \in SUBSET S, T # {}, \A y \in T : T \ {y} \in I PROVE T \in I
  <2>. SUFFICES ASSUME NEW y \in T PROVE Total(f, T) = f[y] + Total(f, T \ {y})
    OBVIOUS
  <2>. DEFINE z == AnyOf(T)
  <2>1. z \in T /\ Total(f, T) = f[z] + Total(f, T \ {z})
    BY <1>1, <1>3, AnyIsIn
  <2>. HIDE DEF z
  <2>2. CASE z # y
    <3>1. Total(f, T \ {z}) = f[y] + Total(f, (T \ {z}) \ {y})
      BY <1>3, <2>1, <2>2
    <3>2. Total(f, T \ {y}) = f[z] + Total(f, (T \ {y}) \ {z})
      BY <1>3, <2>1, <2>2
    <3>3. Total(f, T \ {y}) = f[z] + Total(f, (T \ {z}) \ {y})
      <4>1. (T \ {z}) \ {y} = (T \ {y}) \ {z}
        OBVIOUS
      <4>. QED
        BY <3>2, <4>1
    <3>4. f[y] \in Int /\ f[z] \in Int /\ Total(f, (T \ {z}) \ {y}) \in Int
      BY <1>1, <2>1
    <3>. QED
      BY <2>1, <3>1, <3>3, <3>4
  <2>. QED
    BY <2>1, <2>2
<1>4. S \in I
  <2>. HIDE DEF I
  <2>. QED
    BY <1>2, <1>3, FiniteSetInduction
<1>. QED
  BY <1>4

LEMMA TotalIsInt ==
  ASSUME NEW f, NEW S, IsFiniteSet(S), \A x \in S : f[x] \in Int
  PROVE  Total(f, {}) = 0 /\ \A T \in SUBSET S : IsFiniteSet(T) /\ Total(f, T) \in Int
BY TotalRecurs, FS_Subset

LEMMA TotalSame ==
  ASSUME NEW f, NEW g, NEW S, IsFiniteSet(S), \A x \in S : f[x] \in Int /\ g[x] = f[x]
  PROVE  Total(g, S) = Total(f, S)
<1>. DEFINE I == {T \in SUBSET S : Total(g, T) = Total(f, T)}
<1>1. {} \in I
  BY TotalIsInt
<1>2. ASSUME NEW T \in SUBSET S, T # {}, \A x \in T : T \ {x} \in I PROVE T \in I
  <2>1. PICK x \in T : TRUE
    BY <1>2
  <2>2. IsFiniteSet(T)
    BY FS_Subset
  <2>3. Total(f, T) = f[x] + Total(f, T \ {x})
    BY <2>2, TotalTakesOut
  <2>4. Total(g, T) = g[x] + Total(g, T \ {x})
    BY <2>2, TotalTakesOut
  <2>. QED
    BY <1>2, <2>1, <2>3, <2>4
<1>3. S \in I
  <2>. HIDE DEF I
  <2>. QED
    BY <1>1, <1>2, FiniteSetInduction
<1>. QED
  BY <1>3

LEMMA TotalOfParts ==
  ASSUME NEW f, NEW S, IsFiniteSet(S), \A x \in S : f[x] \in Int, NEW T \in SUBSET S
  PROVE  Total(f, S) = Total(f, T) + Total(f, S \ T)
<1>. DEFINE R == S \ T
            I == {U \in SUBSET R : Total(f, T \cup U) = Total(f, T) + Total(f, U)}
<1>1. {} \in I
  <2>1. T \cup {} = T
    OBVIOUS
  <2>2. Total(f, {}) = 0 /\ Total(f, T) \in Int
    BY TotalIsInt
  <2>. QED
    BY <2>1, <2>2
<1>2. ASSUME NEW U \in SUBSET R, U # {}, \A x \in U : U \ {x} \in I PROVE U \in I
  <2>1. PICK x \in U : TRUE
    BY <1>2
  <2>2. U \subseteq S /\ T \cup U \subseteq S /\ x \in T \cup U
        /\ (T \cup U) \ {x} = T \cup (U \ {x})
    BY <2>1
  <2>3. IsFiniteSet(U) /\ IsFiniteSet(T \cup U)
    BY <2>2, FS_Subset
  <2>4. Total(f, U) = f[x] + Total(f, U \ {x})
    BY <2>2, <2>3, TotalTakesOut
  <2>5. Total(f, T \cup U) = f[x] + Total(f, T \cup (U \ {x}))
    <3>1. Total(f, T \cup U) = f[x] + Total(f, (T \cup U) \ {x})
      BY <2>2, <2>3, TotalTakesOut
    <3>. QED
      BY <2>2, <3>1
  <2>6. Total(f, T \cup (U \ {x})) = Total(f, T) + Total(f, U \ {x})
    BY <1>2
  <2>7. f[x] \in Int /\ Total(f, T) \in Int /\ Total(f, U \ {x}) \in Int
    BY <2>2, TotalIsInt
  <2>8. Total(f, T \cup U) = Total(f, T) + Total(f, U)
    BY <2>4, <2>5, <2>6, <2>7
  <2>. QED
    BY <2>8
<1>3. R \in I
  <2>1. IsFiniteSet(R)
    BY FS_Subset
  <2>. HIDE DEF I, R
  <2>. QED
    BY <1>1, <1>2, <2>1, FiniteSetInduction
<1>4. T \cup R = S
  OBVIOUS
<1>. QED
  BY <1>3, <1>4

LEMMA TotalOfOne ==
  ASSUME NEW f, NEW x, f[x] \in Int
  PROVE  Total(f, {x}) = f[x]
<1>1. IsFiniteSet({x}) /\ {x} \ {x} = {}
  BY FS_Singleton
<1>2. Total(f, {x}) = f[x] + Total(f, {x} \ {x})
  BY <1>1, TotalTakesOut
<1>3. Total(f, {}) = 0
  BY <1>1, TotalIsInt
<1>. QED
  BY <1>1, <1>2, <1>3

LEMMA TotalOfNothing ==
  ASSUME NEW f, NEW S, IsFiniteSet(S), \A x \in S : f[x] = 0
  PROVE  Total(f, S) = 0
<1>. DEFINE I == {T \in SUBSET S : Total(f, T) = 0}
<1>1. {} \in I
  BY TotalIsInt
<1>2. ASSUME NEW T \in SUBSET S, T # {}, \A x \in T : T \ {x} \in I PROVE T \in I
  <2>1. PICK x \in T : TRUE
    BY <1>2
  <2>2. Total(f, T) = f[x] + Total(f, T \ {x})
    BY FS_Subset, TotalTakesOut
  <2>. QED
    BY <1>2, <2>1, <2>2
<1>3. S \in I
  <2>. HIDE DEF I
  <2>. QED
    BY <1>1, <1>2, FiniteSetInduction
<1>. QED
  BY <1>3

LEMMA TotalIsNat ==
  ASSUME NEW f, NEW S, IsFiniteSet(S), \A x \in S : f[x] \in Nat
  PROVE  /\ \A T \in SUBSET S : Total(f, T) \in Nat /\ Total(f, T) <= Total(f, S)
         /\ \A x \in S : f[x] <= Total(f, S)
<1>. DEFINE I == {T \in SUBSET S : Total(f, T) \in Nat}
<1>1. {} \in I
  BY TotalIsInt
<1>2. ASSUME NEW T \in SUBSET S, T # {}, \A x \in T : T \ {x} \in I PROVE T \in I
  <2>1. PICK x \in T : TRUE
    BY <1>2
  <2>2. Total(f, T) = f[x] + Total(f, T \ {x})
    BY FS_Subset, TotalTakesOut
  <2>. QED
    BY <1>2, <2>1, <2>2
<1>3. \A T \in SUBSET S : Total(f, T) \in Nat
  <2>1. SUBSET S \subseteq I
    <3>. HIDE DEF I
    <3>. QED
      BY <1>1, <1>2, FiniteSetInduction
  <2>. QED
    BY <2>1
<1>4. ASSUME NEW T \in SUBSET S PROVE Total(f, T) <= Total(f, S)
  <2>1. Total(f, S) = Total(f, T) + Total(f, S \ T)
    BY TotalOfParts
  <2>2. Total(f, T) \in Nat /\ Total(f, S \ T) \in Nat
    BY <1>3
  <2>. QED
    BY <2>1, <2>2
<1>5. ASSUME NEW x \in S PROVE f[x] <= Total(f, S)
  <2>1. Total(f, {x}) = f[x]
    BY TotalOfOne
  <2>. QED
    BY <1>4, <2>1
<1>. QED
  BY <1>3, <1>4, <1>5

LEMMA TotalOfSupport ==
  ASSUME NEW f, NEW S, IsFiniteSet(S), \A x \in S : f[x] \in Int,
         NEW T \in SUBSET S, \A x \in S \ T : f[x] = 0
  PROVE  Total(f, S) = Total(f, T)
<1>1. Total(f, S \ T) = 0
  <2>1. IsFiniteSet(S \ T)
    BY FS_Subset
  <2>. QED
    BY <2>1, TotalOfNothing
<1>2. Total(f, S) = Total(f, T) + Total(f, S \ T) /\ Total(f, T) \in Int
  BY TotalOfParts, TotalIsInt
<1>. QED
  BY <1>1, <1>2

LEMMA TotalOfTotals ==
  ASSUME NEW S, IsFiniteSet(S), NEW f, \A i \in S : f[i] \in Int,
         NEW J, IsFiniteSet(J), NEW h, \A i \in S : h[i] \in J
  PROVE  Total([j \in J |-> Total(f, {i \in S : h[i] = j})], J) = Total(f, S)
<1>. DEFINE Group(T, j) == {i \in T : h[i] = j}
            G(T) == [j \in J |-> Total(f, Group(T, j))]
            I == {T \in SUBSET S : Total(G(T), J) = Total(f, T)}
<1>1. \A T \in SUBSET S : \A j \in J : /\ Group(T, j) \in SUBSET S
                                     /\ G(T)[j] \in Int /\ G(T)[j] = Total(f, Group(T, j))
  BY TotalIsInt
<1>2. {} \in I
  <2>1. \A j \in J : Group({}, j) = {}
    OBVIOUS
  <2>2. \A j \in J : G({})[j] = 0
    BY <2>1, TotalIsInt
  <2>. HIDE DEF G
  <2>. QED
    BY <2>2, TotalOfNothing, TotalIsInt
<1>3. ASSUME NEW T \in SUBSET S, T # {}, \A x \in T : T \ {x} \in I PROVE T \in I
  <2>1. PICK x \in T : TRUE
    BY <1>3
  <2>. DEFINE U == T \ {x}
              k == h[x]
  <2>2. k \in J /\ x \in Group(T, k) /\ Group(T, k) \ {x} = Group(U, k)
        /\ \A j \in J \ {k} : Group(T, j) = Group(U, j)
    OBVIOUS
  <2>3. G(T)[k] = f[x] + G(U)[k]
    <3>1. IsFiniteSet(Group(T, k)) /\ Group(T, k) \subseteq S
      BY <1>1, FS_Subset
    <3>2. Total(f, Group(T, k)) = f[x] + Total(f, Group(T, k) \ {x})
      <4>. HIDE DEF Group
      <4>. QED
        BY <2>2, <3>1, TotalTakesOut
    <3>. QED
      BY <2>2, <3>2
  <2>4. \A j \in J \ {k} : G(T)[j] = G(U)[j] /\ G(U)[j] \in Int
    BY <1>1, <2>2
  <2>5. G(T)[k] \in Int /\ G(U)[k] \in Int /\ f[x] \in Int
    BY <1>1, <2>2
  <2>6. /\ \A j \in J : G(T)[j] \in Int
        /\ \A j \in J : G(U)[j] \in Int
    BY <1>1
  <2>7. Total(f, T) = f[x] + Total(f, U) /\ Total(f, U) \in Int
    BY FS_Subset, TotalTakesOut, TotalIsInt
  <2>8. Total(G(U), J) = Total(f, U)
    BY <1>3
  <2>. HIDE DEF G, k, U
  <2>9. Total(G(T), J \ {k}) = Total(G(U), J \ {k}) /\ Total(G(U), J \ {k}) \in Int
    <3>1. IsFiniteSet(J \ {k})
      BY FS_Subset
    <3>2. Total(G(T), J \ {k}) = Total(G(U), J \ {k})
      BY <2>4, <3>1, TotalSame
    <3>3. Total(G(U), J \ {k}) \in Int
      BY <2>6, TotalIsInt
    <3>. QED
      BY <3>2, <3>3
  <2>10. Total(G(T), J) = G(T)[k] + Total(G(T), J \ {k})
    BY <2>2, <2>6, TotalTakesOut
  <2>11. Total(G(U), J) = G(U)[k] + Total(G(U), J \ {k})
    BY <2>2, <2>6, TotalTakesOut
  <2>12. Total(G(T), J) = Total(f, T)
    BY <2>3, <2>5, <2>7, <2>8, <2>9, <2>10, <2>11
  <2>. QED
    BY <2>12
<1>4. S \in I
  <2>. HIDE DEF I
  <2>. QED
    BY <1>2, <1>3, FiniteSetInduction
<1>. QED
  BY <1>4

LEMMA TotalOfOnes ==
  ASSUME NEW f, NEW S, IsFiniteSet(S), \A x \in S : f[x] = 1
  PROVE  Total(f, S) = Cardinality(S)
<1>. DEFINE I == {T \in SUBSET S : Total(f, T) = Cardinality(T)}
<1>1. {} \in I
  BY TotalIsInt, FS_EmptySet
<1>2. ASSUME NEW T \in SUBSET S, T # {}, \A x \in T : T \ {x} \in I PROVE T \in I
  <2>1. PICK x \in T : TRUE
    BY <1>2
  <2>2. IsFiniteSet(T) /\ Cardinality(T) \in Nat
    BY FS_Subset, FS_CardinalityType
  <2>3. Total(f, T) = f[x] + Total(f, T \ {x})
    BY <2>2, TotalTakesOut
  <2>4. Cardinality(T \ {x}) = Cardinality(T) - 1
    BY <2>2, FS_RemoveElement
  <2>. QED
    BY <1>2, <2>1, <2>2, <2>3, <2>4
<1>3. S \in I
  <2>. HIDE DEF I
  <2>. QED
    BY <1>1, <1>2, FiniteSetInduction
<1>. QED
  BY <1>3

(* Counted one by one or group by group, the members of a finite set are as many. *)
LEMMA TotalOfCounts ==
  ASSUME NEW D, IsFiniteSet(D), NEW Y, IsFiniteSet(Y), NEW h,
         NEW c, \A y \in Y : c[y] = Cardinality({d \in D : h[d] = y})
  PROVE  Total(c, Y) = Cardinality({d \in D : h[d] \in Y})
<1>. DEFINE S == {d \in D : h[d] \in Y}
            f == [d \in S |-> 1]
            g == [y \in Y |-> Total(f, {d \in S : h[d] = y})]
<1>1. IsFiniteSet(S)
  BY FS_Subset
<1>2. \A x \in S : f[x] = 1
  OBVIOUS
<1>3. ASSUME NEW y \in Y PROVE g[y] = c[y] /\ g[y] \in Int
  <2>. DEFINE T == {d \in S : h[d] = y}
  <2>1. T = {d \in D : h[d] = y} /\ T \subseteq S
    OBVIOUS
  <2>2. IsFiniteSet(T) /\ \A x \in T : f[x] = 1
    BY <1>1, <1>2, <2>1, FS_Subset
  <2>3. g[y] = Total(f, T)
    OBVIOUS
  <2>. HIDE DEF T, f, g
  <2>4. Total(f, T) = Cardinality(T) /\ Cardinality(T) \in Nat
    BY <2>2, TotalOfOnes, FS_CardinalityType
  <2>. QED
    BY <2>1, <2>3, <2>4
<1>4. Total(g, Y) = Total(f, S)
  <2>1. (\A i \in S : f[i] \in Int) /\ (\A i \in S : h[i] \in Y)
    OBVIOUS
  <2>. HIDE DEF f, S
  <2>. QED
    BY <1>1, <2>1, TotalOfTotals
<1>. HIDE DEF f, S, g
<1>5. Total(f, S) = Cardinality(S)
  BY <1>1, <1>2, TotalOfOnes
<1>6. Total(c, Y) = Total(g, Y)
  BY <1>3, TotalSame
<1>. QED
  BY <1>4, <1>5, <1>6 DEF S

-----------------------------------------------------------------------------
(* The calendar: division by any positive number of instants or days.      *)

LEMMA DivIs ==
  ASSUME NEW a \in Int, NEW b \in Nat \ {0}
  PROVE  /\ a \div b \in Int
         /\ b * (a \div b) <= a /\ a < b * (a \div b) + b
         /\ a >= 0 => a \div b \in Nat
OBVIOUS

LEMMA DivUnique ==
  ASSUME NEW a \in Int, NEW b \in Nat \ {0}, NEW q \in Int, b * q <= a, a < b * q + b
  PROVE  a \div b = q
OBVIOUS

LEMMA DivGrows ==
  ASSUME NEW a \in Int, NEW c \in Int, NEW b \in Nat \ {0}, a <= c
  PROVE  a \div b <= c \div b
OBVIOUS

LEMMA DayIs ==
  /\ \A t \in Nat : Day(t) \in Nat
  /\ \A t, s \in Int : Day(t) \in Int /\ (t <= s => Day(t) <= Day(s))
  /\ \A t, day \in Int : Midnight(day) <= t /\ t < Midnight(day + 1) <=> Day(t) = day
  /\ \A day, e \in Int : Midnight(day) \in Int /\ (day <= e => Midnight(day) <= Midnight(e))
  /\ \A day \in Nat : Midnight(day) \in Nat
  /\ \A t \in 0..MaxInstant : Day(t) \in Days
  /\ Days \subseteq Nat /\ IsFiniteSet(Days) /\ Day(MaxInstant) \in Nat
<1>. USE ReportsAssumption
<1>1. ASSUME NEW t \in Int
      PROVE  Day(t) \in Int /\ (t >= 0 => Day(t) \in Nat)
  BY DivIs DEF Day
<1>2. ASSUME NEW t \in Int, NEW s \in Int, t <= s PROVE Day(t) <= Day(s)
  BY <1>2, DivGrows DEF Day
<1>3. ASSUME NEW day \in Int
      PROVE  /\ Midnight(day) = DayLength * day /\ Midnight(day + 1) = DayLength * day + DayLength
             /\ Midnight(day) \in Int /\ (day >= 0 => Midnight(day) \in Nat)
  BY DEF Midnight
<1>4. ASSUME NEW t \in Int, NEW day \in Int
      PROVE  Midnight(day) <= t /\ t < Midnight(day + 1) <=> Day(t) = day
  <2>1. DayLength * Day(t) <= t /\ t < DayLength * Day(t) + DayLength
    BY DivIs DEF Day
  <2>2. DayLength * day <= t /\ t < DayLength * day + DayLength => Day(t) = day
    BY DivUnique DEF Day
  <2>. QED
    BY <1>3, <2>1, <2>2
<1>5. ASSUME NEW day \in Int, NEW e \in Int, day <= e PROVE Midnight(day) <= Midnight(e)
  BY <1>5 DEF Midnight
<1>6. Day(MaxInstant) \in Nat
  BY <1>1
<1>7. ASSUME NEW t \in 0..MaxInstant PROVE Day(t) \in Days
  BY <1>1, <1>2, <1>6 DEF Days
<1>8. IsFiniteSet(Days) /\ Days \subseteq Nat
  BY <1>6, FS_Interval DEF Days
<1>9. \A t \in Nat : t \in Int /\ t >= 0
  OBVIOUS
<1>10. (\A t \in Nat : Day(t) \in Nat) /\ (\A day \in Nat : Midnight(day) \in Nat)
  BY <1>1, <1>3, <1>9
<1>. QED
  BY <1>1, <1>2, <1>3, <1>4, <1>5, <1>6, <1>7, <1>8, <1>10, Zenon

-----------------------------------------------------------------------------
(* What a statement returns, by the name of the statement, when it is asked *)
(* about a period: a day without an instant of the period has no demands.   *)
Months == {Month(day) : day \in Days}

DailyFigure == [Days -> Nat]

Figure ==
  Int \cup [Statuses -> Nat] \cup [Categories -> Nat] \cup DailyFigure \cup [Months -> Nat]

Within(figure, p) ==
  \A day \in Days :
    figure[day] # 0 => \E t \in 0..MaxInstant : Between(t, p) /\ Day(t) = day

Shape(statement, x, p) ==
  /\ x \in Figure
  /\ statement \in {"total", "resolvedCount", "active", "today"} => x \in Nat
  /\ statement \in {"byStatus", "everByStatus"} => x \in [Statuses -> Nat]
  /\ statement = "byCategory" => x \in [Categories -> Nat]
  /\ statement \in {"created", "resolved"} => x \in DailyFigure /\ Within(x, p)

Kinds == {"report", "openData", "trend", "metrics", "summary", "neighborhood"}

Asked(kind) == {Statements[kind][i] : i \in 1..Len(Statements[kind])}

Reading ==
  [kind : Kinds \cup {"none"}, period : Period, answers : Seq(Figure), disturbed : BOOLEAN]

FiledInv ==
  /\ filed \in [Filings -> Row \cup {NULL}] /\ instant \in 0..MaxInstant
  /\ \A d \in Filings : filed[d] # NULL =>
       filed[d].createdAt <= instant /\ filed[d].updatedAt <= instant

ReadingInv ==
  /\ reading \in Reading
  /\ reading.kind = "none" => reading = NoReading
  /\ reading.kind # "none" =>
       /\ Len(reading.answers) <= Len(Statements[reading.kind])
       /\ \A i \in 1..Len(reading.answers) :
            Shape(Statements[reading.kind][i], reading.answers[i], reading.period)

PeriodInv ==
  reading.kind = "report" =>
    \E from, to \in Days :
      /\ reading.period = [start |-> Midnight(from), end |-> LastInstant(to)]
      /\ Midnight(from) < LastInstant(to)

(* What was answered is what would be answered now, if nothing was written. *)
FreshInv ==
  reading.kind # "none" /\ ~reading.disturbed =>
    /\ reading.kind = "trend" => reading.period = LastDays(TrendDays)
    /\ \A i \in 1..Len(reading.answers) :
         reading.answers[i] = Answer(Statements[reading.kind][i], reading.period)

CountsInv == writes \in 0..MaxWrites /\ readings \in 0..MaxReadings

FiguresInv == FiledInv /\ ReadingInv /\ PeriodInv /\ FreshInv /\ CountsInv

LEMMA StatementsAre ==
  /\ DOMAIN Statements = Kinds /\ "none" \notin Kinds
  /\ \A kind \in Kinds :
       /\ Len(Statements[kind]) \in Nat /\ DOMAIN Statements[kind] = 1..Len(Statements[kind])
       /\ \A i, j \in 1..Len(Statements[kind]) :
            Statements[kind][i] = Statements[kind][j] => i = j
  /\ Asked("report") = {"total", "byStatus", "byCategory", "created", "resolved"}
  /\ Asked("openData") = {"byStatus", "byCategory", "byMonth"}
  /\ Asked("trend") = {"created", "resolved", "today"}
  /\ Asked("metrics") = {"total", "resolvedCount", "everByStatus"}
  /\ Asked("summary") = {"total", "resolvedCount", "byCategory"}
  /\ Asked("neighborhood") = {"total", "resolvedCount", "active", "byCategory"}
<1>1. DOMAIN Statements = Kinds /\ "none" \notin Kinds
  BY DEF Statements, Kinds
<1>2. /\ Statements["report"] = <<"total", "byStatus", "byCategory", "created", "resolved">>
      /\ Statements["openData"] = <<"byStatus", "byCategory", "byMonth">>
      /\ Statements["trend"] = <<"created", "resolved", "today">>
      /\ Statements["metrics"] = <<"total", "resolvedCount", "everByStatus">>
      /\ Statements["summary"] = <<"total", "resolvedCount", "byCategory">>
      /\ Statements["neighborhood"] = <<"total", "resolvedCount", "active", "byCategory">>
  BY DEF Statements
<1>3. ASSUME NEW kind \in Kinds
      PROVE  /\ Len(Statements[kind]) \in Nat
             /\ DOMAIN Statements[kind] = 1..Len(Statements[kind])
             /\ \A i, j \in 1..Len(Statements[kind]) :
                  Statements[kind][i] = Statements[kind][j] => i = j
  <2>1. CASE kind = "report"
    BY <1>2, <2>1
  <2>2. CASE kind = "neighborhood"
    BY <1>2, <2>2
  <2>3. CASE kind \in {"openData", "trend", "metrics", "summary"}
    BY <1>2, <2>3
  <2>. QED
    BY <2>1, <2>2, <2>3 DEF Kinds
<1>. QED
  BY <1>1, <1>2, <1>3 DEF Asked


LEMMA StatusesAreFew == IsFiniteSet(Statuses) /\ "RESOLVED" \in Statuses
<1>1. IsFiniteSet({"RESOLVED"} \cup {"REJECTED"} \cup {"CANCELED"} \cup {"SUBMITTED"}
                  \cup {"IN_ANALYSIS"} \cup {"IN_PROGRESS"})
  BY FS_Singleton, FS_Union
<1>2. Statuses \subseteq {"RESOLVED"} \cup {"REJECTED"} \cup {"CANCELED"} \cup {"SUBMITTED"}
                           \cup {"IN_ANALYSIS"} \cup {"IN_PROGRESS"}
  BY ReportsAssumption DEF Closed
<1>. QED
  BY <1>1, <1>2, FS_Subset, ReportsAssumption

LEMMA RowsInScope ==
  ASSUME FiledInv
  PROVE  /\ \A d \in InScope : /\ d \in Filings /\ filed[d] \in Row
                               /\ filed[d].status \in Statuses
                               /\ filed[d].category \in Categories \cup {NULL}
                               /\ filed[d].createdAt \in 0..MaxInstant
                               /\ filed[d].updatedAt \in 0..MaxInstant
                               /\ filed[d].createdAt <= instant
                               /\ filed[d].updatedAt <= instant
         /\ \A D \in SUBSET InScope : IsFiniteSet(D) /\ Cardinality(D) \in Nat
         /\ \A p : CreatedIn(p) \in SUBSET InScope /\ ResolvedIn(p) \in SUBSET InScope
<1>1. \A d \in InScope : d \in Filings /\ filed[d] \in Row
                         /\ filed[d].createdAt <= instant /\ filed[d].updatedAt <= instant
  BY DEF FiledInv, InScope
<1>2. \A D \in SUBSET InScope : D \in SUBSET Filings
  BY DEF InScope
<1>3. \A D \in SUBSET InScope : IsFiniteSet(D) /\ Cardinality(D) \in Nat
  BY <1>2, FS_Subset, FS_CardinalityType, ReportsAssumption
<1>4. \A p : CreatedIn(p) \in SUBSET InScope /\ ResolvedIn(p) \in SUBSET InScope
  BY DEF CreatedIn, ResolvedIn
<1>. QED
  BY <1>1, <1>3, <1>4 DEF Row

LEMMA AnswerShape ==
  ASSUME FiledInv, NEW kind \in Kinds, NEW statement \in Asked(kind), NEW p
  PROVE  Shape(statement, Answer(statement, p), p)
<1>. DEFINE C == CreatedIn(p)
            R == ResolvedIn(p)
<1>0. C \in SUBSET InScope /\ R \in SUBSET InScope
  BY RowsInScope
<1>1. \A D \in SUBSET InScope : Cardinality(D) \in Nat /\ ByStatus(D) \in [Statuses -> Nat]
  <2>1. \A D \in SUBSET InScope : Cardinality(D) \in Nat
    BY RowsInScope
  <2>2. \A D \in SUBSET InScope : \A s : {d \in D : filed[d].status = s} \in SUBSET InScope
    OBVIOUS
  <2>. QED
    BY <2>1, <2>2 DEF ByStatus
<1>2. /\ statement \in {"total", "byStatus", "byCategory", "created", "resolved", "byMonth",
                        "today", "resolvedCount", "everByStatus", "active"}
  BY StatementsAre DEF Kinds
<1>3. CASE statement = "total"
  BY <1>0, <1>1, <1>3 DEF Answer, Shape, Figure
<1>4. CASE statement = "resolvedCount"
  <2>1. ByStatus(C)["RESOLVED"] \in Nat
    BY <1>0, <1>1, StatusesAreFew
  <2>. QED
    BY <1>4, <2>1 DEF Answer, Shape, Figure
<1>5. CASE statement = "active"
  <2>1. {d \in C : filed[d].status \notin Closed} \in SUBSET InScope
    BY <1>0
  <2>2. Cardinality({d \in C : filed[d].status \notin Closed}) \in Nat
    BY <1>1, <2>1
  <2>. QED
    BY <1>5, <2>2 DEF Answer, Shape, Figure
<1>6. CASE statement = "byStatus"
  BY <1>0, <1>1, <1>6 DEF Answer, Shape, Figure
<1>7. CASE statement = "everByStatus"
  BY <1>1, <1>7 DEF Answer, Shape, Figure
<1>8. CASE statement = "byCategory"
  <2>1. \A c : Cardinality({d \in C : filed[d].category = c}) \in Nat
    BY <1>0, <1>1
  <2>2. Answer(statement, p) =
          [c \in Categories |-> Cardinality({d \in C : filed[d].category = c})]
    BY <1>8 DEF Answer
  <2>3. Answer(statement, p) \in [Categories -> Nat]
    BY <2>1, <2>2
  <2>. QED
    BY <1>8, <2>3 DEF Shape, Figure
<1>9. CASE statement = "created"
  <2>. DEFINE On(day) == {d \in C : Day(filed[d].createdAt) = day}
  <2>1. Answer(statement, p) = [day \in Days |-> Cardinality(On(day))]
    BY <1>9 DEF Answer
  <2>2. \A day : Cardinality(On(day)) \in Nat
    BY <1>0, <1>1
  <2>3. ASSUME NEW day \in Days, Cardinality(On(day)) # 0
        PROVE  \E t \in 0..MaxInstant : Between(t, p) /\ Day(t) = day
    <3>1. PICK d \in On(day) : TRUE
      BY <2>3, FS_EmptySet
    <3>2. filed[d].createdAt \in 0..MaxInstant /\ Between(filed[d].createdAt, p)
      BY <1>0, <3>1, RowsInScope DEF CreatedIn
    <3>. QED
      BY <3>1, <3>2
  <2>. HIDE DEF On
  <2>4. Answer(statement, p) \in DailyFigure /\ Within(Answer(statement, p), p)
    BY <2>1, <2>2, <2>3 DEF DailyFigure, Within
  <2>. QED
    BY <1>9, <2>4 DEF Shape, Figure
<1>10. CASE statement = "resolved"
  <2>. DEFINE On(day) == {d \in R : Day(filed[d].updatedAt) = day}
  <2>1. Answer(statement, p) = [day \in Days |-> Cardinality(On(day))]
    BY <1>10 DEF Answer
  <2>2. \A day : Cardinality(On(day)) \in Nat
    BY <1>0, <1>1
  <2>3. ASSUME NEW day \in Days, Cardinality(On(day)) # 0
        PROVE  \E t \in 0..MaxInstant : Between(t, p) /\ Day(t) = day
    <3>1. PICK d \in On(day) : TRUE
      BY <2>3, FS_EmptySet
    <3>2. filed[d].updatedAt \in 0..MaxInstant /\ Between(filed[d].updatedAt, p)
      BY <1>0, <3>1, RowsInScope DEF ResolvedIn
    <3>. QED
      BY <3>1, <3>2
  <2>. HIDE DEF On
  <2>4. Answer(statement, p) \in DailyFigure /\ Within(Answer(statement, p), p)
    BY <2>1, <2>2, <2>3 DEF DailyFigure, Within
  <2>. QED
    BY <1>10, <2>4 DEF Shape, Figure
<1>11. CASE statement = "byMonth"
  <2>. DEFINE In(m) == {d \in C : Month(Day(filed[d].createdAt)) = m}
              x == [m \in Months |-> IF m > Month(Day(instant)) - TrendMonths
                                     THEN Cardinality(In(m)) ELSE 0]
  <2>1. Answer(statement, p) = x
    BY <1>11 DEF Answer, Months
  <2>2. \A m : Cardinality(In(m)) \in Nat
    BY <1>0, <1>1
  <2>. HIDE DEF In
  <2>3. x \in [Months -> Nat]
    BY <2>2
  <2>. QED
    BY <1>11, <2>1, <2>3 DEF Shape, Figure
<1>12. CASE statement = "today"
  <2>1. Day(instant) \in Nat
    BY DayIs, ReportsAssumption DEF FiledInv
  <2>. QED
    BY <1>12, <2>1 DEF Answer, Shape, Figure
<1>. QED
  BY <1>2, <1>3, <1>4, <1>5, <1>6, <1>7, <1>8, <1>9, <1>10, <1>11, <1>12


-----------------------------------------------------------------------------
(* The invariant is kept by every step.                                    *)
LEMMA AnswerStays ==
  ASSUME UNCHANGED <<filed, instant>>
  PROVE  \A statement, p : Answer(statement, p)' = Answer(statement, p)
BY DEF Answer, CreatedIn, ResolvedIn, InScope, ByStatus

LEMMA NoReadingFields ==
  /\ NoReading \in Reading /\ NoReading.kind = "none" /\ AllTime \in Period
  /\ NoReading.answers = <<>>
<1>1. AllTime \in Period
  BY ReportsAssumption DEF AllTime, Period
<1>. QED
  BY <1>1 DEF NoReading, Reading

LEMMA FiguresStart == ReportsInit => FiguresInv
<1> SUFFICES ASSUME ReportsInit PROVE FiguresInv
  OBVIOUS
<1>1. FiledInv
  BY ReportsAssumption DEF ReportsInit, FiledInv, Row
<1>2. reading = NoReading
  BY DEF ReportsInit
<1>3. ReadingInv /\ PeriodInv /\ FreshInv
  BY <1>2, NoReadingFields DEF ReadingInv, PeriodInv, FreshInv
<1>. QED
  BY <1>1, <1>3, ReportsAssumption DEF FiguresInv, CountsInv, ReportsInit

LEMMA AskStep ==
  ASSUME FiguresInv, NEW kind \in Kinds, NEW p \in Period, Ask(kind, p),
         kind = "report" => \E from, to \in Days :
                              /\ p = [start |-> Midnight(from), end |-> LastInstant(to)]
                              /\ Midnight(from) < LastInstant(to),
         kind = "trend" => p = LastDays(TrendDays)
  PROVE  FiguresInv'
<1>1. /\ reading'.kind = kind /\ reading'.period = p /\ reading'.answers = <<>>
      /\ reading' \in Reading /\ Len(reading'.answers) = 0
  BY NoReadingFields DEF Ask, NoReading, Reading
<1>2. FiledInv'
  BY DEF FiguresInv, FiledInv, Ask
<1>3. ReadingInv'
  BY <1>1, StatementsAre DEF ReadingInv
<1>4. LastDays(TrendDays)' = LastDays(TrendDays)
  BY DEF Ask, LastDays
<1>5. PeriodInv' /\ FreshInv'
  BY <1>1, <1>4 DEF PeriodInv, FreshInv
<1>6. CountsInv'
  BY ReportsAssumption DEF FiguresInv, CountsInv, Ask
<1>. QED
  BY <1>2, <1>3, <1>5, <1>6 DEF FiguresInv

LEMMA AskReportStep ==
  ASSUME FiguresInv, NEW from \in Days, NEW to \in Days, AskReport(from, to)
  PROVE  FiguresInv'
<1>1. from \in Nat /\ to \in Nat /\ to + 1 \in Int /\ Midnight(from) < LastInstant(to)
  BY DayIs DEF AskReport
<1>2. Midnight(from) \in Nat /\ LastInstant(to) \in Nat
  <2>1. Midnight(from) \in Nat /\ Midnight(to + 1) \in Int
    BY <1>1, DayIs
  <2>. QED
    BY <1>1, <2>1 DEF LastInstant
<1>3. [start |-> Midnight(from), end |-> LastInstant(to)] \in Period
  BY <1>2 DEF Period
<1>. QED
  BY <1>1, <1>3, AskStep DEF AskReport, Kinds

LEMMA AskFiguresStep ==
  ASSUME FiguresInv, AskFigures
  PROVE  FiguresInv'
<1>1. AllTime \in Period
  BY NoReadingFields
<1>0. instant \in Nat /\ Day(instant) \in Nat
  BY DayIs, ReportsAssumption DEF FiguresInv, FiledInv
<1>2. LastDays(TrendDays) \in Period
  <2>1. Day(instant) - TrendDays + 1 \in Int /\ MaxInstant + 1 \in Nat
    BY <1>0, ReportsAssumption
  <2>2. Midnight(Day(instant) - TrendDays + 1) \in Int
    BY <2>1, DayIs
  <2>. QED
    BY <2>1, <2>2 DEF LastDays, Period
<1>3. ThisMonth \in Period
  <2>1. Month(Day(instant)) \in Nat
    <3>1. Day(instant) \in Int /\ Day(instant) >= 0 /\ MonthLength \in Nat \ {0}
      BY <1>0, ReportsAssumption
    <3>. QED
      BY <3>1, DivIs DEF Month
  <2>2. Month(Day(instant)) * MonthLength \in Nat
        /\ Month(Day(instant)) * MonthLength + MonthLength \in Nat
    <3>1. \A a, b \in Nat : a * b \in Nat /\ a * b + b \in Nat
      OBVIOUS
    <3>. QED
      BY <2>1, <3>1, ReportsAssumption
  <2>3. /\ Midnight(Month(Day(instant)) * MonthLength) \in Int
        /\ Midnight(Month(Day(instant)) * MonthLength + MonthLength) \in Nat
    BY <2>2, DayIs
  <2>. QED
    BY <2>3 DEF ThisMonth, Period
<1>. QED
  BY <1>1, <1>2, <1>3, AskStep DEF AskFigures, Kinds

LEMMA RunStep ==
  ASSUME FiguresInv, RunStatement
  PROVE  FiguresInv'
<1>. DEFINE kind == reading.kind
            p == reading.period
            n == Len(reading.answers)
            x == Answer(Statements[kind][n + 1], p)
<1>1. /\ kind \in Kinds /\ reading \in Reading /\ reading.answers \in Seq(Figure) /\ n \in Nat
      /\ Len(Statements[kind]) \in Nat /\ n + 1 <= Len(Statements[kind])
  <2>1. reading \in Reading /\ kind \in Kinds /\ n <= Len(Statements[kind])
        /\ n # Len(Statements[kind])
    BY DEF FiguresInv, ReadingInv, RunStatement, Complete, Reading
  <2>2. reading.answers \in Seq(Figure) /\ n \in Nat /\ Len(Statements[kind]) \in Nat
    BY <2>1, StatementsAre DEF Reading
  <2>. QED
    BY <2>1, <2>2
<1>2. UNCHANGED <<filed, instant>>
  BY DEF RunStatement
<1>3. Shape(Statements[kind][n + 1], x, p)
  <2>1. Statements[kind][n + 1] \in Asked(kind)
    BY <1>1 DEF Asked
  <2>. QED
    BY <1>1, <2>1, AnswerShape DEF FiguresInv
<1>4. x \in Figure
  BY <1>3 DEF Shape
<1>5. reading' = [reading EXCEPT !.answers = Append(reading.answers, x)]
  BY DEF RunStatement
<1>. HIDE DEF x
<1>6. /\ reading' \in Reading /\ reading'.kind = kind /\ reading'.period = p
      /\ reading'.disturbed = reading.disturbed
      /\ reading'.answers = Append(reading.answers, x)
  <2>1. Append(reading.answers, x) \in Seq(Figure)
    BY <1>1, <1>4
  <2>. HIDE DEF Figure
  <2>2. [reading EXCEPT !.answers = Append(reading.answers, x)] \in Reading
    BY <1>1, <2>1 DEF Reading
  <2>. QED
    BY <1>1, <1>5, <2>2 DEF Reading
<1>7. /\ Len(reading'.answers) = n + 1
      /\ \A i \in 1..n : reading'.answers[i] = reading.answers[i]
      /\ reading'.answers[n + 1] = x
  BY <1>1, <1>4, <1>6
<1>8. FiledInv' /\ CountsInv'
  BY <1>2 DEF FiguresInv, FiledInv, CountsInv, RunStatement
<1>9. ReadingInv'
  <2>1. \A i \in 1..n : Shape(Statements[kind][i], reading.answers[i], p)
    BY <1>1, StatementsAre DEF FiguresInv, ReadingInv
  <2>2. \A i \in 1..(n + 1) : Shape(Statements[kind][i], reading'.answers[i], p)
    BY <1>1, <1>3, <1>7, <2>1
  <2>. QED
    BY <1>1, <1>6, <1>7, <2>2, StatementsAre DEF ReadingInv
<1>10. PeriodInv'
  BY <1>6 DEF FiguresInv, PeriodInv
<1>11. FreshInv'
  <2>1. SUFFICES ASSUME ~reading.disturbed
                 PROVE  /\ kind = "trend" => p = LastDays(TrendDays)'
                        /\ \A i \in 1..(n + 1) :
                             reading'.answers[i] = Answer(Statements[kind][i], p)'
    BY <1>6, <1>7 DEF FreshInv
  <2>2. \A i \in 1..n : reading.answers[i] = Answer(Statements[kind][i], p)
    BY <1>1, <2>1, StatementsAre DEF FiguresInv, FreshInv
  <2>3. \A i \in 1..(n + 1) : reading'.answers[i] = Answer(Statements[kind][i], p)
    BY <1>1, <1>7, <2>2 DEF x
  <2>4. LastDays(TrendDays)' = LastDays(TrendDays)
    BY <1>2 DEF LastDays
  <2>5. kind = "trend" => p = LastDays(TrendDays)
    BY <2>1 DEF FiguresInv, FreshInv
  <2>6. \A statement : Answer(statement, p)' = Answer(statement, p)
    <3>1. InScope' = InScope
      BY <1>2 DEF InScope
    <3>2. CreatedIn(p)' = CreatedIn(p) /\ ResolvedIn(p)' = ResolvedIn(p)
      BY <1>2, <1>6, <3>1 DEF CreatedIn, ResolvedIn
    <3>3. /\ ByStatus(CreatedIn(p))' = ByStatus(CreatedIn(p))
          /\ ByStatus(InScope)' = ByStatus(InScope)
      BY <1>2, <3>1, <3>2 DEF ByStatus
    <3>. HIDE DEF p
    <3>. QED
      BY <1>2, <3>2, <3>3 DEF Answer
  <2>7. \A i \in 1..(n + 1) : reading'.answers[i] = Answer(Statements[kind][i], p)'
    BY <1>6, <2>3, <2>6
  <2>. HIDE DEF kind, p, n
  <2>. QED
    BY <2>4, <2>5, <2>7
<1>. QED
  BY <1>8, <1>9, <1>10, <1>11 DEF FiguresInv

LEMMA DeliverStep ==
  ASSUME FiguresInv, Deliver
  PROVE  FiguresInv'
<1>1. reading' = NoReading /\ UNCHANGED <<filed, instant, writes, readings>>
  BY DEF Deliver
<1>2. ReadingInv' /\ PeriodInv' /\ FreshInv'
  BY <1>1, NoReadingFields DEF ReadingInv, PeriodInv, FreshInv
<1>. QED
  BY <1>1, <1>2 DEF FiguresInv, FiledInv, CountsInv

(* A write to the demands and the passing of time leave the answers so far *)
(* as they are, and mark them.                                             *)
LEMMA DisturbStep ==
  ASSUME FiguresInv, Disturb
  PROVE  ReadingInv' /\ PeriodInv' /\ FreshInv'
<1>1. CASE reading = NoReading
  <2>1. reading' = NoReading
    BY <1>1 DEF Disturb
  <2>. QED
    BY <2>1, NoReadingFields DEF ReadingInv, PeriodInv, FreshInv
<1>2. CASE reading # NoReading
  <2>1. reading \in Reading /\ reading' = [reading EXCEPT !.disturbed = TRUE]
    BY <1>2 DEF Disturb, FiguresInv, ReadingInv
  <2>2. /\ reading' \in Reading /\ reading'.kind = reading.kind /\ reading'.disturbed
        /\ reading'.period = reading.period /\ reading'.answers = reading.answers
        /\ reading.kind # "none"
    BY <1>2, <2>1 DEF Reading, FiguresInv, ReadingInv
  <2>3. ReadingInv'
    BY <2>2 DEF FiguresInv, ReadingInv
  <2>. QED
    BY <2>2, <2>3 DEF FiguresInv, PeriodInv, FreshInv
<1>. QED
  BY <1>1, <1>2

LEMMA WriteStep ==
  ASSUME FiguresInv, NEW d \in Filings, NEW row \in Row, Write(d, row),
         row.createdAt <= instant, row.updatedAt <= instant
  PROVE  FiguresInv'
<1>1. FiledInv'
  BY DEF Write, FiguresInv, FiledInv
<1>2. CountsInv'
  BY ReportsAssumption DEF Write, FiguresInv, CountsInv
<1>. QED
  BY <1>1, <1>2, DisturbStep DEF Write, FiguresInv

LEMMA FilingSteps ==
  ASSUME FiguresInv, NEW d \in Filings,
         \/ \E c \in Categories \cup {NULL} : FileDemand(d, c)
         \/ \E s \in Statuses : SetStatus(d, s)
         \/ MoveInOrOut(d)
  PROVE  FiguresInv'
<1>0. instant \in 0..MaxInstant /\ (filed[d] # NULL => /\ filed[d] \in Row
                                                       /\ filed[d].createdAt <= instant)
  BY DEF FiguresInv, FiledInv
<1>1. ASSUME NEW c \in Categories \cup {NULL}, FileDemand(d, c) PROVE FiguresInv'
  <2>. DEFINE row == [inScope |-> TRUE, status |-> "SUBMITTED", category |-> c,
                      createdAt |-> instant, updatedAt |-> instant]
  <2>1. row \in Row /\ row.createdAt = instant /\ row.updatedAt = instant
    BY <1>0, ReportsAssumption DEF Row
  <2>2. Write(d, row)
    BY <1>1 DEF FileDemand
  <2>. HIDE DEF row
  <2>3. instant <= instant
    BY <1>0, ReportsAssumption
  <2>. QED
    BY <2>1, <2>2, <2>3, WriteStep
<1>2. ASSUME NEW s \in Statuses, SetStatus(d, s) PROVE FiguresInv'
  <2>. DEFINE row == [filed[d] EXCEPT !.status = s, !.updatedAt = instant]
  <2>1. row \in Row /\ row.createdAt = filed[d].createdAt /\ row.updatedAt = instant
    BY <1>0, <1>2 DEF Row, SetStatus
  <2>2. Write(d, row) /\ filed[d] # NULL
    BY <1>2 DEF SetStatus
  <2>. HIDE DEF row
  <2>3. instant <= instant
    BY <1>0, ReportsAssumption
  <2>. QED
    BY <1>0, <2>1, <2>2, <2>3, WriteStep
<1>3. ASSUME MoveInOrOut(d) PROVE FiguresInv'
  <2>. DEFINE row == [filed[d] EXCEPT !.inScope = ~@, !.updatedAt = instant]
  <2>1. row \in Row /\ row.createdAt = filed[d].createdAt /\ row.updatedAt = instant
    BY <1>0, <1>3 DEF Row, MoveInOrOut
  <2>2. Write(d, row) /\ filed[d] # NULL
    BY <1>3 DEF MoveInOrOut
  <2>. HIDE DEF row
  <2>3. instant <= instant
    BY <1>0, ReportsAssumption
  <2>. QED
    BY <1>0, <2>1, <2>2, <2>3, WriteStep
<1>. QED
  BY <1>1, <1>2, <1>3

LEMMA PassStep ==
  ASSUME FiguresInv, PassTime
  PROVE  FiguresInv'
<1>1. instant \in Int /\ instant' = instant + 1 /\ instant' \in 0..MaxInstant
      /\ UNCHANGED <<filed, writes, readings>>
  BY ReportsAssumption DEF FiguresInv, FiledInv, PassTime
<1>2. FiledInv'
  <2>1. ASSUME NEW d \in Filings, filed[d] # NULL
        PROVE  filed[d].createdAt <= instant + 1 /\ filed[d].updatedAt <= instant + 1
    <3>1. filed[d].createdAt \in Int /\ filed[d].updatedAt \in Int
          /\ filed[d].createdAt <= instant /\ filed[d].updatedAt <= instant
      BY <2>1 DEF FiguresInv, FiledInv, Row
    <3>. QED
      BY <1>1, <3>1
  <2>. QED
    BY <1>1, <2>1 DEF FiguresInv, FiledInv
<1>. QED
  BY <1>1, <1>2, DisturbStep DEF FiguresInv, CountsInv, PassTime

LEMMA FiguresStep == FiguresInv /\ [PublishFigures]_reportVars => FiguresInv'
<1> SUFFICES ASSUME FiguresInv, [PublishFigures]_reportVars PROVE FiguresInv'
  OBVIOUS
<1>1. CASE UNCHANGED reportVars
  <2>1. UNCHANGED <<filed, instant, reading, writes, readings>>
    BY <1>1 DEF reportVars
  <2>2. LastDays(TrendDays)' = LastDays(TrendDays)
    BY <2>1 DEF LastDays
  <2>3. FiledInv' /\ ReadingInv' /\ PeriodInv' /\ CountsInv'
    BY <2>1 DEF FiguresInv, FiledInv, ReadingInv, PeriodInv, CountsInv
  <2>4. FreshInv'
    BY <2>1, <2>2, AnswerStays DEF FiguresInv, FreshInv
  <2>. QED
    BY <2>3, <2>4 DEF FiguresInv
<1>2. CASE \E from, to \in Days : AskReport(from, to)
  BY <1>2, AskReportStep
<1>3. CASE AskFigures
  BY <1>3, AskFiguresStep
<1>4. CASE RunStatement \/ Deliver
  BY <1>4, RunStep, DeliverStep
<1>5. CASE \E d \in Filings : \/ \E c \in Categories \cup {NULL} : FileDemand(d, c)
                              \/ \E s \in Statuses : SetStatus(d, s)
                              \/ MoveInOrOut(d)
  BY <1>5, FilingSteps
<1>6. CASE PassTime
  BY <1>6, PassStep
<1>. QED
  BY <1>1, <1>2, <1>3, <1>4, <1>5, <1>6 DEF PublishFigures

LEMMA FiguresAlways == ReportsSpec => []FiguresInv
BY FiguresStart, FiguresStep, PTL DEF ReportsSpec

LEMMA FiguresTyped == FiguresInv => ReportsTypeOK
<1> SUFFICES ASSUME FiguresInv PROVE ReportsTypeOK
  OBVIOUS
<1>1. reading \in Reading /\ reading # NoReading =>
        Len(reading.answers) <= Len(Statements[reading.kind])
  BY DEF FiguresInv, ReadingInv
<1>2. /\ reading.kind \in DOMAIN Statements \cup {"none"}
      /\ reading.period \in Period /\ reading.disturbed \in BOOLEAN
  BY StatementsAre DEF FiguresInv, ReadingInv, Reading
<1>. QED
  BY <1>1, <1>2 DEF FiguresInv, FiledInv, ReadingInv, CountsInv, ReportsTypeOK

(* Every demand, reading and counter has its type at every moment: the     *)
(* columns of demands.repository.ts:855-1198 and the figures put together  *)
(* from them, for every calendar and any number of demands and statements. *)
THEOREM ReportsTypeCorrect == ReportsSpec => []ReportsTypeOK
BY FiguresAlways, FiguresTyped, PTL

-----------------------------------------------------------------------------
(* What was got is an answer, and today's if nothing was written.          *)
LEMMA GotIs ==
  ASSUME FiguresInv, Complete, NEW statement \in Asked(reading.kind)
  PROVE  /\ Shape(statement, Got(statement), reading.period)
         /\ ~reading.disturbed => Got(statement) = Answer(statement, reading.period)
<1>. DEFINE kind == reading.kind
            n == Len(Statements[kind])
<1>1. kind \in Kinds /\ kind # "none" /\ n \in Nat /\ Len(reading.answers) = n
      /\ reading.answers \in Seq(Figure)
  BY StatementsAre DEF Complete, FiguresInv, ReadingInv, Reading
<1>2. DOMAIN reading.answers = 1..n
  BY <1>1
<1>3. \E i \in 1..n : Statements[kind][i] = statement
  BY DEF Asked
<1>4. PICK i \in 1..n : /\ Statements[kind][i] = statement
                        /\ Got(statement) = reading.answers[i]
  <2>. DEFINE j == CHOOSE k \in 1..n : Statements[kind][k] = statement
  <2>1. j \in 1..n /\ Statements[kind][j] = statement
    BY <1>3
  <2>2. Got(statement) = reading.answers[j]
    BY <1>2 DEF Got
  <2>. QED
    BY <2>1, <2>2
<1>5. Shape(statement, reading.answers[i], reading.period)
  BY <1>1, <1>4 DEF FiguresInv, ReadingInv
<1>6. ~reading.disturbed => reading.answers[i] = Answer(statement, reading.period)
  BY <1>1, <1>4 DEF FiguresInv, FreshInv
<1>. QED
  BY <1>4, <1>5, <1>6

-----------------------------------------------------------------------------
(* A trend with a point for each day keeps a figure whose days it shows.   *)
LEMMA DailyKeeps ==
  ASSUME NEW c \in DailyFigure, NEW first \in Int, NEW n \in Nat,
         \A day \in Days : c[day] # 0 => first <= day /\ day <= first + n - 1
  PROVE  Total([i \in 1..n |-> OnDay(c, first + i - 1)], 1..n) = SumOf(c)
<1>. DEFINE T == {day \in Days : first <= day /\ day <= first + n - 1}
            h == [day \in T |-> day - first + 1]
            g == [j \in 1..n |-> Total(c, {day \in T : h[day] = j})]
            f == [i \in 1..n |-> OnDay(c, first + i - 1)]
<1>1. /\ DOMAIN c = Days /\ IsFiniteSet(Days) /\ IsFiniteSet(T) /\ T \in SUBSET Days
      /\ \A day \in Days : day \in Int /\ c[day] \in Int
  BY DayIs, FS_Subset DEF DailyFigure
<1>2. Total(c, Days) = Total(c, T)
  <2>1. \A day \in Days \ T : c[day] = 0
    OBVIOUS
  <2>. HIDE DEF T
  <2>. QED
    BY <1>1, <2>1, TotalOfSupport
<1>3. IsFiniteSet(1..n)
  BY FS_Interval
<1>4. Total(g, 1..n) = Total(c, T)
  <2>. DEFINE J == 1..n
  <2>1. \A day \in T : h[day] \in J /\ c[day] \in Int
    BY <1>1
  <2>2. IsFiniteSet(J) /\ IsFiniteSet(T)
    BY <1>1, <1>3
  <2>. HIDE DEF T, h, J
  <2>3. Total([j \in J |-> Total(c, {day \in T : h[day] = j})], J) = Total(c, T)
    BY <2>1, <2>2, TotalOfTotals
  <2>. QED
    BY <2>3 DEF J
<1>5. ASSUME NEW j \in 1..n PROVE g[j] = f[j] /\ g[j] \in Int
  <2>. DEFINE day == first + j - 1
  <2>1. f[j] = IF day \in Days THEN c[day] ELSE 0
    BY <1>1 DEF OnDay
  <2>2. CASE day \in Days
    <3>1. day \in T /\ \A e \in T : h[e] = j <=> e = day
      BY <1>1, <2>2
    <3>2. {e \in T : h[e] = j} = {day}
      BY <3>1
    <3>3. Total(c, {day}) = c[day] /\ c[day] \in Int
      BY <1>1, <2>2, TotalOfOne
    <3>. QED
      BY <2>1, <2>2, <3>2, <3>3
  <2>3. CASE day \notin Days
    <3>1. {e \in T : h[e] = j} = {}
      <4>1. ASSUME NEW e \in T, h[e] = j PROVE e = day
        BY <1>1, <4>1
      <4>. QED
        BY <2>3, <4>1
    <3>2. Total(c, {}) = 0
      BY <1>1, TotalIsInt
    <3>3. g[j] = Total(c, {e \in T : h[e] = j})
      OBVIOUS
    <3>. HIDE DEF T, h, g
    <3>4. g[j] = 0
      BY <3>1, <3>2, <3>3
    <3>. QED
      BY <2>1, <2>3, <3>4
  <2>. QED
    BY <2>2, <2>3
<1>6. Total(f, 1..n) = Total(g, 1..n)
  <2>. HIDE DEF f, g
  <2>. QED
    BY <1>3, <1>5, TotalSame
<1>. QED
  BY <1>1, <1>2, <1>4, <1>6 DEF SumOf

(* Points put together into buckets add up to what they add up to.         *)
LEMMA BucketsKeep ==
  ASSUME NEW n \in Nat, NEW f, \A i \in 1..n : f[i] \in Int,
         NEW J, IsFiniteSet(J), NEW h, \A i \in 1..n : h[i] \in J,
         NEW b, \A j \in J : b[j] = {i \in 1..n : h[i] = j}
  PROVE  Total([j \in J |-> SumOf([i \in b[j] |-> f[i]])], J) = Total(f, 1..n)
<1>. DEFINE g == [j \in J |-> Total(f, {i \in 1..n : h[i] = j})]
            s == [j \in J |-> SumOf([i \in b[j] |-> f[i]])]
<1>1. IsFiniteSet(1..n)
  BY FS_Interval
<1>2. Total(g, J) = Total(f, 1..n)
  <2>. DEFINE I == 1..n
  <2>1. IsFiniteSet(I) /\ \A i \in I : f[i] \in Int /\ h[i] \in J
    BY <1>1
  <2>. HIDE DEF I
  <2>2. Total([j \in J |-> Total(f, {i \in I : h[i] = j})], J) = Total(f, I)
    BY <2>1, TotalOfTotals
  <2>. QED
    BY <2>2 DEF I
<1>3. ASSUME NEW j \in J PROVE s[j] = g[j] /\ g[j] \in Int
  <2>. DEFINE k == [i \in b[j] |-> f[i]]
  <2>1. b[j] \in SUBSET (1..n) /\ IsFiniteSet(b[j]) /\ Total(f, b[j]) \in Int
    BY <1>1, FS_Subset, TotalIsInt
  <2>2. \A i \in b[j] : f[i] \in Int /\ k[i] = f[i]
    BY <2>1
  <2>3. s[j] = Total(k, b[j]) /\ g[j] = Total(f, b[j])
    BY DEF SumOf
  <2>. HIDE DEF k
  <2>4. Total(k, b[j]) = Total(f, b[j])
    BY <2>1, <2>2, TotalSame
  <2>. QED
    BY <2>1, <2>3, <2>4
<1>4. Total(s, J) = Total(g, J)
  <2>. HIDE DEF s, g
  <2>. QED
    BY <1>3, TotalSame
<1>. QED
  BY <1>2, <1>4

LEMMA MinOfTwo ==
  ASSUME NEW a \in Int, NEW b \in Int
  PROVE  Min({a, b}) = IF a <= b THEN a ELSE b
BY DEF Min

LEMMA WeeksAre ==
  ASSUME NEW n \in Nat
  PROVE  LET W == (n + Week - 1) \div Week
             h == [i \in 1..n |-> (i - 1) \div Week + 1]
         IN /\ W \in Nat /\ \A i \in 1..n : h[i] \in 1..W
            /\ \A w \in 1..W : ((w - 1) * Week + 1)..Min({w * Week, n}) = {i \in 1..n : h[i] = w}
<1>. DEFINE W == (n + Week - 1) \div Week
            h == [i \in 1..n |-> (i - 1) \div Week + 1]
<1>0. Week \in Nat \ {0}
  BY ReportsAssumption
<1>1. W \in Nat
  BY <1>0, DivIs
<1>2. ASSUME NEW i \in 1..n
      PROVE  /\ h[i] \in Int /\ h[i] \in 1..W
             /\ Week * (h[i] - 1) <= i - 1 /\ i - 1 < Week * (h[i] - 1) + Week
  <2>. DEFINE q == (i - 1) \div Week
  <2>1. q \in Nat /\ Week * q <= i - 1 /\ i - 1 < Week * q + Week
    BY <1>0, DivIs
  <2>2. (n - 1) \div Week + 1 <= W
    <3>. DEFINE r == (n - 1) \div Week
    <3>1. r \in Int /\ Week * r <= n - 1 /\ n - 1 < Week * r + Week
      BY <1>0, DivIs
    <3>. HIDE DEF r
    <3>2. Week * (r + 1) <= n + Week - 1 /\ n + Week - 1 < Week * (r + 1) + Week
      BY <1>0, <3>1
    <3>3. W = r + 1
      BY <1>0, <3>1, <3>2, DivUnique
    <3>. QED
      BY <3>3, <3>1 DEF r
  <2>3. q <= (n - 1) \div Week /\ (n - 1) \div Week \in Int
    BY <1>0, DivGrows, DivIs
  <2>4. h[i] = q + 1 /\ h[i] - 1 = q
    BY <2>1
  <2>. HIDE DEF q, h
  <2>. QED
    BY <1>1, <2>1, <2>2, <2>3, <2>4
<1>3. ASSUME NEW w \in 1..W, NEW i \in 1..n
      PROVE  h[i] = w <=> (w - 1) * Week + 1 <= i /\ i <= w * Week
  <2>1. h[i] = w => (w - 1) * Week + 1 <= i /\ i <= w * Week
    BY <1>0, <1>2
  <2>2. (w - 1) * Week + 1 <= i /\ i <= w * Week => h[i] = w
    <3>1. SUFFICES ASSUME (w - 1) * Week + 1 <= i, i <= w * Week
                   PROVE  (i - 1) \div Week = w - 1
      BY <1>1
    <3>2. Week * (w - 1) <= i - 1 /\ i - 1 < Week * (w - 1) + Week
      BY <1>0, <1>1, <3>1
    <3>. QED
      BY <1>0, <1>1, <3>2, DivUnique
  <2>. QED
    BY <2>1, <2>2
<1>4. ASSUME NEW w \in 1..W
      PROVE  ((w - 1) * Week + 1)..Min({w * Week, n}) = {i \in 1..n : h[i] = w}
  <2>1. w \in Int /\ w * Week \in Int /\ (w - 1) * Week \in Nat
    <3>1. \A a, c \in Nat : a * c \in Nat
      OBVIOUS
    <3>. QED
      BY <1>0, <1>1, <3>1
  <2>2. \A i \in Int : i \in ((w - 1) * Week + 1)..Min({w * Week, n})
                         <=> /\ (w - 1) * Week + 1 <= i /\ i <= w * Week /\ i <= n
    BY <2>1, MinOfTwo
  <2>. HIDE DEF h
  <2>3. \A i \in Int : i \in 1..n <=> 1 <= i /\ i <= n
    OBVIOUS
  <2>4. \A i \in Int : (w - 1) * Week + 1 <= i => 1 <= i
    BY <2>1
  <2>5. Min({w * Week, n}) \in Int
    BY <2>1, MinOfTwo
  <2>6. \A i : i \in ((w - 1) * Week + 1)..Min({w * Week, n}) => i \in Int
    BY <2>1, <2>5
  <2>. QED
    BY <1>3, <2>2, <2>3, <2>4, <2>6
<1>. QED
  BY <1>1, <1>2, <1>4

(* Whether it shows days, weeks or months, a trend keeps what it was made  *)
(* of.  Sums over the points are written as Keeps writes them.             *)
Adds(trend, created, resolved) ==
  /\ SumOf([i \in DOMAIN trend |-> trend[i].created]) = SumOf(created)
  /\ SumOf([i \in DOMAIN trend |-> trend[i].resolved]) = SumOf(resolved)

Spans(c, first, n) == \A day \in Days : c[day] # 0 => first <= day /\ day <= first + n - 1

LEMMA DailyTrendKeeps ==
  ASSUME NEW c \in DailyFigure, NEW r \in DailyFigure, NEW first \in Int, NEW n \in Nat,
         Spans(c, first, n), Spans(r, first, n)
  PROVE  Adds(DailyTrend(first, n, c, r), c, r)
<1>. DEFINE t == DailyTrend(first, n, c, r)
            f == [i \in 1..n |-> OnDay(c, first + i - 1)]
            g == [i \in 1..n |-> OnDay(r, first + i - 1)]
<1>1. DOMAIN t = 1..n
  BY DEF DailyTrend
<1>2. [i \in DOMAIN t |-> t[i].created] = f /\ [i \in DOMAIN t |-> t[i].resolved] = g
  BY DEF DailyTrend
<1>3. Total(f, 1..n) = SumOf(c) /\ Total(g, 1..n) = SumOf(r)
  BY DailyKeeps DEF Spans
<1>4. SumOf(f) = Total(f, 1..n) /\ SumOf(g) = Total(g, 1..n)
  BY DEF SumOf
<1>. QED
  BY <1>2, <1>3, <1>4 DEF Adds

LEMMA DailyFiguresAreCounts ==
  ASSUME NEW c \in DailyFigure, NEW r \in DailyFigure, NEW first \in Int, NEW n \in Nat
  PROVE  LET t == DailyTrend(first, n, c, r)
         IN /\ DOMAIN t = 1..n
            /\ \A i \in 1..n : /\ t[i].created \in Int /\ t[i].resolved \in Int
                               /\ t[i].date = first + i - 1
BY DEF DailyTrend, OnDay, DailyFigure

LEMMA BucketsAdd ==
  ASSUME NEW c \in DailyFigure, NEW r \in DailyFigure, NEW first \in Int, NEW n \in Nat,
         Spans(c, first, n), Spans(r, first, n),
         NEW J, IsFiniteSet(J), NEW h, \A i \in 1..n : h[i] \in J,
         NEW b, \A j \in J : b[j] = {i \in 1..n : h[i] = j},
         NEW a, a = [j \in J |-> Bucket(DailyTrend(first, n, c, r), b[j])]
  PROVE  Adds(a, c, r)
<1>. DEFINE t == DailyTrend(first, n, c, r)
            f == [i \in 1..n |-> t[i].created]
            g == [i \in 1..n |-> t[i].resolved]
<1>1. /\ DOMAIN t = 1..n
      /\ \A i \in 1..n : f[i] \in Int /\ g[i] \in Int
  BY DailyFiguresAreCounts
<1>2. SumOf(f) = SumOf(c) /\ SumOf(g) = SumOf(r)
  <2>1. Adds(t, c, r)
    BY DailyTrendKeeps
  <2>. HIDE DEF t
  <2>. QED
    BY <1>1, <2>1 DEF Adds
<1>3. \A j \in J : b[j] \subseteq 1..n
  OBVIOUS
<1>. HIDE DEF t
<1>4. ASSUME NEW j \in J
      PROVE  /\ a[j].created = SumOf([i \in b[j] |-> f[i]])
             /\ a[j].resolved = SumOf([i \in b[j] |-> g[i]])
  <2>1. a[j] = Bucket(t, b[j])
    BY DEF t
  <2>2. [i \in b[j] |-> t[i].created] = [i \in b[j] |-> f[i]]
        /\ [i \in b[j] |-> t[i].resolved] = [i \in b[j] |-> g[i]]
    BY <1>3
  <2>. QED
    BY <2>1, <2>2 DEF Bucket
<1>5. DOMAIN a = J
  OBVIOUS
<1>6. /\ [j \in DOMAIN a |-> a[j].created] = [j \in J |-> SumOf([i \in b[j] |-> f[i]])]
      /\ [j \in DOMAIN a |-> a[j].resolved] = [j \in J |-> SumOf([i \in b[j] |-> g[i]])]
  <2>. HIDE DEF f, g
  <2>. QED
    BY <1>4, <1>5
<1>7. DOMAIN f = 1..n /\ DOMAIN g = 1..n
  OBVIOUS
<1>. HIDE DEF f, g
<1>8. /\ Total([j \in J |-> SumOf([i \in b[j] |-> f[i]])], J) = Total(f, 1..n)
      /\ Total([j \in J |-> SumOf([i \in b[j] |-> g[i]])], J) = Total(g, 1..n)
  <2>1. (\A i \in 1..n : f[i] \in Int) /\ (\A i \in 1..n : g[i] \in Int)
    BY <1>1
  <2>2. Total([j \in J |-> SumOf([i \in b[j] |-> f[i]])], J) = Total(f, 1..n)
    BY <2>1, BucketsKeep
  <2>3. Total([j \in J |-> SumOf([i \in b[j] |-> g[i]])], J) = Total(g, 1..n)
    BY <2>1, BucketsKeep
  <2>. QED
    BY <2>2, <2>3
<1>. QED
  BY <1>2, <1>5, <1>6, <1>7, <1>8 DEF Adds, SumOf

LEMMA AggregateKeeps ==
  ASSUME NEW c \in DailyFigure, NEW r \in DailyFigure, NEW first \in Int, NEW n \in Nat,
         Spans(c, first, n), Spans(r, first, n)
  PROVE  Adds(AggregateTrend(DailyTrend(first, n, c, r), n), c, r)
<1>. DEFINE t == DailyTrend(first, n, c, r)
            a == AggregateTrend(t, n)
<1>0. DailyLimit \in Nat /\ WeeklyLimit \in Nat /\ MonthLength \in Nat \ {0}
  BY ReportsAssumption
<1>1. CASE n <= DailyLimit
  <2>1. a = t
    BY <1>1 DEF AggregateTrend
  <2>. QED
    BY <2>1, DailyTrendKeeps
<1>2. CASE ~ (n <= DailyLimit) /\ n <= WeeklyLimit
  <2>. DEFINE W == (n + Week - 1) \div Week
              h == [i \in 1..n |-> (i - 1) \div Week + 1]
              b == [w \in 1..W |-> ((w - 1) * Week + 1)..Min({w * Week, n})]
  <2>1. a = [w \in 1..W |-> Bucket(t, ((w - 1) * Week + 1)..Min({w * Week, n}))]
    BY <1>2 DEF AggregateTrend
  <2>2. W \in Nat /\ (\A i \in 1..n : h[i] \in 1..W)
        /\ \A w \in 1..W : b[w] = {i \in 1..n : h[i] = w}
    BY WeeksAre
  <2>3. a = [w \in 1..W |-> Bucket(t, b[w])]
    <3>1. \A w \in 1..W : b[w] = ((w - 1) * Week + 1)..Min({w * Week, n})
      OBVIOUS
    <3>. HIDE DEF b, W, t, a
    <3>. QED
      BY <2>1, <3>1
  <2>4. IsFiniteSet(1..W)
    BY <2>2, FS_Interval
  <2>. DEFINE J == 1..W
  <2>. HIDE DEF b, h, J, W, a
  <2>5. IsFiniteSet(J) /\ (\A i \in 1..n : h[i] \in J)
        /\ (\A j \in J : b[j] = {i \in 1..n : h[i] = j}) /\ a = [j \in J |-> Bucket(t, b[j])]
    BY <2>2, <2>3, <2>4 DEF J
  <2>6. Adds(a, c, r)
    BY <2>5, BucketsAdd
  <2>. QED
    BY <2>6 DEF a
<1>3. CASE ~ (n <= DailyLimit) /\ ~ (n <= WeeklyLimit)
  <2>. DEFINE MonthAt(i) == Month(t[i].date) - Month(t[1].date) + 1
              h == [i \in 1..n |-> MonthAt(i)]
              J == 1..MonthAt(n)
              b == [m \in J |-> {i \in 1..n : MonthAt(i) = m}]
  <2>1. a = [m \in J |-> Bucket(t, {i \in 1..n : MonthAt(i) = m})]
    BY <1>3 DEF AggregateTrend
  <2>2. 1 \in 1..n /\ n \in 1..n
    BY <1>0, <1>3
  <2>3. \A i \in 1..n : t[i].date = first + i - 1
    BY DailyFiguresAreCounts
  <2>4. ASSUME NEW i \in 1..n, NEW k \in 1..n, i <= k
        PROVE  Month(t[i].date) \in Int /\ Month(t[i].date) <= Month(t[k].date)
    <3>1. /\ first + i - 1 \in Int /\ first + k - 1 \in Int
          /\ first + i - 1 <= first + k - 1
      BY <2>4
    <3>. HIDE DEF t
    <3>2. t[i].date \in Int /\ t[k].date \in Int /\ t[i].date <= t[k].date
      BY <2>3, <3>1
    <3>. QED
      BY <1>0, <3>2, DivIs, DivGrows DEF Month
  <2>5. ASSUME NEW i \in 1..n PROVE MonthAt(i) \in J
    <3>1. Month(t[1].date) <= Month(t[i].date) /\ Month(t[i].date) <= Month(t[n].date)
          /\ Month(t[1].date) \in Int /\ Month(t[i].date) \in Int /\ Month(t[n].date) \in Int
      BY <2>2, <2>4
    <3>. QED
      BY <3>1
  <2>6. IsFiniteSet(J)
    BY <2>2, <2>4, FS_Interval
  <2>7. (\A i \in 1..n : h[i] = MonthAt(i))
        /\ \A m \in J : b[m] = {i \in 1..n : MonthAt(i) = m}
    OBVIOUS
  <2>. HIDE DEF h, J, b, a, t
  <2>8. (\A i \in 1..n : h[i] \in J)
        /\ (\A m \in J : b[m] = {i \in 1..n : h[i] = m}) /\ a = [m \in J |-> Bucket(t, b[m])]
    BY <2>1, <2>5, <2>7
  <2>9. Adds(a, c, r)
    BY <2>6, <2>8, BucketsAdd DEF t
  <2>. QED
    BY <2>9 DEF a, t
<1>. QED
  BY <1>1, <1>2, <1>3

-----------------------------------------------------------------------------
(* The report's trend starts with the first day of the period, and has as  *)
(* many days as the period.                                                *)
LEMMA ReportDays ==
  ASSUME NEW from \in Days, NEW to \in Days, Midnight(from) < LastInstant(to),
         NEW p, p = [start |-> Midnight(from), end |-> LastInstant(to)]
  PROVE  /\ Day(p.start) = from /\ PeriodDays(p) = to - from + 1 /\ PeriodDays(p) \in Nat
         /\ \A c \in DailyFigure : Within(c, p) => Spans(c, from, PeriodDays(p))
<1>0. DayLength \in Nat /\ DayLength >= 2 /\ from \in Int /\ to \in Int /\ MaxInstant \in Nat
  BY ReportsAssumption, DayIs
<1>1. Midnight(from) = DayLength * from /\ LastInstant(to) = DayLength * to + DayLength - 1
      /\ Midnight(to) = DayLength * to /\ Midnight(to + 1) = DayLength * to + DayLength
      /\ Midnight(from + 1) = DayLength * from + DayLength
  BY <1>0 DEF Midnight, LastInstant
<1>2. Day(p.start) = from /\ Day(p.end) = to /\ p.start \in Int /\ p.end \in Int
  <2>1. DayLength * from \in Int /\ DayLength * to \in Int
    BY <1>0
  <2>2. p.start \in Int /\ Midnight(from) <= p.start /\ p.start < Midnight(from + 1)
        /\ p.end \in Int /\ Midnight(to) <= p.end /\ p.end < Midnight(to + 1)
    BY <1>0, <1>1, <2>1
  <2>. QED
    BY <1>0, <2>2, DayIs
<1>3. from <= to
  BY <1>2, DayIs
<1>4. PeriodDays(p) = to - from + 1
  <2>. DEFINE q == to - from + 1
  <2>1. DayLength * q = DayLength * to - DayLength * from + DayLength
        /\ DayLength * to \in Int /\ DayLength * from \in Int /\ q \in Int
    BY <1>0
  <2>. HIDE DEF q
  <2>2. p.end - p.start + DayLength - 1 = DayLength * q + DayLength - 2
    BY <1>0, <1>1, <2>1
  <2>3. DayLength * q <= p.end - p.start + DayLength - 1
        /\ p.end - p.start + DayLength - 1 < DayLength * q + DayLength
        /\ p.end - p.start + DayLength - 1 \in Int
    BY <1>0, <2>1, <2>2
  <2>4. PeriodDays(p) = q
    BY <1>0, <2>1, <2>3, DivUnique DEF PeriodDays
  <2>. QED
    BY <2>4 DEF q
<1>5. ASSUME NEW c \in DailyFigure, Within(c, p), NEW day \in Days, c[day] # 0
      PROVE  from <= day /\ day <= to
  <2>1. PICK t \in 0..MaxInstant : Between(t, p) /\ Day(t) = day
    BY <1>5 DEF Within
  <2>2. t \in Int /\ p.start <= t /\ t <= p.end
    BY <1>0, <1>2, <2>1 DEF Between
  <2>. QED
    BY <1>2, <2>1, <2>2, DayIs
<1>6. \A c \in DailyFigure : Within(c, p) => Spans(c, from, PeriodDays(p))
  <2>1. from + PeriodDays(p) - 1 = to
    BY <1>0, <1>4
  <2>. QED
    BY <1>5, <2>1 DEF Spans
<1>. QED
  BY <1>0, <1>2, <1>3, <1>4, <1>6

LEMMA ReportTrendKeeps ==
  ASSUME FiguresInv, Complete, reading.kind = "report"
  PROVE  Keeps(ReportTrend)
<1>. DEFINE c == Got("created")
            r == Got("resolved")
            p == reading.period
<1>1. c \in DailyFigure /\ r \in DailyFigure /\ Within(c, p) /\ Within(r, p)
  <2>1. "created" \in Asked(reading.kind) /\ "resolved" \in Asked(reading.kind)
    BY StatementsAre
  <2>2. Shape("created", c, p) /\ Shape("resolved", r, p)
    BY <2>1, GotIs
  <2>. QED
    BY <2>2 DEF Shape
<1>2. PICK from, to \in Days : /\ p = [start |-> Midnight(from), end |-> LastInstant(to)]
                               /\ Midnight(from) < LastInstant(to)
  BY DEF FiguresInv, PeriodInv
<1>. DEFINE n == PeriodDays(p)
<1>. HIDE DEF c, r, p
<1>3. Day(p.start) = from /\ n \in Nat /\ from \in Int
      /\ Spans(c, from, n) /\ Spans(r, from, n)
  BY <1>1, <1>2, ReportDays, DayIs
<1>. HIDE DEF n
<1>4. Adds(AggregateTrend(DailyTrend(from, n, c, r), n), c, r)
  BY <1>1, <1>3, AggregateKeeps
<1>5. ReportTrend = AggregateTrend(DailyTrend(from, n, c, r), n)
  BY <1>3 DEF ReportTrend, c, r, p, n
<1>. QED
  BY <1>4, <1>5 DEF Adds, Keeps, c, r

(* The trend of the dashboard ends with today, and nothing is later.       *)
LEMMA DashboardTrendKeeps ==
  ASSUME FiguresInv, Complete, reading.kind = "trend", ~reading.disturbed
  PROVE  Keeps(DashboardTrend)
<1>. DEFINE p == reading.period
            today == Day(instant)
            first == today - TrendDays + 1
<1>0. instant \in Int /\ today \in Int /\ first \in Int /\ TrendDays \in Nat
      /\ first + TrendDays - 1 = today
  BY DayIs, ReportsAssumption DEF FiguresInv, FiledInv
<1>1. "created" \in Asked(reading.kind) /\ "resolved" \in Asked(reading.kind)
      /\ "today" \in Asked(reading.kind)
  BY StatementsAre
<1>2. /\ Got("created") = Answer("created", p) /\ Got("resolved") = Answer("resolved", p)
      /\ Got("today") = today
      /\ Shape("created", Got("created"), p) /\ Shape("resolved", Got("resolved"), p)
  BY <1>1, GotIs DEF Answer
<1>3. p.start = Midnight(first)
  BY DEF FiguresInv, FreshInv, Complete, LastDays
<1>4. ASSUME NEW c \in DailyFigure, Within(c, p), NEW day \in Days, c[day] # 0
      PROVE  first <= day
  <2>1. PICK t \in 0..MaxInstant : Between(t, p) /\ Day(t) = day
    BY <1>4 DEF Within
  <2>2. t \in Int /\ Midnight(first) \in Int /\ Midnight(first) <= t
    BY <1>0, <1>3, <2>1, DayIs, ReportsAssumption DEF Between
  <2>3. Day(Midnight(first)) = first
    <3>1. Midnight(first) < Midnight(first + 1)
      <4>1. DayLength * first \in Int /\ Midnight(first) = DayLength * first
            /\ Midnight(first + 1) = DayLength * first + DayLength
        BY <1>0, ReportsAssumption DEF Midnight
      <4>. QED
        BY <4>1, ReportsAssumption
    <3>. QED
      BY <1>0, <2>2, <3>1, DayIs
  <2>. QED
    BY <1>0, <2>1, <2>2, <2>3, DayIs
<1>5. ASSUME NEW day \in Days, Got("created")[day] # 0 PROVE day <= today
  <2>. DEFINE On == {d \in CreatedIn(p) : Day(filed[d].createdAt) = day}
  <2>1. Got("created")[day] = Cardinality(On)
    BY <1>2 DEF Answer
  <2>2. PICK d \in On : TRUE
    <3>. HIDE DEF On
    <3>. QED
      BY <1>5, <2>1, FS_EmptySet
  <2>3. filed[d].createdAt \in 0..MaxInstant /\ filed[d].createdAt <= instant
    BY <2>2, RowsInScope DEF FiguresInv
  <2>4. filed[d].createdAt \in Int /\ Day(filed[d].createdAt) = day
    BY <2>2, <2>3
  <2>. QED
    BY <1>0, <2>3, <2>4, DayIs
<1>6. ASSUME NEW day \in Days, Got("resolved")[day] # 0 PROVE day <= today
  <2>. DEFINE On == {d \in ResolvedIn(p) : Day(filed[d].updatedAt) = day}
  <2>1. Got("resolved")[day] = Cardinality(On)
    BY <1>2 DEF Answer
  <2>2. PICK d \in On : TRUE
    <3>. HIDE DEF On
    <3>. QED
      BY <1>6, <2>1, FS_EmptySet
  <2>3. filed[d].updatedAt \in 0..MaxInstant /\ filed[d].updatedAt <= instant
    BY <2>2, RowsInScope DEF FiguresInv
  <2>4. filed[d].updatedAt \in Int /\ Day(filed[d].updatedAt) = day
    BY <2>2, <2>3
  <2>. QED
    BY <1>0, <2>3, <2>4, DayIs
<1>7. Got("created") \in DailyFigure /\ Got("resolved") \in DailyFigure
      /\ Within(Got("created"), p) /\ Within(Got("resolved"), p)
  BY <1>2 DEF Shape
<1>8. Spans(Got("created"), first, TrendDays) /\ Spans(Got("resolved"), first, TrendDays)
  <2>. HIDE DEF first, today
  <2>. QED
    BY <1>0, <1>4, <1>5, <1>6, <1>7 DEF Spans
<1>9. Adds(DailyTrend(first, TrendDays, Got("created"), Got("resolved")),
           Got("created"), Got("resolved"))
  <2>. HIDE DEF first
  <2>. QED
    BY <1>0, <1>7, <1>8, DailyTrendKeeps
<1>10. DashboardTrend = DailyTrend(first, TrendDays, Got("created"), Got("resolved"))
  BY <1>2 DEF DashboardTrend
<1>. QED
  BY <1>9, <1>10 DEF Adds, Keeps

(* Counted by status or by day, all demands of a set are counted once; by  *)
(* category, those without one are not.                                    *)
LEMMA CountsAddUp ==
  ASSUME FiledInv, NEW p
  PROVE  /\ SumOf(ByStatus(CreatedIn(p))) = Cardinality(CreatedIn(p))
         /\ SumOf(Answer("created", p)) = Cardinality(CreatedIn(p))
         /\ SumOf(Answer("byCategory", p)) <= Cardinality(CreatedIn(p))
<1>. DEFINE D == CreatedIn(p)
            n == Cardinality(D)
<1>1. IsFiniteSet(D) /\ n \in Nat
      /\ \A d \in D : /\ filed[d].status \in Statuses /\ Day(filed[d].createdAt) \in Days
  BY RowsInScope, DayIs
<1>2. SumOf(ByStatus(D)) = n
  <2>. DEFINE h == [d \in D |-> filed[d].status]
              c == ByStatus(D)
  <2>1. (\A s \in Statuses : c[s] = Cardinality({d \in D : h[d] = s}))
        /\ DOMAIN c = Statuses
    <3>1. \A s : {d \in D : h[d] = s} = {d \in D : filed[d].status = s}
      OBVIOUS
    <3>. QED
      BY <3>1 DEF ByStatus
  <2>2. {d \in D : h[d] \in Statuses} = D
    BY <1>1
  <2>. HIDE DEF D, h, c
  <2>3. IsFiniteSet(D) /\ IsFiniteSet(Statuses)
    BY <1>1, StatusesAreFew
  <2>4. Total(c, Statuses) = Cardinality({d \in D : h[d] \in Statuses})
    BY <2>1, <2>3, TotalOfCounts
  <2>. QED
    BY <2>1, <2>2, <2>4 DEF SumOf, c
<1>3. SumOf(Answer("created", p)) = n
  <2>. DEFINE h == [d \in D |-> Day(filed[d].createdAt)]
              c == Answer("created", p)
  <2>1. (\A day \in Days : c[day] = Cardinality({d \in D : h[d] = day})) /\ DOMAIN c = Days
    <3>1. \A day : {d \in D : h[d] = day} = {d \in D : Day(filed[d].createdAt) = day}
      OBVIOUS
    <3>2. c = [day \in Days |-> Cardinality({d \in D : Day(filed[d].createdAt) = day})]
      BY DEF Answer
    <3>. QED
      BY <3>1, <3>2
  <2>2. {d \in D : h[d] \in Days} = D
    BY <1>1
  <2>. HIDE DEF D, h, c
  <2>3. IsFiniteSet(D) /\ IsFiniteSet(Days)
    BY <1>1, DayIs
  <2>4. Total(c, Days) = Cardinality({d \in D : h[d] \in Days})
    BY <2>1, <2>3, TotalOfCounts
  <2>. QED
    BY <2>1, <2>2, <2>4 DEF SumOf, c
<1>4. SumOf(Answer("byCategory", p)) <= n
  <2>. DEFINE h == [d \in D |-> filed[d].category]
              c == Answer("byCategory", p)
  <2>1. (\A k \in Categories : c[k] = Cardinality({d \in D : h[d] = k}))
        /\ DOMAIN c = Categories
    <3>1. \A k : {d \in D : h[d] = k} = {d \in D : filed[d].category = k}
      OBVIOUS
    <3>2. c = [k \in Categories |-> Cardinality({d \in D : filed[d].category = k})]
      BY DEF Answer
    <3>. QED
      BY <3>1, <3>2
  <2>2. {d \in D : h[d] \in Categories} \subseteq D
    OBVIOUS
  <2>. HIDE DEF D, h, c
  <2>3. IsFiniteSet(D) /\ IsFiniteSet(Categories)
    BY <1>1, ReportsAssumption
  <2>4. Total(c, Categories) = Cardinality({d \in D : h[d] \in Categories})
    BY <2>1, <2>3, TotalOfCounts
  <2>5. Cardinality({d \in D : h[d] \in Categories}) <= Cardinality(D)
    BY <1>1, <2>2, FS_Subset
  <2>. QED
    BY <2>1, <2>4, <2>5 DEF SumOf, c, n
<1>. QED
  BY <1>2, <1>3, <1>4

LEMMA ReportFiguresAgree ==
  ASSUME FiguresInv, Complete, reading.kind = "report", ~reading.disturbed
  PROVE  ReportAgrees
<1>. DEFINE p == reading.period
            n == Cardinality(CreatedIn(p))
            s == Got("byStatus")
<1>1. /\ "total" \in Asked(reading.kind) /\ "byStatus" \in Asked(reading.kind)
      /\ "created" \in Asked(reading.kind) /\ "byCategory" \in Asked(reading.kind)
  BY StatementsAre
<1>2. /\ Got("total") = Answer("total", p) /\ s = Answer("byStatus", p)
      /\ Got("created") = Answer("created", p) /\ Got("byCategory") = Answer("byCategory", p)
      /\ Shape("byStatus", s, p)
  BY <1>1, GotIs
<1>3. Answer("total", p) = n /\ Answer("byStatus", p) = ByStatus(CreatedIn(p))
  BY DEF Answer
<1>4. n \in Nat
  BY RowsInScope DEF FiguresInv
<1>5. /\ SumOf(s) = n /\ SumOf(Got("created")) = n /\ SumOf(Got("byCategory")) <= n
      /\ Got("total") = n
  BY <1>2, <1>3, CountsAddUp DEF FiguresInv
<1>6. s \in [Statuses -> Nat]
  BY <1>2 DEF Shape
<1>. HIDE DEF s, n
<1>7. OpenCount(n, s) = Total(s, Statuses \ Closed)
  <2>1. Statuses \cap Closed \in SUBSET Statuses
        /\ Statuses \ (Statuses \cap Closed) = Statuses \ Closed
    OBVIOUS
  <2>2. IsFiniteSet(Statuses) /\ \A x \in Statuses : s[x] \in Nat /\ s[x] \in Int
    BY <1>6, StatusesAreFew
  <2>3. Total(s, Statuses) = Total(s, Statuses \cap Closed)
                             + Total(s, Statuses \ (Statuses \cap Closed))
    BY <2>1, <2>2, TotalOfParts
  <2>4. Total(s, Statuses) = n
    BY <1>5, <1>6 DEF SumOf
  <2>5. Total(s, Statuses \ Closed) \in Nat /\ Total(s, Statuses \cap Closed) \in Nat
    BY <2>1, <2>2, TotalIsNat
  <2>. DEFINE open == Total(s, Statuses \ Closed)
              closed == Total(s, Statuses \cap Closed)
  <2>6. n = closed + open
    BY <2>1, <2>3, <2>4
  <2>. HIDE DEF open
  <2>7. n - closed = open /\ (~ (open > 0) => open = 0)
    BY <2>5, <2>6 DEF open
  <2>8. OpenCount(n, s) = open
    BY <2>7 DEF OpenCount
  <2>. QED
    BY <2>8 DEF open
<1>. QED
  BY <1>5, <1>7 DEF ReportAgrees, s

LEMMA FewerResolved ==
  ASSUME FiguresInv, Complete, ~reading.disturbed,
         reading.kind \in {"metrics", "summary", "neighborhood"}
  PROVE  /\ Got("resolvedCount") <= Got("total")
         /\ reading.kind = "neighborhood" => Got("resolvedCount") + Got("active") <= Got("total")
<1>. DEFINE p == reading.period
            D == CreatedIn(p)
            R == {d \in D : filed[d].status = "RESOLVED"}
            A == {d \in D : filed[d].status \notin Closed}
<1>1. /\ "total" \in Asked(reading.kind) /\ "resolvedCount" \in Asked(reading.kind)
      /\ reading.kind = "neighborhood" => "active" \in Asked(reading.kind)
  BY StatementsAre
<1>2. /\ Got("total") = Cardinality(D)
      /\ Got("resolvedCount") = Cardinality(R)
      /\ reading.kind = "neighborhood" => Got("active") = Cardinality(A)
  <2>1. /\ Got("total") = Answer("total", p)
        /\ Got("resolvedCount") = Answer("resolvedCount", p)
        /\ reading.kind = "neighborhood" => Got("active") = Answer("active", p)
    BY <1>1, GotIs
  <2>2. ByStatus(D)["RESOLVED"] = Cardinality(R)
    BY StatusesAreFew DEF ByStatus
  <2>. QED
    BY <2>1, <2>2 DEF Answer
<1>3. IsFiniteSet(D) /\ R \subseteq D /\ A \subseteq D /\ R \cap A = {}
  BY RowsInScope DEF FiguresInv, Closed
<1>. HIDE DEF D, R, A
<1>4. /\ IsFiniteSet(R) /\ IsFiniteSet(A) /\ Cardinality(R) <= Cardinality(D)
      /\ Cardinality(R \cup A) <= Cardinality(D)
      /\ Cardinality(R) \in Nat /\ Cardinality(A) \in Nat
  <2>1. IsFiniteSet(R) /\ IsFiniteSet(A) /\ R \cup A \subseteq D
    BY <1>3, FS_Subset
  <2>. QED
    BY <1>3, <2>1, FS_Subset, FS_CardinalityType
<1>5. Cardinality(R \cup A) = Cardinality(R) + Cardinality(A)
  <2>1. Cardinality(R \cup A) = Cardinality(R) + Cardinality(A) - Cardinality(R \cap A)
    BY <1>4, FS_Union
  <2>2. Cardinality(R \cap A) = 0
    BY <1>3, FS_EmptySet
  <2>. QED
    BY <1>4, <2>1, <2>2
<1>. QED
  BY <1>2, <1>4, <1>5

LEMMA FiguresThatAgree == FiguresInv => FiguresAgree
<1> SUFFICES ASSUME FiguresInv, Complete
             PROVE  /\ reading.kind = "report" => Keeps(ReportTrend)
                    /\ ~reading.disturbed =>
                         CASE reading.kind = "report" -> ReportAgrees
                           [] reading.kind = "trend" -> Keeps(DashboardTrend)
                           [] reading.kind \in {"metrics", "summary"} ->
                                Got("resolvedCount") <= Got("total")
                           [] reading.kind = "neighborhood" ->
                                Got("resolvedCount") + Got("active") <= Got("total")
                           [] reading.kind = "openData" -> TRUE
  BY DEF FiguresAgree
<1>1. reading.kind = "report" => Keeps(ReportTrend)
  BY ReportTrendKeeps
<1>2. reading.kind \in Kinds
  BY StatementsAre DEF Complete, FiguresInv, ReadingInv, Reading
<1>3. ASSUME ~reading.disturbed
      PROVE  /\ reading.kind = "report" => ReportAgrees
             /\ reading.kind = "trend" => Keeps(DashboardTrend)
             /\ reading.kind \in {"metrics", "summary"} => Got("resolvedCount") <= Got("total")
             /\ reading.kind = "neighborhood" =>
                  Got("resolvedCount") + Got("active") <= Got("total")
  BY <1>3, ReportFiguresAgree, DashboardTrendKeeps, FewerResolved
<1>. QED
  BY <1>1, <1>2, <1>3 DEF Kinds

(* Figures nothing was written under agree, and a trend keeps every demand *)
(* that was counted, in days, weeks or months: the labels and buckets of   *)
(* demands.repository.ts:1010, 1068 and 855, for every calendar, period    *)
(* and table of demands, however the statements and the writes interleave. *)
THEOREM FiguresAgreeing == ReportsSpec => []FiguresAgree
BY FiguresAlways, FiguresThatAgree, PTL

-----------------------------------------------------------------------------
(* A rounded percentage is within half a point of the share.               *)
LEMMA PercentageIs ==
  ASSUME NEW count \in Nat, NEW W \in Nat \ {0}, count <= W
  PROVE  LET q == Percentage(count, W)
         IN /\ q \in Nat /\ q <= 100 /\ (count = 0 => q = 0)
            /\ W * (2 * q) <= 200 * count + W /\ 200 * count - W <= W * (2 * q)
<1>. DEFINE q == (200 * count + W) \div (2 * W)
<1>1. 2 * W \in Nat \ {0} /\ 200 * count + W \in Int /\ 200 * count + W >= 0
  OBVIOUS
<1>2. q \in Nat /\ (2 * W) * q <= 200 * count + W /\ 200 * count + W < (2 * W) * q + 2 * W
  BY <1>1, DivIs
<1>3. Percentage(count, W) = q
  BY DEF Percentage
<1>4. count = 0 => q = 0
  BY <1>1, DivUnique
<1>. HIDE DEF q
<1>5. (2 * W) * q = W * (2 * q) /\ W * (2 * q) \in Int
  BY <1>2
<1>6. q <= 100
  <2>1. SUFFICES ASSUME q >= 101 PROVE FALSE
    BY <1>2
  <2>2. W * (2 * q) >= W * 202
    <3>1. \A a, b, c \in Nat : b <= c => a * b <= a * c
      OBVIOUS
    <3>. QED
      BY <1>2, <2>1, <3>1
  <2>. QED
    BY <1>2, <1>5, <2>2
<1>. QED
  BY <1>2, <1>3, <1>4, <1>5, <1>6

LEMMA SharesAdd ==
  ASSUME NEW S, IsFiniteSet(S), NEW c \in [S -> Nat], Total(c, S) # 0
  PROVE  LET W == Total(c, S)
             share == [x \in S |-> Percentage(c[x], W)]
             shown == {x \in S : c[x] > 0}
             off == Total(share, S) - 100
         IN /\ \A x \in shown : share[x] <= 100
            /\ 2 * off <= Cardinality(shown) /\ -2 * off <= Cardinality(shown)
<1>. DEFINE W == Total(c, S)
            share == [x \in S |-> Percentage(c[x], W)]
            shown == {x \in S : c[x] > 0}
            I == {T \in SUBSET shown :
                    /\ W * (2 * Total(share, T)) <= 200 * Total(c, T) + W * Cardinality(T)
                    /\ 200 * Total(c, T) - W * Cardinality(T) <= W * (2 * Total(share, T))}
<1>1. W \in Nat \ {0} /\ \A x \in S : c[x] \in Nat /\ c[x] \in Int /\ c[x] <= W
  BY TotalIsNat
<1>. HIDE DEF W
<1>2. ASSUME NEW x \in S
      PROVE  /\ share[x] \in Nat /\ share[x] \in Int /\ share[x] <= 100
             /\ (c[x] = 0 => share[x] = 0)
             /\ W * (2 * share[x]) <= 200 * c[x] + W /\ 200 * c[x] - W <= W * (2 * share[x])
  <2>. DEFINE n == c[x]
              q == Percentage(n, W)
  <2>1. n \in Nat /\ n <= W /\ share[x] = q
    BY <1>1
  <2>. HIDE DEF n, share
  <2>2. /\ q \in Nat /\ q <= 100 /\ (n = 0 => q = 0)
        /\ W * (2 * q) <= 200 * n + W /\ 200 * n - W <= W * (2 * q)
    BY <1>1, <2>1, PercentageIs
  <2>. QED
    BY <2>1, <2>2 DEF n
<1>3. IsFiniteSet(shown) /\ shown \in SUBSET S
  BY FS_Subset
<1>. HIDE DEF share
<1>4. {} \in I
  <2>1. Total(share, {}) = 0 /\ Total(c, {}) = 0 /\ Cardinality({}) = 0
    BY <1>1, <1>2, TotalIsInt, FS_EmptySet
  <2>. QED
    BY <1>1, <2>1
<1>5. ASSUME NEW T \in SUBSET shown, T # {}, \A x \in T : T \ {x} \in I PROVE T \in I
  <2>1. PICK x \in T : TRUE
    BY <1>5
  <2>. DEFINE U == T \ {x}
  <2>2. T \subseteq S /\ IsFiniteSet(T) /\ IsFiniteSet(U) /\ U \in SUBSET S /\ x \in S
    BY <1>3, <2>1, FS_Subset
  <2>3. Total(c, T) = c[x] + Total(c, U) /\ Total(share, T) = share[x] + Total(share, U)
    <3>1. (\A y \in T : c[y] \in Int) /\ (\A y \in T : share[y] \in Int)
      BY <1>1, <1>2, <2>2
    <3>2. Total(c, T) = c[x] + Total(c, T \ {x})
      BY <2>2, <3>1, TotalTakesOut
    <3>3. Total(share, T) = share[x] + Total(share, T \ {x})
      BY <2>2, <3>1, TotalTakesOut
    <3>. QED
      BY <3>2, <3>3
  <2>4. Cardinality(T) = Cardinality(U) + 1 /\ Cardinality(U) \in Nat
    BY <2>1, <2>2, FS_RemoveElement, FS_CardinalityType
  <2>5. Total(c, U) \in Int /\ Total(share, U) \in Int /\ c[x] \in Int /\ share[x] \in Int
    BY <1>1, <1>2, <2>2, TotalIsInt
  <2>6. /\ W * (2 * Total(share, U)) <= 200 * Total(c, U) + W * Cardinality(U)
        /\ 200 * Total(c, U) - W * Cardinality(U) <= W * (2 * Total(share, U))
    BY <1>5, <2>1
  <2>7. /\ W * (2 * share[x]) <= 200 * c[x] + W /\ 200 * c[x] - W <= W * (2 * share[x])
    BY <1>2, <2>2
  <2>. HIDE DEF U
  <2>8. \A a, b, w, k \in Int : /\ w * (2 * (a + b)) = w * (2 * a) + w * (2 * b)
                                /\ w * (k + 1) = w * k + w
    OBVIOUS
  <2>9. /\ W * (2 * Total(share, T)) = W * (2 * share[x]) + W * (2 * Total(share, U))
        /\ W * Cardinality(T) = W * Cardinality(U) + W
    <3>1. W \in Int /\ Cardinality(U) \in Int
      BY <1>1, <2>4
    <3>2. /\ W * (2 * (share[x] + Total(share, U)))
               = W * (2 * share[x]) + W * (2 * Total(share, U))
          /\ W * (Cardinality(U) + 1) = W * Cardinality(U) + W
      BY <2>5, <2>8, <3>1
    <3>. QED
      BY <2>3, <2>4, <3>2
  <2>10. \A a, b \in Int : a * b \in Int
    OBVIOUS
  <2>11. /\ W * (2 * share[x]) \in Int /\ W * (2 * Total(share, U)) \in Int
         /\ W * Cardinality(U) \in Int
    BY <1>1, <2>4, <2>5, <2>10
  <2>12. /\ W * (2 * Total(share, T)) <= 200 * Total(c, T) + W * Cardinality(T)
         /\ 200 * Total(c, T) - W * Cardinality(T) <= W * (2 * Total(share, T))
    BY <1>1, <2>3, <2>5, <2>6, <2>7, <2>9, <2>11
  <2>. QED
    BY <2>12
<1>6. /\ W * (2 * Total(share, shown)) <= 200 * Total(c, shown) + W * Cardinality(shown)
      /\ 200 * Total(c, shown) - W * Cardinality(shown) <= W * (2 * Total(share, shown))
  <2>1. shown \in I
    <3>. HIDE DEF I, shown
    <3>. QED
      BY <1>3, <1>4, <1>5, FiniteSetInduction
  <2>. QED
    BY <2>1
<1>7. Total(c, shown) = W /\ Total(share, shown) = Total(share, S) /\ Total(share, S) \in Int
  <2>1. \A x \in S \ shown : c[x] = 0 /\ share[x] = 0
    BY <1>1, <1>2
  <2>. HIDE DEF shown
  <2>2. Total(c, S) = Total(c, shown)
    BY <1>1, <1>3, <2>1, TotalOfSupport
  <2>3. Total(share, S) = Total(share, shown)
    BY <1>2, <1>3, <2>1, TotalOfSupport
  <2>4. Total(share, S) \in Int
    BY <1>2, TotalIsInt
  <2>. QED
    BY <2>2, <2>3, <2>4 DEF W
<1>8. Cardinality(shown) \in Nat
  BY <1>3, FS_CardinalityType
<1>9. \A w \in Nat \ {0} : \A a, b \in Int : w * a <= w * b => a <= b
  OBVIOUS
<1>10. 2 * (Total(share, S) - 100) <= Cardinality(shown)
       /\ -2 * (Total(share, S) - 100) <= Cardinality(shown)
  <2>. DEFINE s == Total(share, S)
              k == Cardinality(shown)
  <2>1. s \in Int /\ k \in Int
    BY <1>7, <1>8
  <2>. HIDE DEF s, k
  <2>2. W * (2 * s) <= 200 * W + W * k /\ 200 * W - W * k <= W * (2 * s)
    BY <1>6, <1>7 DEF s, k
  <2>3. W * (200 + k) = 200 * W + W * k /\ W * (200 - k) = 200 * W - W * k
    BY <1>1, <2>1
  <2>4. 2 * s <= 200 + k /\ 200 - k <= 2 * s
    BY <1>1, <1>9, <2>1, <2>2, <2>3
  <2>5. 2 * (s - 100) <= k /\ -2 * (s - 100) <= k
    BY <2>1, <2>4
  <2>. QED
    BY <2>5 DEF s, k
<1>11. \A x \in shown : share[x] <= 100
  BY <1>2
<1>. QED
  BY <1>10, <1>11 DEF W, share

LEMMA SharesOfFigures == FiguresInv => SharesMakeAWhole
<1> SUFFICES ASSUME FiguresInv, Complete,
                    reading.kind \in {"report", "openData", "summary", "neighborhood"},
                    reading.kind = "report" => ~reading.disturbed,
                    SumOf(Parts) > 0
             PROVE  LET share == [x \in DOMAIN Parts |-> Percentage(Parts[x], Whole)]
                        shown == {x \in DOMAIN Parts : Parts[x] > 0}
                        off == SumOf(share) - 100
                    IN /\ \A x \in shown : share[x] <= 100
                       /\ 2 * off <= Cardinality(shown) /\ -2 * off <= Cardinality(shown)
  BY DEF SharesMakeAWhole
<1>1. \E S : IsFiniteSet(S) /\ Parts \in [S -> Nat]
  <2>1. /\ reading.kind \in {"report", "openData"} => "byStatus" \in Asked(reading.kind)
        /\ reading.kind \in {"summary", "neighborhood"} => "byCategory" \in Asked(reading.kind)
    BY StatementsAre
  <2>2. CASE reading.kind \in {"report", "openData"}
    <3>1. Shape("byStatus", Got("byStatus"), reading.period)
      BY <2>1, <2>2, GotIs
    <3>. QED
      BY <2>2, <3>1, StatusesAreFew DEF Shape, Parts
  <2>3. CASE reading.kind \in {"summary", "neighborhood"}
    <3>1. Shape("byCategory", Got("byCategory"), reading.period)
      BY <2>1, <2>3, GotIs
    <3>. QED
      BY <2>3, <3>1, ReportsAssumption DEF Shape, Parts
  <2>. QED
    BY <2>2, <2>3
<1>2. PICK S : IsFiniteSet(S) /\ Parts \in [S -> Nat]
  BY <1>1
<1>3. Whole = SumOf(Parts)
  <2>1. CASE reading.kind = "report"
    BY <2>1, ReportFiguresAgree DEF ReportAgrees, Whole, Parts
  <2>2. CASE reading.kind # "report"
    BY <2>2 DEF Whole
  <2>. QED
    BY <2>1, <2>2
<1>4. DOMAIN Parts = S /\ SumOf(Parts) = Total(Parts, S) /\ Total(Parts, S) # 0
  BY <1>2 DEF SumOf
<1>. DEFINE c == Parts
<1>5. c \in [S -> Nat] /\ Total(c, S) # 0 /\ Whole = Total(c, S) /\ DOMAIN c = S
  BY <1>2, <1>3, <1>4
<1>. HIDE DEF c
<1>6. LET W == Total(c, S)
          share == [x \in S |-> Percentage(c[x], W)]
          shown == {x \in S : c[x] > 0}
          off == Total(share, S) - 100
      IN /\ \A x \in shown : share[x] <= 100
         /\ 2 * off <= Cardinality(shown) /\ -2 * off <= Cardinality(shown)
  BY <1>2, <1>5, SharesAdd
<1>7. LET share == [x \in S |-> Percentage(c[x], Whole)]
          shown == {x \in S : c[x] > 0}
          off == SumOf(share) - 100
      IN /\ \A x \in shown : share[x] <= 100
         /\ 2 * off <= Cardinality(shown) /\ -2 * off <= Cardinality(shown)
  BY <1>5, <1>6 DEF SumOf
<1>. QED
  BY <1>5, <1>7 DEF c

(* Shares that are shown make a whole, up to half a point for each: the    *)
(* rounding of demands.repository.ts:741, 886 and 1198.  Open data, the    *)
(* summary and the neighborhood may be written under; a report may not.    *)
THEOREM SharesWhole == ReportsSpec => []SharesMakeAWhole
BY FiguresAlways, SharesOfFigures, PTL
=============================================================================
