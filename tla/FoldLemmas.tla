----------------------------- MODULE FoldLemmas -----------------------------
(***************************************************************************)
(* What the folds of the community modules compute, for any finite set.    *)
(*                                                                         *)
(* FoldLeft and MapThenSumSet are defined by a recursive function over the *)
(* subsets of a set.  The lemmas here say that this function exists, and   *)
(* from there that a fold takes one element after the other.  They are     *)
(* about an operation, a map and a choice that are parameters of this      *)
(* module: a proof module gives them with INSTANCE and cites the lemmas    *)
(* for its own fold.                                                       *)
(***************************************************************************)
EXTENDS Naturals, FiniteSetTheorems, WellFoundedInduction, TLAPS

CONSTANTS
    Op(_, _),   \* the operation, given an element's value and the rest's
    F(_, _),    \* the value of an element, in a sequence or function
    Pick(_)     \* the element to take first

Body(b, p, g, s) == IF s = {} THEN b ELSE Op(F(p, Pick(s)), g[s \ {Pick(s)}])

\* The recursive function of MapThenFoldSet, and its value.
Iter(b, p, S) ==
    CHOOSE g : g = [s \in SUBSET S |->
                      IF s = {} THEN b ELSE Op(F(p, Pick(s)), g[s \ {Pick(s)}])]
Fold(b, p, S) == Iter(b, p, S)[S]

\* The choice takes elements of the set.
Picks(S) == \A s \in SUBSET S : s # {} => Pick(s) \in s

\* A set of numbers has a least one.  Inductions below look at the least counterexample.
LEMMA LeastNumber ==
    ASSUME NEW T \in SUBSET Nat, T # {}
    PROVE  \E m \in T : \A n \in T : m <= n
  <1> DEFINE R == {ss \in Nat \X Nat : ss[1] < ss[2]}
  <1>1. IsWellFoundedOn(R, Nat)
    BY NatLessThanWellFounded DEF OpToRel
  <1>2. PICK m \in T : \A n \in T : ~(<<n, m>> \in R)
    <2> HIDE DEF R
    <2> QED
      BY <1>1, WFMin
  <1>3. \A n \in T : ~(n < m)
    BY <1>2
  <1> QED
    BY <1>2, <1>3

\* Among some parts of a finite set there is one that is none of them any more when an
\* element is taken away.
LEMMA MinimalPart ==
    ASSUME NEW S, IsFiniteSet(S), NEW Parts \in SUBSET (SUBSET S), Parts # {}
    PROVE  \E s \in Parts : \A x \in s : s \ {x} \notin Parts
  <1> DEFINE Sizes == {Cardinality(s) : s \in Parts}
  <1>1. \A s \in Parts : IsFiniteSet(s) /\ Cardinality(s) \in Nat
    BY FS_Subset, FS_CardinalityType
  <1>2. Sizes \in SUBSET Nat /\ Sizes # {}
    BY <1>1
  <1>3. PICK m \in Sizes : \A n \in Sizes : m <= n
    BY <1>2, LeastNumber
  <1>4. PICK s \in Parts : Cardinality(s) = m
    BY <1>3
  <1>5. ASSUME NEW x \in s, s \ {x} \in Parts PROVE FALSE
    <2>1. Cardinality(s \ {x}) = Cardinality(s) - 1
      BY <1>1, FS_RemoveElement
    <2>2. Cardinality(s \ {x}) \in Sizes
      BY <1>5
    <2> HIDE DEF Sizes
    <2> QED
      BY <1>1, <1>3, <1>4, <2>1, <2>2
  <1> QED
    BY <1>5

\* Taking the picked element away leaves a smaller part.
LEMMA SmallerPart ==
    ASSUME NEW S, IsFiniteSet(S), Picks(S), NEW s \in SUBSET S, s # {}
    PROVE  /\ Pick(s) \in s /\ s \ {Pick(s)} \in SUBSET S /\ s \ {Pick(s)} \in SUBSET s
           /\ Cardinality(s) \in Nat /\ Cardinality(s \ {Pick(s)}) \in Nat
           /\ Cardinality(s) = Cardinality(s \ {Pick(s)}) + 1
  <1>1. Pick(s) \in s /\ IsFiniteSet(s)
    BY FS_Subset DEF Picks
  <1>2. /\ IsFiniteSet(s \ {Pick(s)})
        /\ Cardinality(s \ {Pick(s)}) = Cardinality(s) - 1
    BY <1>1, FS_RemoveElement
  <1>3. Cardinality(s) \in Nat /\ Cardinality(s \ {Pick(s)}) \in Nat
    BY <1>1, <1>2, FS_CardinalityType
  <1> QED
    BY <1>1, <1>2, <1>3

\* A function that does what Iter's is defined to do.
Solves(b, p, S, g) == g = [s \in SUBSET S |-> Body(b, p, g, s)]

\* The recursive function exists on the parts of up to k elements, for every k, and so
\* on all parts of a finite set.
LEMMA IterExists ==
    ASSUME NEW b, NEW p, NEW S, IsFiniteSet(S), Picks(S)
    PROVE  \E g : Solves(b, p, S, g)
  <1> DEFINE Upto(g, k) == \A s \in SUBSET S : Cardinality(s) <= k => g[s] = Body(b, p, g, s)
             Fails == {k \in Nat : ~\E g : Upto(g, k)}
  <1>1. \A s \in SUBSET S : Cardinality(s) \in Nat /\ Cardinality(s) <= Cardinality(S)
    BY FS_Subset, FS_CardinalityType
  <1>2. 0 \notin Fails
    <2>1. PICK g : g = [s \in SUBSET S |-> b]
      OBVIOUS
    <2>2. ASSUME NEW s \in SUBSET S, Cardinality(s) <= 0 PROVE s = {}
      <3>1. IsFiniteSet(s) /\ Cardinality(s) = 0
        BY <1>1, <2>2, FS_Subset
      <3> QED
        BY <3>1, FS_EmptySet
    <2>3. Upto(g, 0)
      BY <2>1, <2>2 DEF Body
    <2> QED
      BY <2>3
  <1>3. ASSUME NEW k \in Nat, k \notin Fails PROVE k + 1 \notin Fails
    <2>1. PICK g : Upto(g, k)
      BY <1>3
    <2>2. PICK h : h = [s \in SUBSET S |-> IF Cardinality(s) <= k THEN g[s] ELSE Body(b, p, g, s)]
      OBVIOUS
    <2>3. \A s \in SUBSET S : h[s] = Body(b, p, g, s)
      BY <2>1, <2>2
    <2>4. ASSUME NEW s \in SUBSET S, Cardinality(s) <= k + 1 PROVE h[s] = Body(b, p, h, s)
      <3>1. CASE s = {}
        BY <2>3, <3>1 DEF Body
      <3>2. CASE s # {}
        <4>1. s \ {Pick(s)} \in SUBSET S /\ Cardinality(s \ {Pick(s)}) <= k
          BY <2>4, <3>2, SmallerPart
        <4>2. h[s \ {Pick(s)}] = g[s \ {Pick(s)}]
          BY <2>2, <4>1
        <4> QED
          BY <2>3, <3>2, <4>2 DEF Body
      <3> QED
        BY <3>1, <3>2
    <2>5. Upto(h, k + 1)
      BY <2>4
    <2> QED
      BY <2>5
  <1>4. Fails = {}
    <2> HIDE DEF Fails
    <2> SUFFICES ASSUME Fails # {} PROVE FALSE
      OBVIOUS
    <2>0. Fails \in SUBSET Nat
      BY DEF Fails
    <2>1. PICK m \in Fails : \A n \in Fails : m <= n
      BY <2>0, LeastNumber
    <2>2. m \in Nat /\ m # 0
      BY <1>2, <2>0, <2>1
    <2>3. m - 1 \in Nat /\ m - 1 \notin Fails /\ (m - 1) + 1 = m
      BY <2>1, <2>2
    <2> QED
      BY <1>3, <2>1, <2>3
  <1>5. PICK g : Upto(g, Cardinality(S))
    <2>1. Cardinality(S) \in Nat
      BY FS_CardinalityType
    <2> QED
      BY <1>4, <2>1
  <1>6. \A s \in SUBSET S : g[s] = Body(b, p, g, s)
    BY <1>1, <1>5
  <1>7. PICK h : h = [s \in SUBSET S |-> g[s]]
    OBVIOUS
  <1>8. ASSUME NEW s \in SUBSET S PROVE Body(b, p, g, s) = Body(b, p, h, s)
    <2>1. s \ {Pick(s)} \in SUBSET S
      OBVIOUS
    <2> QED
      BY <1>7, <2>1 DEF Body
  <1>9. Solves(b, p, S, h)
    BY <1>6, <1>7, <1>8 DEF Solves
  <1> QED
    BY <1>9

\* MapThenFoldSet's recursive function does what its definition says.
LEMMA IterBody ==
    ASSUME NEW b, NEW p, NEW S, IsFiniteSet(S), Picks(S)
    PROVE  \A s \in SUBSET S : Iter(b, p, S)[s] = Body(b, p, Iter(b, p, S), s)
  <1>1. \E g : g = [s \in SUBSET S |->
                      IF s = {} THEN b ELSE Op(F(p, Pick(s)), g[s \ {Pick(s)}])]
    <2>1. PICK g : Solves(b, p, S, g)
      BY IterExists, Zenon
    <2>2. g = [s \in SUBSET S |->
                 IF s = {} THEN b ELSE Op(F(p, Pick(s)), g[s \ {Pick(s)}])]
      BY <2>1 DEF Solves, Body
    <2> QED
      BY <2>2
  <1>2. Iter(b, p, S) = [s \in SUBSET S |->
           IF s = {} THEN b ELSE Op(F(p, Pick(s)), Iter(b, p, S)[s \ {Pick(s)}])]
    BY <1>1 DEF Iter
  <1> QED
    BY <1>2 DEF Body

\* The fold of a part is the same in every set that has it, and depends on the values of
\* its elements only.
LEMMA IterAgrees ==
    ASSUME NEW b, NEW p, NEW q, NEW S, IsFiniteSet(S), Picks(S), NEW R \in SUBSET S,
           \A x \in R : F(p, x) = F(q, x)
    PROVE  \A s \in SUBSET R : Iter(b, p, R)[s] = Iter(b, q, S)[s]
  <1> DEFINE Differs == {s \in SUBSET R : Iter(b, p, R)[s] # Iter(b, q, S)[s]}
             Sizes == {Cardinality(s) : s \in Differs}
  <1>1. IsFiniteSet(R) /\ Picks(R)
    BY FS_Subset DEF Picks
  <1>2. \A s \in SUBSET R : Cardinality(s) \in Nat
    BY <1>1, FS_Subset, FS_CardinalityType
  <1> SUFFICES ASSUME Differs # {} PROVE FALSE
    OBVIOUS
  <1>3. Sizes \in SUBSET Nat /\ Sizes # {}
    BY <1>2
  <1>4. PICK m \in Sizes : \A n \in Sizes : m <= n
    BY <1>3, LeastNumber
  <1>5. PICK s \in Differs : Cardinality(s) = m
    BY <1>4
  <1>6. /\ Iter(b, p, R)[s] = Body(b, p, Iter(b, p, R), s)
        /\ Iter(b, q, S)[s] = Body(b, q, Iter(b, q, S), s)
    BY <1>1, IterBody
  <1>7. CASE s = {}
    BY <1>5, <1>6, <1>7 DEF Body
  <1>8. CASE s # {}
    <2>1. /\ Pick(s) \in s /\ s \ {Pick(s)} \in SUBSET R
          /\ Cardinality(s) \in Nat /\ Cardinality(s \ {Pick(s)}) \in Nat
          /\ Cardinality(s) = Cardinality(s \ {Pick(s)}) + 1
      BY <1>1, <1>8, SmallerPart
    <2>2. s \ {Pick(s)} \notin Differs
      <3> SUFFICES ASSUME s \ {Pick(s)} \in Differs PROVE FALSE
        OBVIOUS
      <3>1. Cardinality(s \ {Pick(s)}) \in Sizes
        OBVIOUS
      <3> HIDE DEF Sizes, Differs
      <3> QED
        BY <1>4, <1>5, <2>1, <3>1
    <2>3. Iter(b, p, R)[s \ {Pick(s)}] = Iter(b, q, S)[s \ {Pick(s)}]
      BY <2>1, <2>2
    <2>4. F(p, Pick(s)) = F(q, Pick(s))
      BY <2>1
    <2> QED
      BY <1>5, <1>6, <1>8, <2>3, <2>4 DEF Body
  <1> QED
    BY <1>7, <1>8

\* Folding nothing gives the starting value.
LEMMA FoldEmpty == \A b, p : Fold(b, p, {}) = b
  <1> TAKE b, p
  <1>1. IsFiniteSet({}) /\ Picks({})
    BY FS_EmptySet DEF Picks
  <1> QED
    BY <1>1, IterBody DEF Fold, Body

\* A fold takes the element the choice picks and then the rest.
LEMMA FoldStep ==
    ASSUME NEW b, NEW p, NEW S, IsFiniteSet(S), Picks(S), S # {}
    PROVE  Fold(b, p, S) = Op(F(p, Pick(S)), Fold(b, p, S \ {Pick(S)}))
  <1>1. Iter(b, p, S)[S] = Op(F(p, Pick(S)), Iter(b, p, S)[S \ {Pick(S)}])
    BY IterBody DEF Body
  <1>2. Iter(b, p, S \ {Pick(S)})[S \ {Pick(S)}] = Iter(b, p, S)[S \ {Pick(S)}]
    BY IterAgrees
  <1> QED
    BY <1>1, <1>2 DEF Fold

\* Equal values have equal folds.
LEMMA FoldAgrees ==
    ASSUME NEW b, NEW p, NEW q, NEW S, IsFiniteSet(S), Picks(S), \A x \in S : F(p, x) = F(q, x)
    PROVE  Fold(b, p, S) = Fold(b, q, S)
  BY IterAgrees DEF Fold

\* A sum of numbers is a number, whatever order it is taken in: any element can be
\* taken out of it.
LEMMA FoldSum ==
    ASSUME \A x, y \in Nat : Op(x, y) = x + y, NEW b \in Nat,
           NEW p, NEW S, IsFiniteSet(S), Picks(S), \A x \in S : F(p, x) \in Nat
    PROVE  /\ Fold(b, p, S) \in Nat
           /\ \A x \in S : /\ Fold(b, p, S \ {x}) \in Nat
                           /\ Fold(b, p, S) = F(p, x) + Fold(b, p, S \ {x})
  <1> DEFINE Good(s) == /\ Fold(b, p, s) \in Nat
                        /\ \A x \in s : /\ Fold(b, p, s \ {x}) \in Nat
                                        /\ Fold(b, p, s) = F(p, x) + Fold(b, p, s \ {x})
             Bad == {s \in SUBSET S : ~Good(s)}
             Sizes == {Cardinality(s) : s \in Bad}
  <1>1. \A s \in SUBSET S : IsFiniteSet(s) /\ Cardinality(s) \in Nat /\ Picks(s)
    BY FS_Subset, FS_CardinalityType DEF Picks
  <1> SUFFICES ASSUME Bad # {} PROVE FALSE
    OBVIOUS
  <1>3. Sizes \in SUBSET Nat /\ Sizes # {}
    BY <1>1
  <1>4. PICK m \in Sizes : \A n \in Sizes : m <= n
    BY <1>3, LeastNumber
  <1>5. PICK s \in Bad : Cardinality(s) = m
    BY <1>4
  <1>6. s # {}
    <2>1. Fold(b, p, {}) = b
      BY FoldEmpty
    <2> QED
      BY <1>5, <2>1
  <1> DEFINE y == Pick(s)
  <1>7. /\ y \in s /\ Cardinality(s) \in Nat /\ IsFiniteSet(s)
        /\ \A x \in s : Cardinality(s \ {x}) = Cardinality(s) - 1
    BY <1>1, <1>6, SmallerPart, FS_RemoveElement
  <1>8. \A x \in s : Good(s \ {x})
    <2>1. ASSUME NEW x \in s PROVE s \ {x} \notin Bad
      <3> SUFFICES ASSUME s \ {x} \in Bad PROVE FALSE
        OBVIOUS
      <3>1. Cardinality(s \ {x}) \in Sizes
        OBVIOUS
      <3> HIDE DEF Sizes, Bad, Good
      <3> QED
        BY <1>4, <1>5, <1>7, <3>1
    <2> QED
      BY <2>1
  <1>9. /\ Fold(b, p, s) = F(p, y) + Fold(b, p, s \ {y})
        /\ Fold(b, p, s \ {y}) \in Nat /\ F(p, y) \in Nat
    <2>1. Fold(b, p, s) = Op(F(p, y), Fold(b, p, s \ {y}))
      <3>1. IsFiniteSet(s) /\ Picks(s)
        BY <1>1
      <3> QED
        BY ONLY <1>6, <3>1, FoldStep
    <2> QED
      BY <1>7, <1>8, <2>1
  <1>10. ASSUME NEW x \in s, x # y
         PROVE  Fold(b, p, s \ {x}) \in Nat /\ Fold(b, p, s) = F(p, x) + Fold(b, p, s \ {x})
    <2> DEFINE r == (s \ {x}) \ {y}
    <2>1. (s \ {y}) \ {x} = r
      OBVIOUS
    <2>2. Fold(b, p, s \ {y}) = F(p, x) + Fold(b, p, r) /\ Fold(b, p, r) \in Nat
      <3>1. x \in s \ {y}
        BY <1>10
      <3>2. Good(s \ {y})
        BY <1>7, <1>8
      <3>3. /\ Fold(b, p, (s \ {y}) \ {x}) \in Nat
            /\ Fold(b, p, s \ {y}) = F(p, x) + Fold(b, p, (s \ {y}) \ {x})
        <4> HIDE DEF y
        <4> QED
          BY <3>1, <3>2
      <3> QED
        BY <2>1, <3>3
    <2>3. Fold(b, p, s \ {x}) = F(p, y) + Fold(b, p, r) /\ Fold(b, p, s \ {x}) \in Nat
      <3>1. y \in s \ {x}
        BY <1>7, <1>10
      <3>2. Good(s \ {x})
        BY <1>8
      <3> HIDE DEF y
      <3> QED
        BY <3>1, <3>2
    <2>4. F(p, x) \in Nat
      OBVIOUS
    <2>5. \A i, j, k \in Nat : j + (i + k) = i + (j + k)
      OBVIOUS
    <2> HIDE DEF r, y
    <2>6. Fold(b, p, s) = F(p, y) + (F(p, x) + Fold(b, p, r))
      BY <1>9, <2>2
    <2>7. Fold(b, p, s) = F(p, x) + (F(p, y) + Fold(b, p, r))
      BY <1>9, <2>2, <2>4, <2>5, <2>6
    <2> QED
      BY <2>3, <2>7
  <1>11. Good(s)
    <2> HIDE DEF y, Bad, Sizes
    <2>1. Fold(b, p, s) \in Nat
      <3>1. \A i, j \in Nat : i + j \in Nat
        OBVIOUS
      <3> QED
        BY <1>9, <3>1, Zenon
    <2>2. ASSUME NEW x \in s
          PROVE  Fold(b, p, s \ {x}) \in Nat /\ Fold(b, p, s) = F(p, x) + Fold(b, p, s \ {x})
      <3>1. CASE x = y
        BY <1>9, <3>1
      <3>2. CASE x # y
        BY <1>10, <3>2
      <3> QED
        BY <3>1, <3>2
    <2> QED
      BY <2>1, <2>2
  <1> QED
    BY <1>5, <1>11
=============================================================================
