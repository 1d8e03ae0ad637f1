---------------------------- MODULE CountingProofs ----------------------------
(***************************************************************************)
(* Induction and sums.  Induction is stated over a set of numbers, which   *)
(* the provers can instantiate.  The models count units, grams and bytes   *)
(* one by one, as the cardinality of a set of pieces; when one number      *)
(* changes, so does the sum, by exactly that much.                         *)
(***************************************************************************)
EXTENDS Integers, FiniteSets, FiniteSetTheorems, WellFoundedInduction, TLAPS

LEMMA LeastNumber ==
    ASSUME NEW S \in SUBSET Nat, S # {}
    PROVE  \E p \in S : \A x \in S : p <= x
<1> DEFINE R == OpToRel(<, Nat)
<1>1. IsWellFoundedOn(R, Nat)
  BY NatLessThanWellFounded
<1>2. \A x, y \in Nat : ~(<<x, y>> \in R) => y <= x
  BY DEF OpToRel
<1> HIDE DEF R
<1>3. PICK p \in S : \A x \in S : ~(<<x, p>> \in R)
  BY <1>1, WFMin
<1> QED
  BY <1>2, <1>3

\* What holds of 0, and with n of n + 1, holds of every number.
LEMMA SetInduction ==
    ASSUME NEW S, 0 \in S, \A n \in Nat : n \in S => n + 1 \in S
    PROVE  Nat \subseteq S
<1> SUFFICES ASSUME Nat \ S # {} PROVE FALSE
  OBVIOUS
<1> DEFINE T == Nat \ S
<1>1. T \in SUBSET Nat /\ T # {}
  OBVIOUS
<1> HIDE DEF T
<1>2. PICK p \in T : \A x \in T : p <= x
  BY <1>1, LeastNumber
<1>3. p \in Nat \ S /\ p # 0 /\ p - 1 \in Nat /\ ~(p <= p - 1)
  BY <1>2 DEF T
<1>4. p - 1 \in S
  BY <1>2, <1>3 DEF T
<1>5. (p - 1) + 1 \in S
  BY <1>3, <1>4
<1> QED
  BY <1>3, <1>5

-----------------------------------------------------------------------------
\* The units that the numbers of a function stand for, one by one.
PieceSet(f) == UNION {{x} \X (1..f[x]) : x \in DOMAIN f}

LEMMA PiecesFinite ==
    ASSUME NEW D, IsFiniteSet(D), NEW f \in [D -> Nat]
    PROVE  IsFiniteSet(PieceSet(f))
<1> DEFINE piece == [x \in D |-> {x} \X (1..f[x])]
           pieces == {{x} \X (1..f[x]) : x \in D}
<1>1. piece \in Surjection(D, pieces)
  BY DEF Surjection
<1>2. IsFiniteSet(pieces)
  BY <1>1, FS_Surjection
<1>3. ASSUME NEW T \in pieces
      PROVE  IsFiniteSet(T)
  <2>1. PICK x \in D : T = {x} \X (1..f[x])
    OBVIOUS
  <2>2. f[x] \in Int /\ 1 \in Int
    OBVIOUS
  <2>3. IsFiniteSet({x}) /\ IsFiniteSet(1..f[x])
    BY <2>2, FS_Singleton, FS_Interval
  <2> QED
    BY <2>1, <2>3, FS_Product
<1> QED
  BY <1>2, <1>3, FS_UNION DEF PieceSet

\* One number more, or another number in its place.
LEMMA PiecesChange ==
    ASSUME NEW D, IsFiniteSet(D), NEW E, E \subseteq D, NEW r \in D, D \ E \subseteq {r},
           NEW f \in [E -> Nat], NEW g \in [D -> Nat],
           \A x \in E : x # r => g[x] = f[x]
    PROVE  /\ Cardinality(PieceSet(f)) \in Nat
           /\ Cardinality(PieceSet(g)) = Cardinality(PieceSet(f))
                  - (IF r \in E THEN f[r] ELSE 0) + g[r]
<1> DEFINE was == IF r \in E THEN f[r] ELSE 0
           Own(n) == {r} \X (1..n)
           Rest == UNION {{x} \X (1..f[x]) : x \in E \ {r}}
<1>1. IsFiniteSet(PieceSet(f)) /\ IsFiniteSet(PieceSet(g))
  BY PiecesFinite, FS_Subset
<1>2. PieceSet(f) = Rest \cup Own(was) /\ Rest \cap Own(was) = {}
  <2>1. CASE r \in E
    BY <2>1 DEF PieceSet
  <2>2. CASE r \notin E
    BY <2>2 DEF PieceSet
  <2> QED
    BY <2>1, <2>2
<1>3. PieceSet(g) = Rest \cup Own(g[r]) /\ Rest \cap Own(g[r]) = {}
  <2>1. D \ {r} = E \ {r}
    OBVIOUS
  <2>2. Rest = UNION {{x} \X (1..g[x]) : x \in D \ {r}}
    BY <2>1
  <2> QED
    BY <2>2 DEF PieceSet
<1>4. IsFiniteSet(Rest)
  BY <1>1, <1>2, FS_Subset
<1>5. ASSUME NEW n \in Nat
      PROVE  IsFiniteSet(Own(n)) /\ Cardinality(Own(n)) = n
  <2>1. IsFiniteSet({r}) /\ Cardinality({r}) = 1
    BY FS_Singleton
  <2>2. IsFiniteSet(1..n) /\ Cardinality(1..n) = n
    BY FS_Interval
  <2>3. /\ IsFiniteSet({r} \X (1..n))
        /\ Cardinality({r} \X (1..n)) = Cardinality({r}) * Cardinality(1..n)
    BY <2>1, <2>2, FS_Product
  <2> QED
    BY <2>1, <2>2, <2>3
<1>6. Cardinality(Rest) \in Nat /\ was \in Nat /\ g[r] \in Nat
  BY <1>4, FS_CardinalityType
<1> HIDE DEF Own, Rest
<1>7. Cardinality({}) = 0
  BY FS_EmptySet
<1>8. ASSUME NEW n \in Nat, Rest \cap Own(n) = {}
      PROVE  Cardinality(Rest \cup Own(n)) = Cardinality(Rest) + n
  <2>1. IsFiniteSet(Own(n)) /\ Cardinality(Own(n)) = n
    BY <1>5
  <2>2. Cardinality(Rest \cup Own(n))
           = Cardinality(Rest) + Cardinality(Own(n)) - Cardinality({})
    BY <1>4, <1>8, <2>1, FS_Union
  <2> QED
    BY <1>6, <1>7, <2>1, <2>2
<1>9. Cardinality(PieceSet(f)) = Cardinality(Rest) + was
  BY <1>2, <1>6, <1>8
<1>10. Cardinality(PieceSet(g)) = Cardinality(Rest) + g[r]
  BY <1>3, <1>6, <1>8
<1> QED
  BY <1>6, <1>9, <1>10

LEMMA OnePieceChanges ==
    ASSUME NEW D, IsFiniteSet(D), NEW r \in D, NEW f \in [D -> Nat], NEW g \in [D -> Nat],
           \A x \in D : x # r => g[x] = f[x]
    PROVE  Cardinality(PieceSet(g)) = Cardinality(PieceSet(f)) - f[r] + g[r]
BY PiecesChange

LEMMA OnePieceMore ==
    ASSUME NEW D, IsFiniteSet(D), NEW r, r \notin D,
           NEW f \in [D -> Nat], NEW g \in [D \cup {r} -> Nat], \A x \in D : g[x] = f[x]
    PROVE  Cardinality(PieceSet(g)) = Cardinality(PieceSet(f)) + g[r]
<1> DEFINE E == D \cup {r}
<1>1. IsFiniteSet(E) /\ D \subseteq E /\ r \in E /\ E \ D \subseteq {r}
  BY FS_AddElement
<1>2. g \in [E -> Nat] /\ \A x \in D : x # r => g[x] = f[x]
  OBVIOUS
<1> HIDE DEF E
<1>3. /\ Cardinality(PieceSet(f)) \in Nat
      /\ Cardinality(PieceSet(g)) = Cardinality(PieceSet(f))
            - (IF r \in D THEN f[r] ELSE 0) + g[r]
  BY <1>1, <1>2, PiecesChange
<1> QED
  BY <1>1, <1>2, <1>3
=============================================================================
