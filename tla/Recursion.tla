------------------------------ MODULE Recursion ------------------------------
(***************************************************************************)
(* A definition f[x \in D] == Def(p, f, x) chooses some f that satisfies   *)
(* its own equation; only when such an f exists does the definition say    *)
(* what f computes.  It exists when every argument has a rank in Nat and   *)
(* Def looks f up at arguments of smaller rank only.  The module is        *)
(* instantiated once for each recursive function of Merkle, with Def the   *)
(* body of that function and p what the body takes from its context.       *)
(***************************************************************************)
EXTENDS Naturals, WellFoundedInduction, TLAPS

CONSTANT Def(_, _, _)

(* Def(p, f, x) is settled by the values of f below x.                     *)
LooksBelow(D, rank, p) ==
    \A g, h : \A x \in D :
        (\A y \in D : rank[y] < rank[x] => g[y] = h[y])
            => Def(p, g, x) = Def(p, h, x)

(* g satisfies the equation at every argument of rank below n.             *)
SolvesBelow(D, rank, p, n, g) ==
    \A x \in D : rank[x] < n => g[x] = Def(p, g, x)

-----------------------------------------------------------------------------
(* A set of natural numbers that is not empty has a least element.         *)
LEMMA LeastElement ==
    ASSUME NEW T, T \subseteq Nat, T # {}
    PROVE  \E x \in T : \A y \in T : x <= y
<1>1. IsWellFoundedOn(OpToRel(<, Nat), Nat)
  BY NatLessThanWellFounded
<1>2. PICK x \in T : \A y \in T : ~ (<<y, x>> \in OpToRel(<, Nat))
  BY <1>1, WFMin
<1>3. \A y \in T : ~ (y < x)
  BY <1>2 DEF OpToRel
<1> QED
  BY <1>3

(* Induction on the natural numbers, for a set T in place of a predicate:  *)
(* what the proofs about trees use, with T the sizes a claim holds of.     *)
LEMMA StrongInduction ==
    ASSUME NEW T,
           \A n \in Nat : (\A m \in Nat : m < n => m \in T) => n \in T
    PROVE  \A n \in Nat : n \in T
<1> SUFFICES ASSUME Nat \ T # {}
             PROVE  FALSE
  OBVIOUS
<1>1. PICK x \in Nat \ T : \A y \in Nat \ T : x <= y
  BY LeastElement
<1>2. \A m \in Nat : m < x => m \in T
  BY <1>1
<1> QED
  BY <1>1, <1>2

(* There are solutions below every rank: one more unfolding of Def turns a *)
(* solution below n into one below n + 1.                                  *)
LEMMA SolutionBelowEveryRank ==
    ASSUME NEW D, NEW rank \in [D -> Nat], NEW p, LooksBelow(D, rank, p)
    PROVE  \A n \in Nat : \E g : SolvesBelow(D, rank, p, n, g)
<1> DEFINE T == {n \in Nat : \E g : SolvesBelow(D, rank, p, n, g)}
<1>1. ASSUME NEW n \in Nat, \A m \in Nat : m < n => m \in T
      PROVE  n \in T
  <2>1. CASE n = 0
    <3>1. SolvesBelow(D, rank, p, 0, 0)
      BY DEF SolvesBelow
    <3> QED
      BY <2>1, <3>1
  <2>2. CASE n # 0
    <3>1. n - 1 \in Nat /\ n - 1 < n
      BY <2>2
    <3>2. PICK g : SolvesBelow(D, rank, p, n - 1, g)
      BY <1>1, <3>1
    <3> DEFINE h == [x \in D |-> Def(p, g, x)]
    <3>3. ASSUME NEW x \in D, rank[x] < n
          PROVE  h[x] = Def(p, h, x)
      <4>1. ASSUME NEW y \in D, rank[y] < rank[x]
            PROVE  g[y] = h[y]
        <5>1. rank[y] < n - 1
          <6>1. rank[y] \in Nat /\ rank[x] \in Nat
            OBVIOUS
          <6> QED
            BY <6>1, <4>1, <3>3
        <5>2. g[y] = Def(p, g, y)
          BY <3>2, <5>1 DEF SolvesBelow
        <5> QED
          BY <5>2
      <4> HIDE DEF h
      <4>2. Def(p, g, x) = Def(p, h, x)
        BY <4>1 DEF LooksBelow
      <4>3. h[x] = Def(p, g, x)
        BY DEF h
      <4> QED
        BY <4>2, <4>3
    <3> HIDE DEF h
    <3>4. SolvesBelow(D, rank, p, n, h)
      BY <3>3 DEF SolvesBelow
    <3> QED
      BY <3>4
  <2> QED
    BY <2>1, <2>2
<1> HIDE DEF T
<1>2. \A n \in Nat : n \in T
  BY <1>1, StrongInduction
<1> QED
  BY <1>2 DEF T

(* Two solutions agree wherever both are solutions.                        *)
LEMMA SolutionsAgree ==
    ASSUME NEW D, NEW rank \in [D -> Nat], NEW p, LooksBelow(D, rank, p),
           NEW m \in Nat, NEW g, SolvesBelow(D, rank, p, m, g),
           NEW n \in Nat, NEW h, SolvesBelow(D, rank, p, n, h)
    PROVE  \A x \in D : rank[x] < m /\ rank[x] < n => g[x] = h[x]
<1> DEFINE T == {k \in Nat : \A x \in D :
                    rank[x] = k /\ k < m /\ k < n => g[x] = h[x]}
<1>1. ASSUME NEW k \in Nat, \A j \in Nat : j < k => j \in T
      PROVE  k \in T
  <2> SUFFICES ASSUME NEW x \in D, rank[x] = k, k < m, k < n
               PROVE  g[x] = h[x]
    OBVIOUS
  <2>1. ASSUME NEW y \in D, rank[y] < rank[x]
        PROVE  g[y] = h[y]
    <3>1. /\ rank[y] \in Nat
          /\ rank[y] < k
          /\ rank[y] < m
          /\ rank[y] < n
      BY <2>1
    <3> QED
      BY <3>1, <1>1
  <2>2. Def(p, g, x) = Def(p, h, x)
    BY <2>1 DEF LooksBelow
  <2> QED
    BY <2>2 DEF SolvesBelow
<1> HIDE DEF T
<1>2. \A k \in Nat : k \in T
  BY <1>1, StrongInduction
<1> QED
  BY <1>2 DEF T

(* A recursion that descends in rank has a solution on its whole domain.   *)
THEOREM RecursionHasSolution ==
    ASSUME NEW D, NEW rank, rank \in [D -> Nat], NEW p,
           \A g, h : \A x \in D :
               (\A y \in D : rank[y] < rank[x] => g[y] = h[y])
                   => Def(p, g, x) = Def(p, h, x)
    PROVE  \E f : f = [x \in D |-> Def(p, f, x)]
<1> DEFINE G == [n \in Nat |-> CHOOSE g : SolvesBelow(D, rank, p, n, g)]
           f == [x \in D |-> G[rank[x] + 1][x]]
<1>0. LooksBelow(D, rank, p)
  BY DEF LooksBelow
<1>1. \A n \in Nat : SolvesBelow(D, rank, p, n, G[n])
  BY <1>0, SolutionBelowEveryRank
<1> HIDE DEF G
<1>2. ASSUME NEW x \in D
      PROVE  f[x] = Def(p, f, x)
  <2> DEFINE k == rank[x] + 1
  <2>0. k \in Nat /\ rank[x] < k /\ rank[x] \in Nat
    OBVIOUS
  <2>1. f[x] = G[k][x]
    OBVIOUS
  <2>2. G[k][x] = Def(p, G[k], x)
    BY <1>1, <2>0 DEF SolvesBelow
  <2>3. ASSUME NEW y \in D, rank[y] < rank[x]
        PROVE  G[k][y] = f[y]
    <3> DEFINE j == rank[y] + 1
    <3>1. j \in Nat /\ rank[y] \in Nat /\ rank[y] < j /\ rank[y] < k
      BY <2>0, <2>3
    <3>2. f[y] = G[j][y]
      OBVIOUS
    <3> HIDE DEF j, k, f
    <3>3. G[k][y] = G[j][y]
      BY <1>0, <1>1, <2>0, <3>1, SolutionsAgree
    <3> QED
      BY <3>2, <3>3
  <2> HIDE DEF f, k
  <2>4. Def(p, G[k], x) = Def(p, f, x)
    BY <2>3
  <2> QED
    BY <2>1, <2>2, <2>4
<1>3. f = [x \in D |-> f[x]]
  OBVIOUS
<1> HIDE DEF f
<1>4. f = [x \in D |-> Def(p, f, x)]
  BY <1>2, <1>3
<1> QED
  BY <1>4
=============================================================================
