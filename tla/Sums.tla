-------------------------------- MODULE Sums --------------------------------
(***************************************************************************)
(* What SumFunctionOnSet of the community module Functions computes.  It   *)
(* takes the elements of a finite set in an order that CHOOSE gives; here  *)
(* is shown that the order does not matter, what sums come to, and how     *)
(* they count: elements by a value, pairs by their members.                *)
(***************************************************************************)
EXTENDS Integers, FiniteSets, Functions, FiniteSetTheorems, WellFoundedInduction, TLAPS

-----------------------------------------------------------------------------
(* Induction, for sets instead of predicates.                              *)

(* Induction over the natural numbers, for a set of them.                  *)
LEMMA SetInduction ==
    ASSUME NEW Q, 0 \in Q, \A n \in Nat : n \in Q => n + 1 \in Q
    PROVE  \A n \in Nat : n \in Q
<1> SUFFICES ASSUME NEW k \in Nat, k \notin Q
             PROVE  FALSE
  OBVIOUS
<1> DEFINE Out == {n \in Nat : n \notin Q}
<1>1. Out \subseteq Nat /\ Out # {}
  OBVIOUS
<1> DEFINE R == OpToRel(<, Nat)
<1>a. PICK n \in Out : \A m \in Out : <<m, n>> \notin R
  BY <1>1, WFMin, NatLessThanWellFounded
<1>2. \A m \in Out : ~(m < n) BY <1>a DEF OpToRel
<1>3. n # 0 /\ n - 1 \in Nat BY <1>2
<1>4. n - 1 \in Q BY <1>2, <1>3
<1> QED BY <1>2, <1>3, <1>4

(* Induction over the subsets of a finite set, by taking any element away. *)
LEMMA SubsetInduction ==
    ASSUME NEW S, IsFiniteSet(S), NEW Q,
           \A T \in SUBSET S :
              (\A x \in T : T \ {x} \in Q) => T \in Q
    PROVE  S \in Q /\ \A T \in SUBSET S : T \in Q
<1> DEFINE N == {n \in Nat : \A T \in SUBSET S : Cardinality(T) <= n => T \in Q}
<1>1. \A T \in SUBSET S : IsFiniteSet(T) /\ Cardinality(T) \in Nat
  BY FS_Subset, FS_CardinalityType
<1>2. ASSUME NEW n \in Nat, NEW T \in SUBSET S, Cardinality(T) <= n + 1, n \in N
      PROVE  T \in Q
  <2>1. ASSUME NEW x \in T PROVE T \ {x} \in Q
    <3>1. T \ {x} \in SUBSET S /\ Cardinality(T \ {x}) = Cardinality(T) - 1
      BY <1>1, FS_RemoveElement
    <3> QED BY <1>1, <1>2, <3>1
  <2> QED BY <2>1
<1>3. 0 \in N
  <2> SUFFICES ASSUME NEW T \in SUBSET S, Cardinality(T) <= 0
               PROVE  T \in Q
    OBVIOUS
  <2>1. T = {} BY <1>1, FS_EmptySet
  <2> QED BY <2>1
<1>4. \A n \in Nat : n \in N => n + 1 \in N BY <1>2
<1> HIDE DEF N
<1>5. \A n \in Nat : n \in N BY <1>3, <1>4, SetInduction
<1> QED BY <1>1, <1>5 DEF N

-----------------------------------------------------------------------------
(* The recursive function of MapThenFoldSet.                               *)

Pick(s) == CHOOSE x \in s : TRUE

\* g sums f over the sets of L, which has with a set what is left of it.
SumsOn(g, f, L) ==
    g = [s \in L |-> IF s = {} THEN 0 ELSE f[Pick(s)] + g[s \ {Pick(s)}]]

(* What the definitions of the community modules come to.                  *)
LEMMA SumChosen ==
    ASSUME NEW f, NEW S
    PROVE  SumFunctionOnSet(f, S) = (CHOOSE g : SumsOn(g, f, SUBSET S))[S]
BY Zenon DEF SumFunctionOnSet, FoldFunctionOnSet, MapThenFoldSet, SumsOn, Pick

(* A nonempty set has an element to take first.                            *)
LEMMA PickMember ==
    ASSUME NEW s, s # {}
    PROVE  Pick(s) \in s
BY DEF Pick

Small(S, n) == {s \in SUBSET S : Cardinality(s) <= n}

(* There is such a function.                                               *)
LEMMA SumsExist ==
    ASSUME NEW f, NEW S, IsFiniteSet(S)
    PROVE  \E g : SumsOn(g, f, SUBSET S)
<1> DEFINE N == {n \in Nat : \E g : SumsOn(g, f, Small(S, n))}
<1>1. \A T \in SUBSET S : IsFiniteSet(T) /\ Cardinality(T) \in Nat
  BY FS_Subset, FS_CardinalityType
<1>2. 0 \in N
  <2> DEFINE g == [s \in Small(S, 0) |-> 0]
  <2>1. \A s \in Small(S, 0) : s = {} BY <1>1, FS_EmptySet DEF Small
  <2>2. SumsOn(g, f, Small(S, 0)) BY <2>1 DEF SumsOn
  <2> QED BY <2>2
<1>3. ASSUME NEW n \in Nat, n \in N
      PROVE  n + 1 \in N
  <2>1. PICK g : SumsOn(g, f, Small(S, n)) BY <1>3
  <2> DEFINE h == [s \in Small(S, n + 1) |->
                     IF s = {} THEN 0 ELSE f[Pick(s)] + g[s \ {Pick(s)}]]
  <2>2. \A s \in Small(S, n) :
           g[s] = IF s = {} THEN 0 ELSE f[Pick(s)] + g[s \ {Pick(s)}]
    BY <2>1 DEF SumsOn
  <2>3. \A s \in Small(S, n + 1) :
           h[s] = IF s = {} THEN 0 ELSE f[Pick(s)] + g[s \ {Pick(s)}]
    OBVIOUS
  <2>4. h = [s \in Small(S, n + 1) |-> h[s]]
    OBVIOUS
  <2> HIDE DEF h
  <2>5. \A s \in Small(S, n) : s \in Small(S, n + 1) BY <1>1 DEF Small
  <2>6. \A s \in Small(S, n) : h[s] = g[s] BY <2>2, <2>3, <2>5
  <2>7. ASSUME NEW s \in Small(S, n + 1), s # {}
        PROVE  s \ {Pick(s)} \in Small(S, n)
    <3>1. s \in SUBSET S /\ Cardinality(s) <= n + 1 /\ IsFiniteSet(s) /\ Cardinality(s) \in Nat
      BY <1>1 DEF Small
    <3>2. Cardinality(s \ {Pick(s)}) = Cardinality(s) - 1
      BY <2>7, <3>1, PickMember, FS_RemoveElement
    <3> QED BY <3>1, <3>2 DEF Small
  <2>8. \A s \in Small(S, n + 1) :
           h[s] = IF s = {} THEN 0 ELSE f[Pick(s)] + h[s \ {Pick(s)}]
    BY <2>3, <2>6, <2>7
  <2>9. SumsOn(h, f, Small(S, n + 1)) BY <2>4, <2>8 DEF SumsOn
  <2> QED BY <2>9
<1> HIDE DEF N
<1>4. Cardinality(S) \in N BY <1>1, <1>2, <1>3, SetInduction
<1>5. Small(S, Cardinality(S)) = SUBSET S BY FS_Subset DEF Small
<1> QED BY <1>4, <1>5 DEF N

(* Over the subsets of a smaller set it is the same function.              *)
LEMMA SumsAgree ==
    ASSUME NEW f, NEW g, NEW h, NEW S, IsFiniteSet(S), NEW T \in SUBSET S,
           SumsOn(g, f, SUBSET S), SumsOn(h, f, SUBSET T)
    PROVE  \A s \in SUBSET T : g[s] = h[s]
<1> DEFINE Q == {s \in SUBSET T : g[s] = h[s]}
<1>1. IsFiniteSet(T) BY FS_Subset
<1>2. ASSUME NEW s \in SUBSET T, \A x \in s : s \ {x} \in Q
      PROVE  s \in Q
  <2>1. g[s] = IF s = {} THEN 0 ELSE f[Pick(s)] + g[s \ {Pick(s)}] BY DEF SumsOn
  <2>2. h[s] = IF s = {} THEN 0 ELSE f[Pick(s)] + h[s \ {Pick(s)}] BY DEF SumsOn
  <2> QED BY <1>2, <2>1, <2>2, PickMember
<1> HIDE DEF Q
<1>3. \A s \in SUBSET T : s \in Q BY <1>1, <1>2, SubsetInduction
<1> QED BY <1>3 DEF Q

-----------------------------------------------------------------------------
(* Sums over finite sets.                                                  *)

(* The sum over no elements is zero.                                       *)
LEMMA SumEmpty == \A f : SumFunctionOnSet(f, {}) = 0
<1> TAKE f
<1> DEFINE g == CHOOSE g : SumsOn(g, f, SUBSET {})
<1>1. SumsOn(g, f, SUBSET {}) BY SumsExist, FS_EmptySet
<1> HIDE DEF g
<1>2. g[{}] = 0 BY <1>1 DEF SumsOn
<1> QED BY <1>2, SumChosen DEF g

(* The sum is one element, some one, and the sum over the others.          *)
LEMMA SumPicked ==
    ASSUME NEW f, NEW S, IsFiniteSet(S), S # {}
    PROVE  SumFunctionOnSet(f, S) = f[Pick(S)] + SumFunctionOnSet(f, S \ {Pick(S)})
<1> DEFINE T == S \ {Pick(S)}
           g == CHOOSE g : SumsOn(g, f, SUBSET S)
           h == CHOOSE h : SumsOn(h, f, SUBSET T)
<1>1. IsFiniteSet(T) /\ T \in SUBSET S BY FS_RemoveElement
<1>2. SumsOn(g, f, SUBSET S) /\ SumsOn(h, f, SUBSET T) BY <1>1, SumsExist
<1>3. SumFunctionOnSet(f, S) = g[S] /\ SumFunctionOnSet(f, T) = h[T] BY SumChosen
<1> HIDE DEF T, g, h
<1>4. g[T] = h[T] BY <1>1, <1>2, SumsAgree
<1>5. g[S] = f[Pick(S)] + g[T] BY <1>2 DEF SumsOn, T
<1> QED BY <1>3, <1>4, <1>5 DEF T

(* It is an integer if the values are.                                     *)
LEMMA SumInteger ==
    ASSUME NEW f, NEW S, IsFiniteSet(S), \A x \in S : f[x] \in Int
    PROVE  SumFunctionOnSet(f, S) \in Int
<1> DEFINE Q == {T \in SUBSET S : SumFunctionOnSet(f, T) \in Int}
<1>1. ASSUME NEW T \in SUBSET S, \A x \in T : T \ {x} \in Q
      PROVE  T \in Q
  <2>1. CASE T = {} BY <2>1, SumEmpty
  <2>2. CASE T # {}
    <3>1. Pick(T) \in T /\ IsFiniteSet(T) BY <2>2, PickMember, FS_Subset
    <3>2. SumFunctionOnSet(f, T) = f[Pick(T)] + SumFunctionOnSet(f, T \ {Pick(T)})
      BY <2>2, <3>1, SumPicked
    <3>3. SumFunctionOnSet(f, T \ {Pick(T)}) \in Int /\ f[Pick(T)] \in Int
      BY <1>1, <3>1
    <3> QED BY <3>2, <3>3
  <2> QED BY <2>1, <2>2
<1> HIDE DEF Q
<1>2. S \in Q BY <1>1, SubsetInduction
<1> QED BY <1>2 DEF Q

(* The sum is any one element and the sum over the others.                 *)
LEMMA SumRemove ==
    ASSUME NEW f, NEW S, IsFiniteSet(S), \A x \in S : f[x] \in Int
    PROVE  \A x \in S : SumFunctionOnSet(f, S) = f[x] + SumFunctionOnSet(f, S \ {x})
<1> DEFINE Sum(T) == SumFunctionOnSet(f, T)
           Q == {T \in SUBSET S : \A x \in T : Sum(T) = f[x] + Sum(T \ {x})}
<1>a. \A T \in SUBSET S : IsFiniteSet(T) /\ Sum(T) \in Int BY FS_Subset, SumInteger
<1>b. \A T \in SUBSET S : T # {} =>
         Pick(T) \in T /\ Sum(T) = f[Pick(T)] + Sum(T \ {Pick(T)})
  BY <1>a, PickMember, SumPicked
<1> HIDE DEF Sum
<1>1. ASSUME NEW T \in SUBSET S, \A x \in T : T \ {x} \in Q
      PROVE  T \in Q
  <2> SUFFICES ASSUME NEW x \in T
               PROVE  Sum(T) = f[x] + Sum(T \ {x})
    OBVIOUS
  <2> DEFINE p == Pick(T)
  <2>1. p \in T /\ Sum(T) = f[p] + Sum(T \ {p}) BY <1>b
  <2> HIDE DEF p
  <2>2. CASE x = p BY <2>1, <2>2
  <2>3. CASE x # p
    <3>1. Sum(T \ {p}) = f[x] + Sum((T \ {p}) \ {x}) BY <1>1, <2>1, <2>3
    <3>2. Sum(T \ {x}) = f[p] + Sum((T \ {x}) \ {p}) BY <1>1, <2>1, <2>3
    <3> HIDE DEF Q
    <3>3. Sum((T \ {p}) \ {x}) = Sum((T \ {x}) \ {p})
      <4>1. (T \ {p}) \ {x} = (T \ {x}) \ {p} OBVIOUS
      <4> QED BY <4>1
    <3>4. Sum((T \ {x}) \ {p}) \in Int /\ f[x] \in Int /\ f[p] \in Int BY <1>a, <2>1
    <3> DEFINE rest == Sum((T \ {x}) \ {p})
               some == Sum(T \ {p})
               others == Sum(T \ {x})
    <3>5. some = f[x] + rest /\ others = f[p] + rest /\ Sum(T) = f[p] + some /\ rest \in Int
      BY <2>1, <3>1, <3>2, <3>3, <3>4
    <3> HIDE DEF rest, some, others
    <3>6. Sum(T) = f[x] + others BY <3>4, <3>5
    <3> QED BY <3>6 DEF others
  <2> QED BY <2>2, <2>3
<1> HIDE DEF Q
<1>2. S \in Q BY <1>1, SubsetInduction
<1> QED BY <1>2 DEF Q, Sum

(* It grows with the values on the set.                                    *)
LEMMA SumMonotonic ==
    ASSUME NEW f, NEW g, NEW S, IsFiniteSet(S),
           \A x \in S : f[x] \in Int /\ g[x] \in Int /\ f[x] <= g[x]
    PROVE  SumFunctionOnSet(f, S) <= SumFunctionOnSet(g, S)
<1> DEFINE F(T) == SumFunctionOnSet(f, T)
           G(T) == SumFunctionOnSet(g, T)
           Q == {T \in SUBSET S : F(T) <= G(T)}
<1>a. \A T \in SUBSET S : IsFiniteSet(T) /\ F(T) \in Int /\ G(T) \in Int
  BY FS_Subset, SumInteger
<1>b. \A T \in SUBSET S : T # {} =>
         /\ Pick(T) \in T
         /\ F(T) = f[Pick(T)] + F(T \ {Pick(T)})
         /\ G(T) = g[Pick(T)] + G(T \ {Pick(T)})
  BY <1>a, PickMember, SumPicked
<1>c. F({}) = 0 /\ G({}) = 0 BY SumEmpty
<1> HIDE DEF F, G
<1>1. ASSUME NEW T \in SUBSET S, \A x \in T : T \ {x} \in Q
      PROVE  T \in Q
  <2>1. CASE T = {} BY <1>c, <2>1
  <2>2. CASE T # {}
    <3> DEFINE p == Pick(T)
    <3>1. p \in T /\ F(T) = f[p] + F(T \ {p}) /\ G(T) = g[p] + G(T \ {p})
      BY <1>b, <2>2
    <3> HIDE DEF p
    <3>2. F(T \ {p}) <= G(T \ {p}) BY <1>1, <3>1
    <3>3. F(T \ {p}) \in Int /\ G(T \ {p}) \in Int /\ f[p] \in Int /\ g[p] \in Int /\ f[p] <= g[p]
      BY <1>a, <3>1
    <3> QED BY <3>1, <3>2, <3>3
  <2> QED BY <2>1, <2>2
<1> HIDE DEF Q
<1>2. S \in Q BY <1>1, SubsetInduction
<1> QED BY <1>2 DEF Q, F, G

(* It depends on the values on the set only.                               *)
LEMMA SumSame ==
    ASSUME NEW f, NEW g, NEW S, IsFiniteSet(S),
           \A x \in S : f[x] \in Int /\ f[x] = g[x]
    PROVE  SumFunctionOnSet(f, S) = SumFunctionOnSet(g, S)
<1>1. SumFunctionOnSet(f, S) \in Int /\ SumFunctionOnSet(g, S) \in Int BY SumInteger
<1>2. /\ SumFunctionOnSet(f, S) <= SumFunctionOnSet(g, S)
      /\ SumFunctionOnSet(g, S) <= SumFunctionOnSet(f, S)
  BY SumMonotonic
<1> QED BY <1>1, <1>2

(* The sum of zeros is zero.                                               *)
LEMMA SumZero ==
    ASSUME NEW f, NEW S, IsFiniteSet(S), \A x \in S : f[x] = 0
    PROVE  SumFunctionOnSet(f, S) = 0
<1> DEFINE Q == {T \in SUBSET S : SumFunctionOnSet(f, T) = 0}
<1>1. ASSUME NEW T \in SUBSET S, \A x \in T : T \ {x} \in Q
      PROVE  T \in Q
  <2>1. CASE T = {} BY <2>1, SumEmpty
  <2>2. CASE T # {}
    <3>1. Pick(T) \in T /\ IsFiniteSet(T) BY <2>2, PickMember, FS_Subset
    <3>2. SumFunctionOnSet(f, T) = f[Pick(T)] + SumFunctionOnSet(f, T \ {Pick(T)})
      BY <2>2, <3>1, SumPicked
    <3> QED BY <1>1, <3>1, <3>2
  <2> QED BY <2>1, <2>2
<1> HIDE DEF Q
<1>2. S \in Q BY <1>1, SubsetInduction
<1> QED BY <1>2 DEF Q

(* It is a natural number if the values are.                               *)
LEMMA SumNatural ==
    ASSUME NEW f, NEW S, IsFiniteSet(S), \A x \in S : f[x] \in Nat
    PROVE  SumFunctionOnSet(f, S) \in Nat
<1> DEFINE zero == [x \in S |-> 0]
<1>1. SumFunctionOnSet(zero, S) = 0 BY SumZero
<1>2. \A x \in S : zero[x] \in Int /\ f[x] \in Int /\ zero[x] <= f[x] OBVIOUS
<1> HIDE DEF zero
<1>3. SumFunctionOnSet(zero, S) <= SumFunctionOnSet(f, S) BY <1>2, SumMonotonic
<1>4. SumFunctionOnSet(f, S) \in Int BY SumInteger
<1> QED BY <1>1, <1>3, <1>4

(* An element more.                                                        *)
LEMMA SumAdd ==
    ASSUME NEW f, NEW S, IsFiniteSet(S), NEW x, x \notin S, \A y \in S \cup {x} : f[y] \in Int
    PROVE  SumFunctionOnSet(f, S \cup {x}) = f[x] + SumFunctionOnSet(f, S)
<1>1. IsFiniteSet(S \cup {x}) /\ (S \cup {x}) \ {x} = S BY FS_AddElement
<1> QED BY <1>1, SumRemove

(* The sum over a part is no more, if no value is negative.                *)
LEMMA SumPart ==
    ASSUME NEW f, NEW S, IsFiniteSet(S), NEW R \in SUBSET S, \A x \in S : f[x] \in Nat
    PROVE  SumFunctionOnSet(f, R) <= SumFunctionOnSet(f, S)
<1> DEFINE Sum(T) == SumFunctionOnSet(f, T)
           Q == {T \in SUBSET S : Sum(R \cap T) <= Sum(T)}
<1>a. \A T \in SUBSET S : IsFiniteSet(T) /\ Sum(T) \in Nat BY FS_Subset, SumNatural
<1>b. ASSUME NEW T \in SUBSET S, NEW x \in T
      PROVE  Sum(T) = f[x] + Sum(T \ {x})
  <2>1. IsFiniteSet(T) /\ \A y \in T : f[y] \in Int BY <1>a
  <2> QED BY <2>1, SumRemove
<1> HIDE DEF Sum
<1>1. ASSUME NEW T \in SUBSET S, \A x \in T : T \ {x} \in Q
      PROVE  T \in Q
  <2>1. CASE T = {} BY <1>a, <2>1
  <2>2. CASE T # {}
    <3>1. PICK x \in T : TRUE BY <2>2
    <3>2. Sum(R \cap (T \ {x})) <= Sum(T \ {x}) BY <1>1
    <3>3. Sum(T) = f[x] + Sum(T \ {x}) /\ f[x] \in Nat BY <1>b
    <3>4. Sum(T \ {x}) \in Nat /\ Sum(R \cap (T \ {x})) \in Nat BY <1>a
    <3>5. CASE x \in R
      <4>1. (R \cap T) \ {x} = R \cap (T \ {x}) /\ x \in R \cap T /\ R \cap T \in SUBSET S
        BY <3>5
      <4>2. Sum(R \cap T) = f[x] + Sum(R \cap (T \ {x})) BY <1>b, <4>1
      <4>3. Sum(R \cap T) <= Sum(T) BY <3>2, <3>3, <3>4, <4>2
      <4> QED BY <4>3
    <3>6. CASE x \notin R
      <4>1. R \cap T = R \cap (T \ {x}) BY <3>6
      <4>a. Sum(R \cap T) = Sum(R \cap (T \ {x})) BY <4>1
      <4>2. Sum(R \cap T) <= Sum(T) BY <3>2, <3>3, <3>4, <4>a
      <4> QED BY <4>2
    <3> QED BY <3>5, <3>6
  <2> QED BY <2>1, <2>2
<1> HIDE DEF Q
<1>2. S \in Q BY <1>1, SubsetInduction
<1>3. R \cap S = R OBVIOUS
<1> QED BY <1>2, <1>3 DEF Q, Sum

(* One value changes.                                                      *)
LEMMA SumChange ==
    ASSUME NEW f, NEW g, NEW S, IsFiniteSet(S), NEW x \in S,
           \A y \in S : f[y] \in Int /\ g[y] \in Int,
           \A y \in S : y # x => f[y] = g[y]
    PROVE  SumFunctionOnSet(g, S) = SumFunctionOnSet(f, S) + (g[x] - f[x])
<1> DEFINE T == S \ {x}
           F == SumFunctionOnSet(f, T)
           G == SumFunctionOnSet(g, T)
<1>1. IsFiniteSet(T) /\ \A y \in T : f[y] \in Int /\ f[y] = g[y] BY FS_RemoveElement
<1>2. F = G BY <1>1, SumSame
<1>3. F \in Int BY <1>1, SumInteger
<1>4. SumFunctionOnSet(f, S) = f[x] + F BY SumRemove
<1>5. SumFunctionOnSet(g, S) = g[x] + G BY SumRemove
<1> HIDE DEF F, G
<1>6. f[x] \in Int /\ g[x] \in Int OBVIOUS
<1>7. g[x] + F = (f[x] + F) + (g[x] - f[x]) BY <1>3, <1>6
<1> QED BY <1>2, <1>4, <1>5, <1>7

(* The sum of sums.                                                        *)
LEMMA SumPlus ==
    ASSUME NEW f, NEW g, NEW h, NEW S, IsFiniteSet(S),
           \A x \in S : f[x] \in Int /\ g[x] \in Int /\ h[x] = f[x] + g[x]
    PROVE  SumFunctionOnSet(h, S) = SumFunctionOnSet(f, S) + SumFunctionOnSet(g, S)
<1> DEFINE F(T) == SumFunctionOnSet(f, T)
           G(T) == SumFunctionOnSet(g, T)
           H(T) == SumFunctionOnSet(h, T)
           Q == {T \in SUBSET S : H(T) = F(T) + G(T)}
<1>0. \A x \in S : h[x] \in Int OBVIOUS
<1>a. \A T \in SUBSET S : IsFiniteSet(T) /\ F(T) \in Int /\ G(T) \in Int /\ H(T) \in Int
  BY <1>0, FS_Subset, SumInteger
<1>b. \A T \in SUBSET S : T # {} =>
         /\ Pick(T) \in T
         /\ F(T) = f[Pick(T)] + F(T \ {Pick(T)})
         /\ G(T) = g[Pick(T)] + G(T \ {Pick(T)})
         /\ H(T) = h[Pick(T)] + H(T \ {Pick(T)})
  BY <1>a, PickMember, SumPicked
<1>c. F({}) = 0 /\ G({}) = 0 /\ H({}) = 0 BY SumEmpty
<1> HIDE DEF F, G, H
<1>1. ASSUME NEW T \in SUBSET S, \A x \in T : T \ {x} \in Q
      PROVE  T \in Q
  <2>1. CASE T = {} BY <1>c, <2>1
  <2>2. CASE T # {}
    <3> DEFINE p == Pick(T)
    <3>1. /\ p \in T /\ F(T) = f[p] + F(T \ {p}) /\ G(T) = g[p] + G(T \ {p})
          /\ H(T) = h[p] + H(T \ {p})
      BY <1>b, <2>2
    <3> HIDE DEF p
    <3>2. H(T \ {p}) = F(T \ {p}) + G(T \ {p}) BY <1>1, <3>1
    <3>3. /\ F(T \ {p}) \in Int /\ G(T \ {p}) \in Int /\ f[p] \in Int /\ g[p] \in Int
          /\ h[p] = f[p] + g[p]
      BY <1>a, <3>1
    <3> QED BY <3>1, <3>2, <3>3
  <2> QED BY <2>1, <2>2
<1> HIDE DEF Q
<1>2. S \in Q BY <1>1, SubsetInduction
<1> QED BY <1>2 DEF Q, F, G, H

(* Counting the elements of S by the value st gives them: the counts for   *)
(* the values of A sum to the number of elements with a value in A, so     *)
(* counts that sum to the size of S leave no element another value.        *)
LEMMA SumOfCounts ==
    ASSUME NEW S, IsFiniteSet(S), NEW st, NEW A, IsFiniteSet(A), NEW n,
           \A a \in A : n[a] = Cardinality({x \in S : st[x] = a})
    PROVE  /\ SumFunctionOnSet(n, A) = Cardinality({x \in S : st[x] \in A})
           /\ SumFunctionOnSet(n, A) = Cardinality(S) => \A x \in S : st[x] \in A
<1> DEFINE With(T) == {x \in S : st[x] \in T}
           Q == {T \in SUBSET A : SumFunctionOnSet(n, T) = Cardinality(With(T))}
<1>1. ASSUME NEW T \in SUBSET A, \A a \in T : T \ {a} \in Q
      PROVE  T \in Q
  <2>1. CASE T = {}
    <3>1. With(T) = {} BY <2>1
    <3> HIDE DEF With
    <3> QED BY <2>1, <3>1, SumEmpty, FS_EmptySet
  <2>2. CASE T # {}
    <3> DEFINE p == Pick(T)
               U == With(T \ {p})
               V == {x \in S : st[x] = p}
    <3>1. p \in T /\ IsFiniteSet(T) BY <2>2, PickMember, FS_Subset
    <3>2. SumFunctionOnSet(n, T) = n[p] + SumFunctionOnSet(n, T \ {p})
      BY <2>2, <3>1, SumPicked
    <3>3. SumFunctionOnSet(n, T \ {p}) = Cardinality(U) BY <1>1, <3>1
    <3>4. n[p] = Cardinality(V) BY <3>1
    <3>5. With(T) = U \cup V /\ U \cap V = {} BY <3>1
    <3>6. IsFiniteSet(U) /\ IsFiniteSet(V) BY FS_Subset
    <3> HIDE DEF p, U, V, With
    <3>7. Cardinality(U \cup V) = Cardinality(U) + Cardinality(V) - Cardinality(U \cap V)
      BY <3>6, FS_Union
    <3>8. Cardinality(U) \in Nat /\ Cardinality(V) \in Nat /\ Cardinality(U \cap V) = 0
      BY <3>5, <3>6, FS_CardinalityType, FS_EmptySet
    <3>9. SumFunctionOnSet(n, T) = Cardinality(With(T)) BY <3>2, <3>3, <3>4, <3>5, <3>7, <3>8
    <3> QED BY <3>9
  <2> QED BY <2>1, <2>2
<1> HIDE DEF Q
<1>2. A \in Q BY <1>1, SubsetInduction
<1>3. SumFunctionOnSet(n, A) = Cardinality(With(A)) BY <1>2 DEF Q
<1>4. With(A) \in SUBSET S /\ \A x \in With(A) : st[x] \in A OBVIOUS
<1>5. With(A) = {x \in S : st[x] \in A} OBVIOUS
<1> HIDE DEF With
<1>6. Cardinality(With(A)) = Cardinality(S) => With(A) = S BY <1>4, FS_Subset
<1> QED BY <1>3, <1>4, <1>5, <1>6

-----------------------------------------------------------------------------
(* Sums along a sequence, and of a function.                               *)

(* One more position.                                                      *)
LEMMA SumAppended ==
    ASSUME NEW n \in Nat, NEW f, NEW g,
           \A i \in 1..n : f[i] \in Int /\ g[i] = f[i], g[n + 1] \in Int
    PROVE  SumFunctionOnSet(g, 1..(n + 1)) = SumFunctionOnSet(f, 1..n) + g[n + 1]
<1>1. IsFiniteSet(1..n) BY FS_Interval
<1>2. 1..(n + 1) = (1..n) \cup {n + 1} /\ n + 1 \notin 1..n OBVIOUS
<1>3. \A i \in (1..n) \cup {n + 1} : g[i] \in Int OBVIOUS
<1>4. SumFunctionOnSet(g, (1..n) \cup {n + 1}) = g[n + 1] + SumFunctionOnSet(g, 1..n)
  BY <1>1, <1>2, <1>3, SumAdd
<1>5. SumFunctionOnSet(f, 1..n) = SumFunctionOnSet(g, 1..n) BY <1>1, SumSame
<1>6. SumFunctionOnSet(f, 1..n) \in Int BY <1>1, SumInteger
<1> DEFINE F == SumFunctionOnSet(f, 1..n)
           G == SumFunctionOnSet(g, 1..(n + 1))
<1>7. G = g[n + 1] + F /\ F \in Int /\ g[n + 1] \in Int BY <1>2, <1>4, <1>5, <1>6
<1> HIDE DEF F, G
<1>8. G = F + g[n + 1] BY <1>7
<1> QED BY <1>8 DEF F, G

(* The sum of a function is the sum over its domain.                       *)
LEMMA SumOfFunction == \A f : SumFunction(f) = SumFunctionOnSet(f, DOMAIN f)
BY DEF SumFunction

(* Zeros may be left out of a sum.                                         *)
LEMMA SumWithoutZeros ==
    ASSUME NEW f, NEW S, IsFiniteSet(S), NEW R \in SUBSET S,
           \A x \in S : f[x] \in Int, \A x \in S \ R : f[x] = 0
    PROVE  SumFunctionOnSet(f, S) = SumFunctionOnSet(f, R)
<1> DEFINE Q == {T \in SUBSET S : SumFunctionOnSet(f, T) = SumFunctionOnSet(f, T \cap R)}
<1>1. ASSUME NEW T \in SUBSET S, \A x \in T : T \ {x} \in Q
      PROVE  T \in Q
  <2>1. CASE T \subseteq R
    <3>1. T \cap R = T BY <2>1
    <3> QED BY <3>1
  <2>2. CASE ~(T \subseteq R)
    <3>1. PICK x \in T : x \notin R BY <2>2
    <3>2. IsFiniteSet(T) /\ \A y \in T : f[y] \in Int BY FS_Subset
    <3>3. SumFunctionOnSet(f, T) = f[x] + SumFunctionOnSet(f, T \ {x})
      BY <3>2, SumRemove
    <3>4. f[x] = 0 BY <3>1
    <3>5. IsFiniteSet(T \ {x}) BY <3>2, FS_RemoveElement
    <3>6. SumFunctionOnSet(f, T \ {x}) \in Int BY <3>2, <3>5, SumInteger
    <3>7. (T \ {x}) \cap R = T \cap R BY <3>1
    <3>8. SumFunctionOnSet(f, T \ {x}) = SumFunctionOnSet(f, T \cap R) BY <1>1, <3>7
    <3>9. SumFunctionOnSet(f, T) = SumFunctionOnSet(f, T \cap R)
      BY <3>3, <3>4, <3>6, <3>8
    <3> QED BY <3>9
  <2> QED BY <2>1, <2>2
<1> HIDE DEF Q
<1>2. S \in Q BY <1>1, SubsetInduction
<1>3. S \cap R = R OBVIOUS
<1> QED BY <1>2, <1>3 DEF Q

(* The sum over a part is a sum over the whole.                            *)
LEMMA SumWithin ==
    ASSUME NEW f, NEW g, NEW S, IsFiniteSet(S), NEW R \in SUBSET S,
           \A x \in R : f[x] \in Int,
           \A x \in S : g[x] = IF x \in R THEN f[x] ELSE 0
    PROVE  SumFunctionOnSet(g, S) = SumFunctionOnSet(f, R)
<1>1. \A x \in S : g[x] \in Int OBVIOUS
<1>2. \A x \in S \ R : g[x] = 0 OBVIOUS
<1>3. SumFunctionOnSet(g, S) = SumFunctionOnSet(g, R) BY <1>1, <1>2, SumWithoutZeros
<1>4. \A x \in R : g[x] \in Int /\ g[x] = f[x] OBVIOUS
<1>5. IsFiniteSet(R) BY FS_Subset
<1>6. SumFunctionOnSet(g, R) = SumFunctionOnSet(f, R) BY <1>4, <1>5, SumSame
<1> QED BY <1>3, <1>6

(* The sum of one value.                                                   *)
LEMMA SumConstant ==
    ASSUME NEW f, NEW S, IsFiniteSet(S), NEW k \in Int, \A x \in S : f[x] = k
    PROVE  SumFunctionOnSet(f, S) = k * Cardinality(S)
<1> DEFINE Q == {T \in SUBSET S : SumFunctionOnSet(f, T) = k * Cardinality(T)}
<1>1. ASSUME NEW T \in SUBSET S, \A x \in T : T \ {x} \in Q
      PROVE  T \in Q
  <2>1. CASE T = {}
    <3>1. SumFunctionOnSet(f, T) = 0 /\ Cardinality(T) = 0
      BY <2>1, SumEmpty, FS_EmptySet
    <3> QED BY <3>1
  <2>2. CASE T # {}
    <3>1. PICK x \in T : TRUE BY <2>2
    <3>2. IsFiniteSet(T) /\ \A y \in T : f[y] \in Int BY FS_Subset
    <3>3. SumFunctionOnSet(f, T) = f[x] + SumFunctionOnSet(f, T \ {x})
      BY <3>1, <3>2, SumRemove
    <3>4. SumFunctionOnSet(f, T \ {x}) = k * Cardinality(T \ {x}) BY <1>1, <3>1
    <3>5. Cardinality(T \ {x}) = Cardinality(T) - 1 /\ Cardinality(T) \in Nat
      BY <3>1, <3>2, FS_RemoveElement, FS_CardinalityType
    <3> DEFINE c == Cardinality(T)
    <3>6. k + k * (c - 1) = k * c
      <4>1. c \in Int BY <3>5
      <4> HIDE DEF c
      <4> QED BY <4>1
    <3>7. f[x] = k BY <3>1
    <3> QED BY <3>3, <3>4, <3>5, <3>6, <3>7
  <2> QED BY <2>1, <2>2
<1> HIDE DEF Q
<1>2. S \in Q BY <1>1, SubsetInduction
<1> QED BY <1>2 DEF Q

(* The sum of multiples.                                                   *)
LEMMA SumMultiple ==
    ASSUME NEW f, NEW g, NEW S, IsFiniteSet(S), NEW k \in Int,
           \A x \in S : f[x] \in Int /\ g[x] = k * f[x]
    PROVE  SumFunctionOnSet(g, S) = k * SumFunctionOnSet(f, S)
<1> DEFINE F(T) == SumFunctionOnSet(f, T)
           G(T) == SumFunctionOnSet(g, T)
           Q == {T \in SUBSET S : G(T) = k * F(T)}
<1>0. \A x \in S : g[x] \in Int OBVIOUS
<1>1. ASSUME NEW T \in SUBSET S, \A x \in T : T \ {x} \in Q
      PROVE  T \in Q
  <2>1. CASE T = {}
    <3>1. F(T) = 0 /\ G(T) = 0 BY <2>1, SumEmpty
    <3> QED BY <3>1
  <2>2. CASE T # {}
    <3>1. PICK x \in T : TRUE BY <2>2
    <3>2. IsFiniteSet(T) /\ IsFiniteSet(T \ {x}) BY FS_Subset
    <3>3. F(T) = f[x] + F(T \ {x}) /\ G(T) = g[x] + G(T \ {x})
      BY <1>0, <3>1, <3>2, SumRemove
    <3>4. F(T \ {x}) \in Int BY <3>2, SumInteger
    <3>5. G(T \ {x}) = k * F(T \ {x}) BY <1>1, <3>1
    <3>6. g[x] = k * f[x] /\ f[x] \in Int BY <3>1
    <3> HIDE DEF F, G
    <3>7. k * f[x] + k * F(T \ {x}) = k * (f[x] + F(T \ {x})) BY <3>4, <3>6
    <3> QED BY <3>3, <3>5, <3>6, <3>7
  <2> QED BY <2>1, <2>2
<1> HIDE DEF Q
<1>2. S \in Q BY <1>1, SubsetInduction
<1> QED BY <1>2 DEF Q, F, G

-----------------------------------------------------------------------------
(* Counting pairs.                                                         *)

(* The elements that x is paired with.                                     *)
Partners(R, S, x) == {y \in S : <<x, y>> \in R}

(* A relation in which everything has k partners.                          *)
LEMMA PairsByPartners ==
    ASSUME NEW S, IsFiniteSet(S), NEW R \in SUBSET (S \X S), NEW k \in Int,
           \A x \in S : Cardinality(Partners(R, S, x)) = k
    PROVE  IsFiniteSet(R) /\ Cardinality(R) = k * Cardinality(S)
<1> DEFINE first == [p \in R |-> p[1]]
           n == [x \in S |-> k]
           From(x) == {p \in R : first[p] = x}
<1>1. IsFiniteSet(R) BY FS_Product, FS_Subset
<1>2. ASSUME NEW x \in S PROVE n[x] = Cardinality(From(x))
  <2>1. From(x) = {x} \X Partners(R, S, x) BY DEF Partners
  <2>2. IsFiniteSet({x}) /\ Cardinality({x}) = 1 BY FS_Singleton
  <2>3. IsFiniteSet(Partners(R, S, x)) BY FS_Subset DEF Partners
  <2> HIDE DEF From
  <2>4. Cardinality(From(x)) = 1 * Cardinality(Partners(R, S, x))
    BY <2>1, <2>2, <2>3, FS_Product
  <2> QED BY <2>4
<1>3. {p \in R : first[p] \in S} = R OBVIOUS
<1>4. \A x \in S : n[x] = k OBVIOUS
<1>x. \A x \in S : n[x] = Cardinality({p \in R : first[p] = x}) BY <1>2
<1> HIDE DEF first, n
<1>5. /\ SumFunctionOnSet(n, S) = Cardinality({p \in R : first[p] \in S})
      /\ SumFunctionOnSet(n, S) = Cardinality(R) => \A p \in R : first[p] \in S
  BY <1>1, <1>x, SumOfCounts, Zenon
<1>6. SumFunctionOnSet(n, S) = k * Cardinality(S) BY <1>4, SumConstant
<1> QED BY <1>1, <1>3, <1>5, <1>6

(* A relation that is symmetric and without pairs of equals has two ordered *)
(* pairs for each unordered one.                                           *)
LEMMA OrderedPairs ==
    ASSUME NEW S, IsFiniteSet(S), NEW R \in SUBSET (S \X S),
           \A p \in R : p[1] # p[2] /\ <<p[2], p[1]>> \in R
    PROVE  LET unordered == {{p[1], p[2]} : p \in R}
           IN  /\ IsFiniteSet(R) /\ IsFiniteSet(unordered)
               /\ Cardinality(R) = 2 * Cardinality(unordered)
<1> DEFINE U == {{p[1], p[2]} : p \in R}
           set == [p \in R |-> {p[1], p[2]}]
           n == [u \in U |-> 2]
           Of(u) == {p \in R : set[p] = u}
<1>1. IsFiniteSet(R) BY FS_Product, FS_Subset
<1>2. IsFiniteSet(U)
  <2>1. U \subseteq SUBSET S OBVIOUS
  <2> HIDE DEF U
  <2> QED BY <2>1, FS_SUBSET, FS_Subset
<1>5. \A u \in U : n[u] = 2
  <2> HIDE DEF U
  <2> QED OBVIOUS
<1>3. ASSUME NEW u \in U PROVE n[u] = Cardinality(Of(u))
  <2>1. PICK p \in R : u = {p[1], p[2]} OBVIOUS
  <2> DEFINE a == p[1]
             b == p[2]
  <2>2. a # b /\ p = <<a, b>> /\ <<b, a>> \in R OBVIOUS
  <2>3. ASSUME NEW q \in R, {q[1], q[2]} = {a, b} PROVE q \in {<<a, b>>, <<b, a>>}
    <3>1. q[1] # q[2] /\ q = <<q[1], q[2]>> OBVIOUS
    <3> HIDE DEF a, b
    <3>2. \/ q[1] = a /\ q[2] = b
          \/ q[1] = b /\ q[2] = a
      BY <2>3, <3>1
    <3> QED BY <3>1, <3>2
  <2>4. Of(u) = {<<a, b>>, <<b, a>>}
    <3>1. \A q \in R : set[q] = u <=> {q[1], q[2]} = {a, b} BY <2>1
    <3>2. \A q \in {<<a, b>>, <<b, a>>} : q \in R /\ {q[1], q[2]} = {a, b}
      BY <2>2
    <3> HIDE DEF a, b, set
    <3> QED BY <2>3, <3>1, <3>2
  <2>5. <<a, b>> # <<b, a>> BY <2>2
  <2> HIDE DEF a, b, Of
  <2>6. {<<a, b>>} \cup {<<b, a>>} = {<<a, b>>, <<b, a>>} OBVIOUS
  <2>7. IsFiniteSet({<<a, b>>}) /\ Cardinality({<<a, b>>}) = 1 BY FS_Singleton
  <2>8. Cardinality({<<a, b>>} \cup {<<b, a>>}) = 1 + 1
    BY <2>5, <2>7, FS_AddElement
  <2>9. n[u] = 2 BY <1>5
  <2> HIDE DEF n
  <2> QED BY <2>4, <2>6, <2>8, <2>9
<1>4. {p \in R : set[p] \in U} = R OBVIOUS
<1>x. \A u \in U : n[u] = Cardinality({p \in R : set[p] = u}) BY <1>3
<1> HIDE DEF set, n, U
<1>6. /\ SumFunctionOnSet(n, U) = Cardinality({p \in R : set[p] \in U})
      /\ SumFunctionOnSet(n, U) = Cardinality(R) => \A p \in R : set[p] \in U
  BY <1>1, <1>2, <1>x, SumOfCounts, Zenon
<1>7. SumFunctionOnSet(n, U) = 2 * Cardinality(U) BY <1>2, <1>5, SumConstant
<1>8. Cardinality(R) = 2 * Cardinality(U) BY <1>4, <1>6, <1>7
<1> QED BY <1>1, <1>2, <1>8 DEF U

=============================================================================
