--------------------------- MODULE SeumMathProofs ---------------------------
(***************************************************************************)
(* Facts about the loops of SeumMath and the sums over finite sets of the  *)
(* modules that use it, for every value of the constants.                  *)
(* A loop is a recursive function, that is a CHOOSE: it is first shown to  *)
(* exist (LoopRuns) and to be the only one (FollowsTo), which unfolds it   *)
(* iteration by iteration.  Induction over the naturals is stated for a    *)
(* SET of naturals (NatSetInduction), from the well-foundedness of <.      *)
(***************************************************************************)
EXTENDS SeumMath, FiniteSetTheorems, WellFoundedInduction, TLAPS

USE DEF PosNat

\* Every non-empty set of naturals has a least element.
LEMMA LeastNatural ==
    ASSUME NEW S, S \subseteq Nat, S # {}
    PROVE  \E m \in S : \A k \in S : m <= k
<1>1. PICK m \in S : \A k \in S : ~ (<<k, m>> \in OpToRel(<, Nat))
  BY NatLessThanWellFounded, WFMin
<1>2. ASSUME NEW k \in S PROVE m <= k
  <2>1. m \in Nat /\ k \in Nat
    OBVIOUS
  <2>2. ~ (k < m)
    BY <1>1, <2>1 DEF OpToRel
  <2> QED BY <2>1, <2>2
<1> QED BY <1>2

\* A set with 0 that is closed under successor holds every natural.
LEMMA NatSetInduction ==
    ASSUME NEW S, 0 \in S, \A n \in Nat : n \in S => n + 1 \in S
    PROVE  Nat \subseteq S
<1> DEFINE Missing == Nat \ S
<1>1. SUFFICES ASSUME Missing # {} PROVE FALSE
  OBVIOUS
<1>2. PICK m \in Missing : \A k \in Missing : m <= k
  BY <1>1, LeastNatural
<1>3. m - 1 \in Nat /\ ~ (m <= m - 1)
  OBVIOUS
<1>4. m - 1 \in S
  BY <1>2, <1>3
<1>5. (m - 1) + 1 \in S
  BY <1>3, <1>4
<1> QED BY <1>5

-----------------------------------------------------------------------------
(* Sums over a finite set, as MapThenSumSet takes them.  The fold is a      *)
(* recursive function on the subsets, that is a CHOOSE: it is first shown  *)
(* to exist, by induction over a set of naturals, the sizes.               *)

\* The element the fold takes out of a set.
Chosen(s) == CHOOSE x \in s : TRUE

\* The sum of f over s, where `it` gives the sums over smaller sets.
Body(it, f, s) == IF s = {} THEN 0 ELSE f[Chosen(s)] + it[s \ {Chosen(s)}]

\* `it` gives the sum of f over every subset of W: the equation of the fold.
IsSum(it, f, W) == it = [s \in SUBSET W |-> Body(it, f, s)]

\* The sizes of the subsets of a finite set, and of a subset less an element.
LEMMA Sizes ==
    ASSUME NEW W, IsFiniteSet(W), NEW s \in SUBSET W
    PROVE  /\ Cardinality(s) \in Nat
           /\ Cardinality(s) <= Cardinality(W)
           /\ s # {} => /\ Chosen(s) \in s
                        /\ s \ {Chosen(s)} \in SUBSET W
                        /\ Cardinality(s \ {Chosen(s)}) = Cardinality(s) - 1
           /\ Cardinality(s) <= 0 => s = {}
<1>1. IsFiniteSet(s) /\ Cardinality(s) <= Cardinality(W)
  BY FS_Subset
<1>2. Cardinality(s) \in Nat
  BY <1>1, FS_CardinalityType
<1>3. ASSUME s # {} PROVE Chosen(s) \in s
  BY <1>3 DEF Chosen
<1>4. ASSUME s # {} PROVE Cardinality(s \ {Chosen(s)}) = Cardinality(s) - 1
  <2> HIDE DEF Chosen
  <2> QED BY <1>1, <1>3, <1>4, FS_RemoveElement
<1>5. Cardinality(s) = 0 => s = {}
  BY <1>1, FS_EmptySet
<1> HIDE DEF Chosen
<1> QED BY <1>1, <1>2, <1>3, <1>4, <1>5

\* What holds of a subset as soon as it holds of the smaller ones holds of all:
\* induction on the size, for a set of good subsets.
LEMMA SubsetInduction ==
    ASSUME NEW W, IsFiniteSet(W), NEW Good,
           \A s \in SUBSET W :
              (s # {} => s \ {Chosen(s)} \in Good) => s \in Good
    PROVE  SUBSET W \subseteq Good
<1> DEFINE Upto == {n \in Nat : \A s \in SUBSET W : Cardinality(s) <= n => s \in Good}
<1>1. 0 \in Upto
  <2>1. ASSUME NEW s \in SUBSET W, Cardinality(s) <= 0 PROVE s \in Good
    <3>1. s = {}
      BY <2>1, Sizes
    <3> QED BY <3>1
  <2> QED BY <2>1
<1>2. ASSUME NEW n \in Nat, n \in Upto PROVE n + 1 \in Upto
  <2>1. ASSUME NEW s \in SUBSET W, Cardinality(s) <= n + 1 PROVE s \in Good
    <3>1. ASSUME s # {} PROVE s \ {Chosen(s)} \in Good
      <4>1. /\ s \ {Chosen(s)} \in SUBSET W
            /\ Cardinality(s) \in Nat
            /\ Cardinality(s \ {Chosen(s)}) = Cardinality(s) - 1
        BY <3>1, Sizes
      <4>2. Cardinality(s \ {Chosen(s)}) <= n
        BY <2>1, <4>1
      <4> QED BY <1>2, <4>1, <4>2
    <3> QED BY <3>1
  <2> QED BY <2>1
<1> HIDE DEF Upto
<1>3. Nat \subseteq Upto
  BY <1>1, <1>2, NatSetInduction
<1>4. ASSUME NEW s \in SUBSET W PROVE s \in Good
  <2>1. Cardinality(s) \in Nat
    BY Sizes
  <2>2. Cardinality(s) <= Cardinality(s)
    BY <2>1
  <2> QED BY <1>3, <2>1, <2>2 DEF Upto
<1> QED BY <1>4

\* `it` is right on the subsets of at most n elements.
SumsUpto(it, f, W, n) ==
    \A s \in SUBSET W : Cardinality(s) <= n => it[s] = Body(it, f, s)

\* There is such a function of integers for each size.
LEMMA SumExists ==
    ASSUME NEW W, IsFiniteSet(W), NEW f \in [W -> Int]
    PROVE  \E it : it \in [SUBSET W -> Int] /\ IsSum(it, f, W)
<1> DEFINE Sizable == {n \in Nat : \E it \in [SUBSET W -> Int] : SumsUpto(it, f, W, n)}
<1>1. 0 \in Sizable
  <2> DEFINE it == [s \in SUBSET W |-> 0]
  <2>1. ASSUME NEW s \in SUBSET W, Cardinality(s) <= 0 PROVE it[s] = Body(it, f, s)
    <3>1. s = {}
      BY <2>1, Sizes
    <3> QED BY <3>1 DEF Body
  <2>2. it \in [SUBSET W -> Int] /\ SumsUpto(it, f, W, 0)
    BY <2>1 DEF SumsUpto
  <2> QED BY <2>2
<1>2. ASSUME NEW n \in Nat, n \in Sizable PROVE n + 1 \in Sizable
  <2>1. PICK it \in [SUBSET W -> Int] : SumsUpto(it, f, W, n)
    BY <1>2
  <2> DEFINE more == [s \in SUBSET W |-> IF Cardinality(s) <= n THEN it[s] ELSE Body(it, f, s)]
  <2>2. ASSUME NEW s \in SUBSET W PROVE Body(it, f, s) \in Int
    <3>1. CASE s = {}
      BY <3>1 DEF Body
    <3>2. CASE s # {}
      <4>1. Chosen(s) \in W /\ s \ {Chosen(s)} \in SUBSET W
        BY <3>2, Sizes
      <4>2. f[Chosen(s)] \in Int /\ it[s \ {Chosen(s)}] \in Int
        BY <4>1
      <4> QED BY <3>2, <4>2 DEF Body
    <3> QED BY <3>1, <3>2
  <2>3. more \in [SUBSET W -> Int]
    BY <2>2
  <2>4. ASSUME NEW s \in SUBSET W PROVE more[s] = Body(it, f, s) \/ ~ (Cardinality(s) <= n + 1)
    BY <2>1 DEF SumsUpto
  <2>5. ASSUME NEW s \in SUBSET W, Cardinality(s) <= n + 1 PROVE Body(more, f, s) = Body(it, f, s)
    <3>1. CASE s = {}
      BY <3>1 DEF Body
    <3>2. CASE s # {}
      <4>1. /\ s \ {Chosen(s)} \in SUBSET W
            /\ Cardinality(s) \in Nat
            /\ Cardinality(s \ {Chosen(s)}) = Cardinality(s) - 1
        BY <3>2, Sizes
      <4>2. Cardinality(s \ {Chosen(s)}) <= n
        BY <2>5, <4>1
      <4>3. more[s \ {Chosen(s)}] = it[s \ {Chosen(s)}]
        BY <4>1, <4>2
      <4> QED BY <3>2, <4>3 DEF Body
    <3> QED BY <3>1, <3>2
  <2> HIDE DEF more
  <2>6. SumsUpto(more, f, W, n + 1)
    BY <2>4, <2>5 DEF SumsUpto
  <2> QED BY <2>3, <2>6
<1> HIDE DEF Sizable
<1>3. Cardinality(W) \in Sizable
  <2>1. Cardinality(W) \in Nat
    BY FS_CardinalityType
  <2> QED BY <1>1, <1>2, <2>1, NatSetInduction
<1>4. PICK it \in [SUBSET W -> Int] : SumsUpto(it, f, W, Cardinality(W))
  BY <1>3 DEF Sizable
<1>5. \A s \in SUBSET W : it[s] = Body(it, f, s)
  BY <1>4, Sizes DEF SumsUpto
<1> QED BY <1>4, <1>5 DEF IsSum

\* Sums are integers.
LEMMA SumType ==
    ASSUME NEW W, IsFiniteSet(W), NEW f \in [W -> Int], NEW it, IsSum(it, f, W)
    PROVE  \A s \in SUBSET W : it[s] \in Int
<1> DEFINE Good == {s \in SUBSET W : it[s] \in Int}
<1>1. \A s \in SUBSET W : it[s] = Body(it, f, s)
  BY DEF IsSum
<1>2. ASSUME NEW s \in SUBSET W, s # {} => s \ {Chosen(s)} \in Good PROVE s \in Good
  <2>1. CASE s = {}
    <3>1. it[s] = 0
      BY <1>1, <2>1 DEF Body
    <3> QED BY <3>1
  <2>2. CASE s # {}
    <3>1. Chosen(s) \in W
      BY <2>2, Sizes
    <3>2. f[Chosen(s)] \in Int /\ it[s \ {Chosen(s)}] \in Int
      BY <1>2, <2>2, <3>1
    <3>3. it[s] = f[Chosen(s)] + it[s \ {Chosen(s)}]
      BY <1>1, <2>2 DEF Body
    <3> QED BY <3>2, <3>3
  <2> QED BY <2>1, <2>2
<1> HIDE DEF Good
<1>3. SUBSET W \subseteq Good
  BY <1>2, SubsetInduction
<1> QED BY <1>3 DEF Good

\* A sum of zeros is zero.
LEMMA SumOfZeros ==
    ASSUME NEW W, IsFiniteSet(W), NEW f \in [W -> Int], \A w \in W : f[w] = 0,
           NEW it, IsSum(it, f, W)
    PROVE  it[W] = 0
<1> DEFINE Good == {s \in SUBSET W : it[s] = 0}
<1>1. \A s \in SUBSET W : it[s] = Body(it, f, s)
  BY DEF IsSum
<1>2. ASSUME NEW s \in SUBSET W, s # {} => s \ {Chosen(s)} \in Good PROVE s \in Good
  <2>1. CASE s = {}
    <3>1. it[s] = 0
      BY <1>1, <2>1 DEF Body
    <3> QED BY <3>1
  <2>2. CASE s # {}
    <3>1. Chosen(s) \in W
      BY <2>2, Sizes
    <3>2. f[Chosen(s)] = 0 /\ it[s \ {Chosen(s)}] = 0
      BY <1>2, <2>2, <3>1
    <3>3. it[s] = f[Chosen(s)] + it[s \ {Chosen(s)}]
      BY <1>1, <2>2 DEF Body
    <3> QED BY <3>2, <3>3
  <2> QED BY <2>1, <2>2
<1> HIDE DEF Good
<1>3. SUBSET W \subseteq Good
  BY <1>2, SubsetInduction
<1> QED BY <1>3 DEF Good

\* f and g differ in the summand of v at most.
DifferAt(v, f, g, W) ==
    /\ v \in W /\ f \in [W -> Int] /\ g \in [W -> Int]
    /\ \A w \in W \ {v} : g[w] = f[w]

\* Changing the summand of v alone changes the sum by the difference.
LEMMA SumUpdate ==
    ASSUME NEW W, IsFiniteSet(W), NEW f, NEW g, NEW v, DifferAt(v, f, g, W),
           NEW itf, IsSum(itf, f, W), NEW itg, IsSum(itg, g, W)
    PROVE  itg[W] = itf[W] + (g[v] - f[v])
<1> DEFINE Extra(s) == IF v \in s THEN g[v] - f[v] ELSE 0
           Good == {s \in SUBSET W : itg[s] = itf[s] + Extra(s)}
<1>0. /\ v \in W /\ f \in [W -> Int] /\ g \in [W -> Int]
      /\ \A w \in W \ {v} : g[w] = f[w]
  BY DEF DifferAt
<1>1. \A s \in SUBSET W : itf[s] = Body(itf, f, s) /\ itg[s] = Body(itg, g, s)
  BY DEF IsSum
<1>2. ASSUME NEW s \in SUBSET W, s # {} => s \ {Chosen(s)} \in Good PROVE s \in Good
  <2>1. CASE s = {}
    <3>1. itf[s] = 0 /\ itg[s] = 0
      BY <1>1, <2>1 DEF Body
    <3> QED BY <2>1, <3>1
  <2>2. CASE s # {}
    <3> DEFINE x == Chosen(s)
               rest == s \ {x}
    <3>1. x \in s /\ x \in W /\ rest \in SUBSET W
      BY <2>2, Sizes
    <3>2. /\ itf[s] = f[x] + itf[rest]
          /\ itg[s] = g[x] + itg[rest]
      BY <1>1, <2>2 DEF Body
    <3>3. itg[rest] = itf[rest] + Extra(rest)
      BY <1>2, <2>2
    <3>4. itf[rest] \in Int
      BY <1>0, <3>1, SumType
    <3>5. f[x] \in Int /\ g[x] \in Int /\ f[v] \in Int /\ g[v] \in Int
      BY <1>0, <3>1
    <3> HIDE DEF x
    <3>6. CASE x = v
      <4>1. Extra(rest) = 0 /\ Extra(s) = g[v] - f[v]
        BY <3>1, <3>6
      <4>2. itg[s] = itf[s] + Extra(s)
        <5> HIDE DEF rest, Extra
        <5> QED BY <3>2, <3>3, <3>4, <3>5, <3>6, <4>1
      <4> QED BY <4>2
    <3>7. CASE x # v
      <4>1. Extra(rest) = Extra(s) /\ g[x] = f[x] /\ Extra(s) \in Int
        BY <1>0, <3>1, <3>5, <3>7
      <4>2. itg[s] = itf[s] + Extra(s)
        <5> HIDE DEF rest, Extra
        <5> QED BY <3>2, <3>3, <3>4, <3>5, <4>1
      <4> QED BY <4>2
    <3> QED BY <3>6, <3>7
  <2> QED BY <2>1, <2>2
<1> HIDE DEF Good
<1>3. SUBSET W \subseteq Good
  BY <1>2, SubsetInduction
<1>4. W \in Good
  BY <1>3
<1> QED BY <1>0, <1>4 DEF Good


Valued(f, W) == \A x \in W : f[x] \in Nat

\* The sum of f over W, whatever f is beyond W.
Total(f, W) == (CHOOSE it : IsSum(it, f, W))[W]

\* Only the values on W matter to a sum over W.
LEMMA SumWithin ==
    ASSUME NEW W, IsFiniteSet(W), NEW f, NEW g, \A x \in W : f[x] = g[x], NEW it
    PROVE  IsSum(it, f, W) <=> IsSum(it, g, W)
<1>1. ASSUME NEW s \in SUBSET W PROVE Body(it, f, s) = Body(it, g, s)
  <2>1. s # {} => Chosen(s) \in W
    BY Sizes
  <2> QED BY <2>1 DEF Body
<1> QED BY <1>1 DEF IsSum

\* The sum is one of the functions of SumExists.
LEMMA TotalIsSum ==
    ASSUME NEW W, IsFiniteSet(W), NEW f, Valued(f, W)
    PROVE  \E it \in [SUBSET W -> Int] : IsSum(it, f, W) /\ Total(f, W) = it[W]
<1> DEFINE g == [x \in W |-> f[x]]
<1>1. g \in [W -> Int] /\ \A x \in W : f[x] = g[x]
  BY DEF Valued
<1> HIDE DEF g
<1>2. PICK sums : IsSum(sums, g, W)
  BY <1>1, SumExists
<1>3. IsSum(sums, f, W)
  BY <1>1, <1>2, SumWithin
<1> DEFINE it == CHOOSE it : IsSum(it, f, W)
<1>4. IsSum(it, f, W) /\ Total(f, W) = it[W]
  BY <1>3 DEF Total
<1> HIDE DEF it
<1>5. IsSum(it, g, W)
  BY <1>1, <1>4, SumWithin
<1>6. \A s \in SUBSET W : it[s] \in Int
  BY <1>1, <1>5, SumType
<1>7. it = [s \in SUBSET W |-> Body(it, g, s)]
  BY <1>5 DEF IsSum
<1>8. it \in [SUBSET W -> Int]
  BY <1>6, <1>7
<1> QED BY <1>4, <1>8

\* A sum of naturals is one.
LEMMA SumIsNatural ==
    ASSUME NEW W, IsFiniteSet(W), NEW f, Valued(f, W), NEW it, IsSum(it, f, W)
    PROVE  \A s \in SUBSET W : it[s] \in Nat
<1> DEFINE Good == {s \in SUBSET W : it[s] \in Nat}
<1>1. \A s \in SUBSET W : it[s] = Body(it, f, s)
  BY DEF IsSum
<1>2. ASSUME NEW s \in SUBSET W, s # {} => s \ {Chosen(s)} \in Good PROVE s \in Good
  <2>1. CASE s = {}
    <3>1. it[s] = 0
      BY <1>1, <2>1 DEF Body
    <3> QED BY <3>1
  <2>2. CASE s # {}
    <3>1. Chosen(s) \in W
      BY <2>2, Sizes
    <3>2. f[Chosen(s)] \in Nat /\ it[s \ {Chosen(s)}] \in Nat
      BY <1>2, <2>2, <3>1 DEF Valued
    <3>3. it[s] = f[Chosen(s)] + it[s \ {Chosen(s)}]
      BY <1>1, <2>2 DEF Body
    <3> QED BY <3>2, <3>3
  <2> QED BY <2>1, <2>2
<1> HIDE DEF Good
<1>3. SUBSET W \subseteq Good
  BY <1>2, SubsetInduction
<1> QED BY <1>3 DEF Good

\* A sum over a set and one over a part of it agree on that part.
LEMMA SumsAgree ==
    ASSUME NEW W, IsFiniteSet(W), NEW V \in SUBSET W, NEW f, NEW g, \A x \in V : f[x] = g[x],
           NEW itf, IsSum(itf, f, W), NEW itg, IsSum(itg, g, V)
    PROVE  \A s \in SUBSET V : itf[s] = itg[s]
<1> DEFINE Good == {s \in SUBSET V : itf[s] = itg[s]}
<1>0. IsFiniteSet(V)
  BY FS_Subset
<1>1. /\ \A s \in SUBSET W : itf[s] = Body(itf, f, s)
      /\ \A s \in SUBSET V : itg[s] = Body(itg, g, s)
  BY DEF IsSum
<1>2. ASSUME NEW s \in SUBSET V, s # {} => s \ {Chosen(s)} \in Good PROVE s \in Good
  <2>0. s \in SUBSET W
    OBVIOUS
  <2>1. CASE s = {}
    <3>1. itf[s] = 0 /\ itg[s] = 0
      BY <1>1, <2>0, <2>1 DEF Body
    <3> QED BY <3>1
  <2>2. CASE s # {}
    <3>1. Chosen(s) \in V
      BY <1>0, <2>2, Sizes
    <3>2. /\ itf[s] = f[Chosen(s)] + itf[s \ {Chosen(s)}]
          /\ itg[s] = g[Chosen(s)] + itg[s \ {Chosen(s)}]
      BY <1>1, <2>0, <2>2 DEF Body
    <3>3. itf[s \ {Chosen(s)}] = itg[s \ {Chosen(s)}]
      BY <1>2, <2>2
    <3> QED BY <3>1, <3>2, <3>3
  <2> QED BY <2>1, <2>2
<1> HIDE DEF Good
<1>3. SUBSET V \subseteq Good
  BY <1>0, <1>2, SubsetInduction
<1> QED BY <1>3 DEF Good

\* Which element is taken first does not matter to the sum.
Exchangeable(it, f, s) == \A x \in s : it[s] = f[x] + it[s \ {x}]

LEMMA SumTakesAny ==
    ASSUME NEW W, IsFiniteSet(W), NEW f, Valued(f, W), NEW it, IsSum(it, f, W)
    PROVE  Exchangeable(it, f, W)
<1> DEFINE Upto == {n \in Nat : \A s \in SUBSET W :
                                   Cardinality(s) <= n => Exchangeable(it, f, s)}
<1>0. \A s \in SUBSET W : it[s] = Body(it, f, s) /\ it[s] \in Int
  BY SumIsNatural DEF IsSum
<1>1. 0 \in Upto
  <2>1. ASSUME NEW s \in SUBSET W, Cardinality(s) <= 0 PROVE Exchangeable(it, f, s)
    BY <2>1, Sizes DEF Exchangeable
  <2> QED BY <2>1
<1>2. ASSUME NEW n \in Nat, n \in Upto PROVE n + 1 \in Upto
  <2>1. ASSUME NEW s \in SUBSET W, Cardinality(s) <= n + 1, NEW x \in s
        PROVE  it[s] = f[x] + it[s \ {x}]
    <3> DEFINE y == Chosen(s)
    <3>0. s # {} /\ s \ {x} \in SUBSET W
      BY <2>1
    <3>1. /\ y \in s /\ s \ {y} \in SUBSET W /\ s \ {x} \in SUBSET W
          /\ it[s] = f[y] + it[s \ {y}]
      <4>1. y \in s /\ s \ {y} \in SUBSET W
        BY <3>0, Sizes
      <4>2. it[s] = Body(it, f, s)
        BY <1>0
      <4> QED BY <3>0, <4>1, <4>2 DEF Body
    <3>2. IsFiniteSet(s) /\ Cardinality(s) \in Nat
      BY FS_Subset, FS_CardinalityType
    <3> HIDE DEF y
    <3>3. CASE x = y
      BY <3>1, <3>3
    <3>4. CASE x # y
      <4>1. Cardinality(s \ {x}) = Cardinality(s) - 1 /\ Cardinality(s \ {y}) = Cardinality(s) - 1
        BY <2>1, <3>1, <3>2, FS_RemoveElement
      <4>2. Cardinality(s \ {x}) <= n /\ Cardinality(s \ {y}) <= n
        BY <2>1, <3>2, <4>1
      <4>3. Exchangeable(it, f, s \ {x}) /\ Exchangeable(it, f, s \ {y})
        BY <1>2, <3>1, <4>2
      <4>4. /\ it[s \ {x}] = f[y] + it[(s \ {x}) \ {y}]
            /\ it[s \ {y}] = f[x] + it[(s \ {y}) \ {x}]
        BY <2>1, <3>1, <3>4, <4>3 DEF Exchangeable
      <4>5. (s \ {x}) \ {y} = (s \ {y}) \ {x} /\ (s \ {x}) \ {y} \in SUBSET W
        OBVIOUS
      <4>6. it[(s \ {x}) \ {y}] \in Int /\ f[x] \in Int /\ f[y] \in Int
        BY <1>0, <2>1, <3>1, <4>5 DEF Valued
      <4> DEFINE rest == it[(s \ {x}) \ {y}]
      <4>7. /\ it[s \ {x}] = f[y] + rest
            /\ it[s \ {y}] = f[x] + rest
            /\ rest \in Int
        BY <4>4, <4>5, <4>6
      <4> HIDE DEF rest
      <4> QED BY <3>1, <4>6, <4>7
    <3> QED BY <3>3, <3>4
  <2>2. \A s \in SUBSET W : Cardinality(s) <= n + 1 => Exchangeable(it, f, s)
    BY <2>1 DEF Exchangeable
  <2> QED BY <2>2
<1> HIDE DEF Upto
<1>3. Cardinality(W) \in Upto
  <2>1. Cardinality(W) \in Nat
    BY FS_CardinalityType
  <2> QED BY <1>1, <1>2, <2>1, NatSetInduction
<1>4. Cardinality(W) \in Nat /\ Cardinality(W) <= Cardinality(W)
  BY FS_CardinalityType
<1> QED BY <1>3, <1>4 DEF Upto

\* The sum over nothing is zero.
LEMMA TotalOfNone ==
    ASSUME NEW f
    PROVE  Total(f, {}) = 0
<1>1. IsFiniteSet({}) /\ Valued(f, {})
  BY FS_EmptySet DEF Valued
<1>2. PICK it \in [SUBSET {} -> Int] : IsSum(it, f, {}) /\ Total(f, {}) = it[{}]
  BY <1>1, TotalIsSum
<1>3. it[{}] = Body(it, f, {})
  BY <1>2 DEF IsSum
<1> QED BY <1>2, <1>3 DEF Body

\* The sum of naturals is a natural.
LEMMA TotalType ==
    ASSUME NEW W, IsFiniteSet(W), NEW f, Valued(f, W)
    PROVE  Total(f, W) \in Nat
<1>1. PICK it \in [SUBSET W -> Int] : IsSum(it, f, W) /\ Total(f, W) = it[W]
  BY TotalIsSum
<1>2. \A s \in SUBSET W : it[s] \in Nat
  BY <1>1, SumIsNatural
<1> QED BY <1>1, <1>2

\* It depends on the values on the set only.
LEMMA TotalWithin ==
    ASSUME NEW W, IsFiniteSet(W), NEW f, Valued(f, W), NEW g, \A x \in W : f[x] = g[x]
    PROVE  Total(f, W) = Total(g, W)
<1>1. Valued(g, W)
  BY DEF Valued
<1>2. PICK itf \in [SUBSET W -> Int] : IsSum(itf, f, W) /\ Total(f, W) = itf[W]
  BY TotalIsSum
<1>3. PICK itg \in [SUBSET W -> Int] : IsSum(itg, g, W) /\ Total(g, W) = itg[W]
  BY <1>1, TotalIsSum
<1>4. W \in SUBSET W
  OBVIOUS
<1> QED BY <1>2, <1>3, <1>4, SumsAgree

\* Taking an element out takes its value off.
LEMMA TotalLess ==
    ASSUME NEW W, IsFiniteSet(W), NEW f, Valued(f, W), NEW x \in W
    PROVE  Total(f, W) = f[x] + Total(f, W \ {x})
<1> DEFINE V == W \ {x}
<1>1. V \in SUBSET W /\ V \in SUBSET V /\ IsFiniteSet(V) /\ Valued(f, V)
  BY FS_RemoveElement DEF Valued
<1>2. PICK itf \in [SUBSET W -> Int] : IsSum(itf, f, W) /\ Total(f, W) = itf[W]
  BY TotalIsSum
<1> HIDE DEF V
<1>3. PICK itg \in [SUBSET V -> Int] : IsSum(itg, f, V) /\ Total(f, V) = itg[V]
  BY <1>1, TotalIsSum
<1>4. itf[V] = itg[V]
  BY <1>1, <1>2, <1>3, SumsAgree
<1>5. itf[W] = f[x] + itf[V]
  BY <1>2, SumTakesAny DEF Exchangeable, V
<1> QED BY <1>2, <1>3, <1>4, <1>5 DEF V

\* Adding an element adds its value.
LEMMA TotalMore ==
    ASSUME NEW W, IsFiniteSet(W), NEW f, Valued(f, W), NEW x, x \notin W, f[x] \in Nat
    PROVE  Total(f, W \cup {x}) = Total(f, W) + f[x]
<1> DEFINE U == W \cup {x}
<1>1. IsFiniteSet(U) /\ Valued(f, U) /\ x \in U /\ U \ {x} = W
  BY FS_AddElement DEF Valued
<1> HIDE DEF U
<1>2. Total(f, U) = f[x] + Total(f, U \ {x})
  BY <1>1, TotalLess
<1>3. Total(f, W) \in Nat
  BY TotalType
<1>4. Total(f, U) = f[x] + Total(f, W)
  BY <1>1, <1>2, Zenon
<1>5. Total(f, U) = Total(f, W) + f[x]
  BY <1>3, <1>4
<1> QED BY <1>5 DEF U

-----------------------------------------------------------------------------
(* Loops. *)

\* f is a run of n iterations within the set S; step[k] is the body of the k-th.
IsLoopRun(f, S, n, start, step) ==
    /\ f \in [0..n -> S]
    /\ \A k \in 0..n : f[k] = IF k = 0 THEN start ELSE step[k][f[k-1]]

\* A loop whose body maps S to itself has a run of every length.
LEMMA LoopExists ==
    ASSUME NEW S, NEW start \in S, NEW n \in Nat, NEW step \in [1..n -> [S -> S]]
    PROVE  \E f : IsLoopRun(f, S, n, start, step)
<1> DEFINE Run(f, m) == IsLoopRun(f, S, m, start, step)
           Good == {m \in Nat : m <= n => \E f : Run(f, m)}
<1> USE DEF IsLoopRun
<1>1. 0 \in Good
  <2>1. Run([k \in 0..0 |-> start], 0)
    OBVIOUS
  <2> QED BY <2>1
<1>2. ASSUME NEW m \in Nat, m \in Good PROVE m + 1 \in Good
  <2>1. SUFFICES ASSUME m + 1 <= n PROVE \E g : Run(g, m + 1)
    OBVIOUS
  <2>2. PICK f : Run(f, m)
    BY <1>2, <2>1
  <2> DEFINE g == [k \in 0..(m+1) |-> IF k \in 0..m THEN f[k] ELSE step[m+1][f[m]]]
  <2>3. f[m] \in S /\ step[m+1][f[m]] \in S
    BY <2>1, <2>2
  <2>4. g \in [0..(m+1) -> S]
    BY <2>2, <2>3
  <2>5. ASSUME NEW k \in 0..(m+1) PROVE g[k] = IF k = 0 THEN start ELSE step[k][g[k-1]]
    <3>1. CASE k = 0
      BY <3>1, <2>2
    <3>2. CASE k \in 1..m
      BY <3>2, <2>2
    <3>3. CASE k = m + 1
      <4>1. k - 1 = m /\ g[m] = f[m] /\ k # 0 /\ g[k] = step[m+1][f[m]]
        BY <3>3
      <4> QED BY <4>1, <3>3
    <3> QED BY <3>1, <3>2, <3>3
  <2>6. Run(g, m + 1)
    BY <2>4, <2>5
  <2> HIDE DEF g, Run
  <2> QED BY <2>6
<1> HIDE DEF Good
<1>3. n \in Good
  BY <1>1, <1>2, NatSetInduction
<1> QED BY <1>3 DEF Good

\* f starts where g does, and for n iterations steps to where g does if both
\* stood at the same place before.
Follows(f, n, g) ==
    /\ f[0] = g[0]
    /\ \A k \in 1..n : f[k-1] = g[k-1] => f[k] = g[k]

\* What follows g is g, as far as it goes.
LEMMA FollowsTo ==
    ASSUME NEW n \in Nat, NEW f, NEW g, Follows(f, n, g)
    PROVE  \A k \in 0..n : f[k] = g[k]
<1> DEFINE Good == {k \in Nat : k <= n => f[k] = g[k]}
<1>1. 0 \in Good
  BY DEF Follows
<1>2. ASSUME NEW k \in Nat, k \in Good PROVE k + 1 \in Good
  <2>1. SUFFICES ASSUME k + 1 <= n PROVE f[k+1] = g[k+1]
    OBVIOUS
  <2>2. k + 1 \in 1..n /\ (k + 1) - 1 = k /\ f[k] = g[k]
    BY <1>2, <2>1
  <2> QED BY <2>2 DEF Follows
<1> HIDE DEF Good
<1>3. Nat \subseteq Good
  BY <1>1, <1>2, NatSetInduction
<1> QED BY <1>3 DEF Good

\* g is the loop without end: g[n] is the state after n iterations.
IsLoop(g, S, start, step) ==
    /\ g \in [Nat -> S]
    /\ g[0] = start
    /\ \A n \in Nat : g[n+1] = step[n+1][g[n]]

\* A loop whose bodies map S to itself runs for ever within S.
LEMMA LoopRuns ==
    ASSUME NEW S, NEW start \in S, NEW step \in [PosNat -> [S -> S]]
    PROVE  \E g : IsLoop(g, S, start, step)
<1> DEFINE Run(f, n) == IsLoopRun(f, S, n, start, step)
           fin(n) == CHOOSE f : Run(f, n)
           g == [n \in Nat |-> fin(n)[n]]
<1>1. ASSUME NEW n \in Nat PROVE Run(fin(n), n)
  <2> DEFINE part == [k \in 1..n |-> step[k]]
  <2>1. \A k \in 1..n : k \in PosNat
    OBVIOUS
  <2>2. part \in [1..n -> [S -> S]]
    BY <2>1
  <2>3. \A k \in 0..n : k # 0 => k \in 1..n
    OBVIOUS
  <2>4. \A k \in 0..n : k # 0 => part[k] = step[k]
    BY <2>3
  <2> HIDE DEF part
  <2>5. PICK f : IsLoopRun(f, S, n, start, part)
    BY <2>2, LoopExists
  <2>6. Run(f, n)
    BY <2>4, <2>5 DEF IsLoopRun
  <2> HIDE DEF Run
  <2> QED BY <2>6
<1> HIDE DEF fin
<1>2. ASSUME NEW n \in Nat PROVE fin(n) \in [0..n -> S] /\ fin(n)[0] = start
                                 /\ \A k \in 1..n : fin(n)[k] = step[k][fin(n)[k-1]]
  BY <1>1 DEF IsLoopRun
<1> HIDE DEF Run
<1>3. ASSUME NEW n \in Nat PROVE fin(n+1)[n] = g[n]
  <2>1. Follows(fin(n+1), n, fin(n))
    BY <1>2 DEF Follows
  <2> QED BY <2>1, FollowsTo
<1>4. g \in [Nat -> S]
  BY <1>2
<1>5. g[0] = start
  BY <1>2
<1>6. ASSUME NEW n \in Nat PROVE g[n+1] = step[n+1][g[n]]
  <2>1. g[n+1] = fin(n+1)[n+1] /\ fin(n+1)[n+1] = step[n+1][fin(n+1)[(n+1)-1]]
    BY <1>2
  <2> HIDE DEF g
  <2> QED BY <1>3, <2>1
<1> HIDE DEF g
<1> QED BY <1>4, <1>5, <1>6 DEF IsLoop

-----------------------------------------------------------------------------
(* Integer division. *)

\* Scaling by at most the divisor never grows a value: honor * (BP - rate) / BP.
LEMMA ScaledDown ==
    ASSUME NEW h \in Nat, NEW b \in PosNat, NEW k \in 0..b
    PROVE  (h * k) \div b \in Nat /\ (h * k) \div b <= h /\ h * k \in Nat
<1>1. h * k <= h * b /\ h * k \in Nat
  OBVIOUS
<1> QED BY <1>1

\* A scaled value is a natural number: honor * num / den.
LEMMA QuotientNat ==
    ASSUME NEW h \in Nat, NEW k \in Nat, NEW b \in PosNat
    PROVE  (h * k) \div b \in Nat
<1>1. h * k \in Nat
  OBVIOUS
<1> QED BY <1>1

\* Scaling by a fraction of at least one never shrinks a value.
LEMMA ScaledUp ==
    ASSUME NEW h \in Nat, NEW num \in Nat, NEW den \in PosNat, num >= den
    PROVE  (h * num) \div den \in Nat /\ h <= (h * num) \div den
<1>1. h * num >= h * den /\ h * num \in Nat
  OBVIOUS
<1> QED BY <1>1

\* The rate grows each day or stays, and never passes the basis points.
LEMMA GrownRateType ==
    ASSUME NEW rate \in 0..BASIS_POINTS
    PROVE  GrownRate(rate) \in rate..BASIS_POINTS
<1>1. (rate * DECAY_GROWTH_NUM) \div DECAY_GROWTH_DEN \in Nat
  BY QuotientNat, ConstantsAssumption
<1>2. rate <= (rate * DECAY_GROWTH_NUM) \div DECAY_GROWTH_DEN
  BY ScaledUp, ConstantsAssumption
<1> QED BY <1>1, <1>2, ConstantsAssumption DEF GrownRate, Lesser

-----------------------------------------------------------------------------
(* The decay loop. *)

\* The states of the loop that may follow honor h and rate r.
DecayState(h, r) == [rate : r..BASIS_POINTS, honor : 0..h, ok : BOOLEAN]

\* One day of decay never lowers the rate, keeps it within the basis points and
\* never adds honor.
LEMMA DecayDayType ==
    ASSUME NEW h \in Nat, NEW r \in Nat, NEW s \in DecayState(h, r), NEW c, NEW day, NEW active
    PROVE  DecayDay(s, c, day, active) \in DecayState(h, r)
<1> DEFINE rate   == GrownRate(s.rate)
           spared == s.honor = 0 \/ IsSabbath(c, day) \/ day \in active
           kept   == (s.honor * (BASIS_POINTS - rate)) \div BASIS_POINTS
<1>1. s.rate \in r..BASIS_POINTS /\ s.honor \in 0..h /\ s.ok \in BOOLEAN
  BY DEF DecayState
<1>2. rate \in s.rate..BASIS_POINTS
  BY <1>1, GrownRateType
<1>3. BASIS_POINTS - rate \in 0..BASIS_POINTS /\ rate \in r..BASIS_POINTS
  BY <1>1, <1>2, ConstantsAssumption
<1>4. s.honor \in Nat
  BY <1>1
<1>5. kept \in Nat /\ kept <= s.honor
  BY <1>3, <1>4, ScaledDown, ConstantsAssumption
<1>6. kept \in 0..h
  BY <1>1, <1>5
<1> HIDE DEF rate, kept, spared
<1>7. (IF spared THEN s.honor ELSE kept) \in 0..h
  BY <1>1, <1>6
<1> QED BY <1>1, <1>3, <1>7 DEF DecayDay, DecayState, rate, kept, spared

\* The state of an axis before the loop.
DecayStart(c, a) == [rate |-> c.decayRateAtLastDay[a], honor |-> c.baseHonor[a], ok |-> TRUE]

\* The stored state of an axis is a state of the loop.
LEMMA DecayStartType ==
    ASSUME NEW c \in Citizen, NEW a \in Axis
    PROVE  /\ DecayStart(c, a) \in DecayState(c.baseHonor[a], c.decayRateAtLastDay[a])
           /\ c.baseHonor[a] \in Nat /\ c.decayRateAtLastDay[a] \in Nat
<1>1. c.baseHonor[a] \in Nat /\ c.decayRateAtLastDay[a] \in 0..BASIS_POINTS
  BY ConstantsAssumption DEF Citizen, Uint
<1> QED BY <1>1 DEF DecayState, DecayStart

\* The loop, unfolded: no day at all leaves the stored state, one more day is one
\* more DecayDay.
LEMMA DecayRunUnfolds ==
    ASSUME NEW c \in Citizen, NEW a \in Axis, NEW active
    PROVE  /\ DecayRun(c, a, active, 0) = DecayStart(c, a)
           /\ \A n \in Nat : DecayRun(c, a, active, n + 1)
                  = DecayDay(DecayRun(c, a, active, n), c, c.lastDecayDay[a] + (n + 1), active)
<1> DEFINE last    == c.lastDecayDay[a]
           start   == DecayStart(c, a)
           S       == DecayState(c.baseHonor[a], c.decayRateAtLastDay[a])
           step    == [k \in PosNat |-> [s \in S |-> DecayDay(s, c, last + k, active)]]
           IsRun(f, n) == f = [k \in 0..n |-> IF k = 0 THEN start
                                             ELSE DecayDay(f[k-1], c, last + k, active)]
<1>1. start \in S /\ c.baseHonor[a] \in Nat /\ c.decayRateAtLastDay[a] \in Nat
  BY DecayStartType
<1>2. \A n \in Nat : DecayRun(c, a, active, n) = (CHOOSE f : IsRun(f, n))[n]
  BY DEF DecayRun, DecayStart
<1> HIDE DEF start, S, last
<1>3. step \in [PosNat -> [S -> S]]
  BY <1>1, DecayDayType DEF S
<1> HIDE DEF step
<1>4. PICK g : IsLoop(g, S, start, step)
  BY <1>1, <1>3, LoopRuns
<1>5. /\ g \in [Nat -> S] /\ g[0] = start
      /\ \A n \in Nat : g[n+1] = DecayDay(g[n], c, last + (n + 1), active)
  <2>1. \A n \in Nat : n + 1 \in PosNat
    OBVIOUS
  <2>2. \A n \in PosNat, s \in S : step[n][s] = DecayDay(s, c, last + n, active)
    BY DEF step
  <2> QED BY <1>4, <2>1, <2>2 DEF IsLoop
<1>6. ASSUME NEW n \in Nat PROVE DecayRun(c, a, active, n) = g[n]
  <2>1. IsRun([k \in 0..n |-> g[k]], n)
    <3>1. \A k \in 0..n : k # 0 => k - 1 \in Nat /\ k = (k - 1) + 1 /\ k - 1 \in 0..n
      OBVIOUS
    <3>2. \A k \in 0..n : k # 0 => g[k] = DecayDay(g[k-1], c, last + k, active)
      BY <1>5, <3>1
    <3> QED BY <1>5, <3>1, <3>2
  <2> DEFINE run == CHOOSE f : IsRun(f, n)
  <2>2. IsRun(run, n)
    BY <2>1
  <2>3. DecayRun(c, a, active, n) = run[n]
    BY <1>2
  <2> HIDE DEF run
  <2>4. /\ run[0] = start
        /\ \A k \in 1..n : run[k] = DecayDay(run[k-1], c, last + k, active)
    BY <2>2
  <2>5. \A k \in 1..n : k - 1 \in Nat /\ k = (k - 1) + 1
    OBVIOUS
  <2>6. Follows(run, n, g)
    BY <1>5, <2>4, <2>5 DEF Follows
  <2> QED BY <2>3, <2>6, FollowsTo
<1> QED BY <1>5, <1>6 DEF start, last

\* The rate after a number of days, unfolded day by day.
LEMMA RateAfterUnfolds ==
    /\ RateAfter(0) = BASE_DECAY_BP
    /\ \A n \in Nat : RateAfter(n + 1) = GrownRate(RateAfter(n))
<1> DEFINE S == 0..BASIS_POINTS
           step == [k \in PosNat |-> [r \in S |-> GrownRate(r)]]
           IsRun(f, n) == f = [k \in 0..n |-> IF k = 0 THEN BASE_DECAY_BP ELSE GrownRate(f[k-1])]
<1>1. step \in [PosNat -> [S -> S]] /\ BASE_DECAY_BP \in S
  BY GrownRateType, ConstantsAssumption
<1> HIDE DEF step
<1>2. PICK g : IsLoop(g, S, BASE_DECAY_BP, step)
  BY <1>1, LoopRuns
<1>3. /\ g \in [Nat -> S] /\ g[0] = BASE_DECAY_BP
      /\ \A n \in Nat : g[n+1] = GrownRate(g[n])
  <2>1. \A n \in Nat : n + 1 \in PosNat
    OBVIOUS
  <2>2. \A n \in PosNat, r \in S : step[n][r] = GrownRate(r)
    BY DEF step
  <2> QED BY <1>2, <2>1, <2>2 DEF IsLoop
<1>4. ASSUME NEW n \in Nat PROVE RateAfter(n) = g[n]
  <2>1. IsRun([k \in 0..n |-> g[k]], n)
    <3>1. \A k \in 0..n : k # 0 => k - 1 \in Nat /\ k = (k - 1) + 1 /\ k - 1 \in 0..n
      OBVIOUS
    <3>2. \A k \in 0..n : k # 0 => g[k] = GrownRate(g[k-1])
      BY <1>3, <3>1
    <3> QED BY <1>3, <3>1, <3>2
  <2> DEFINE run == CHOOSE f : IsRun(f, n)
  <2>2. IsRun(run, n)
    BY <2>1
  <2>3. RateAfter(n) = run[n]
    BY DEF RateAfter
  <2> HIDE DEF run
  <2>4. /\ run[0] = BASE_DECAY_BP
        /\ \A k \in 1..n : run[k] = GrownRate(run[k-1])
    <3>1. 0 \in 0..n /\ \A k \in 1..n : k \in 0..n /\ k # 0
      OBVIOUS
    <3>2. \A k \in 0..n : run[k] = IF k = 0 THEN BASE_DECAY_BP ELSE GrownRate(run[k-1])
      BY <2>2
    <3> QED BY <3>1, <3>2
  <2>5. \A k \in 1..n : k - 1 \in Nat /\ k = (k - 1) + 1
    OBVIOUS
  <2>6. Follows(run, n, g)
    BY <1>3, <2>4, <2>5 DEF Follows
  <2> QED BY <2>3, <2>6, FollowsTo
<1> QED BY <1>3, <1>4

\* A rate that is m days old is m + n days old after n more days of decay.
LEMMA DecayRunAges ==
    ASSUME NEW c \in Citizen, NEW a \in Axis, NEW active, NEW m \in Nat, NEW n \in Nat,
           c.decayRateAtLastDay[a] = RateAfter(m), DecayRun(c, a, active, n).ok
    PROVE  DecayRun(c, a, active, n).rate = RateAfter(m + n)
<1> DEFINE D(k) == DecayRun(c, a, active, k)
           Good == {k \in Nat : D(k).ok => D(k).rate = RateAfter(m + k)}
<1>1. 0 \in Good
  <2>1. m + 0 = m
    OBVIOUS
  <2> QED BY <2>1, DecayRunUnfolds DEF DecayStart
<1>2. ASSUME NEW k \in Nat, k \in Good PROVE k + 1 \in Good
  <2>1. m + k \in Nat /\ (m + k) + 1 = m + (k + 1)
    OBVIOUS
  <2> DEFINE day == c.lastDecayDay[a] + (k + 1)
  <2>2. D(k + 1) = DecayDay(D(k), c, day, active)
    BY DecayRunUnfolds
  <2>3. SUFFICES ASSUME D(k + 1).ok PROVE D(k + 1).rate = RateAfter(m + (k + 1))
    OBVIOUS
  <2> HIDE DEF day, D
  <2>4. D(k).ok
    BY <2>2, <2>3 DEF DecayDay
  <2>5. D(k + 1).rate = GrownRate(D(k).rate)
    BY <2>2, <2>4 DEF DecayDay
  <2>6. D(k).rate = RateAfter(m + k)
    BY <1>2, <2>4
  <2> QED BY <2>1, <2>5, <2>6, RateAfterUnfolds
<1> HIDE DEF Good
<1>3. n \in Good
  BY <1>1, <1>2, NatSetInduction
<1> QED BY <1>3 DEF Good

\* Whatever honor and rate an axis has, the loop ends with at most that honor, at
\* least that rate, and with a verdict on overflow (_applyDecay's for).
LEMMA DecayRunType ==
    ASSUME NEW c \in Citizen, NEW a \in Axis, NEW active, NEW n \in Nat
    PROVE  DecayRun(c, a, active, n) \in DecayState(c.baseHonor[a], c.decayRateAtLastDay[a])
<1> DEFINE S    == DecayState(c.baseHonor[a], c.decayRateAtLastDay[a])
           Good == {k \in Nat : DecayRun(c, a, active, k) \in S}
<1>1. 0 \in Good
  BY DecayRunUnfolds, DecayStartType
<1>2. ASSUME NEW k \in Nat, k \in Good PROVE k + 1 \in Good
  <2>1. DecayRun(c, a, active, k) \in S
    BY <1>2
  <2>2. c.baseHonor[a] \in Nat /\ c.decayRateAtLastDay[a] \in Nat
    BY DecayStartType
  <2>3. DecayDay(DecayRun(c, a, active, k), c, c.lastDecayDay[a] + (k + 1), active) \in S
    BY <2>1, <2>2, DecayDayType
  <2> QED BY <2>3, DecayRunUnfolds
<1> HIDE DEF Good
<1>3. n \in Good
  BY <1>1, <1>2, NatSetInduction
<1> QED BY <1>3 DEF Good

-----------------------------------------------------------------------------
(* The honor of the view. *)

\* The states of the view's loop that may follow honor h and rate r.
ViewState(h, r) == [rate : r..BASIS_POINTS, honor : 0..h]

\* One day of the view's loop.
ViewDay(s, c, day, active) ==
    [rate  |-> GrownRate(s.rate),
     honor |-> IF IsSabbath(c, day) \/ day \in active
               THEN s.honor
               ELSE (s.honor * (BASIS_POINTS - GrownRate(s.rate))) \div BASIS_POINTS]

ViewStart(c, a) == [rate |-> c.decayRateAtLastDay[a], honor |-> c.baseHonor[a]]

\* The view is that loop over the days a call would settle.
LEMMA ViewIsRun ==
    ASSUME NEW c, c.isCitizen, NEW a, NEW active, NEW today
    PROVE  CurrentHonor(c, a, active, today)
             = ViewRun(c, a, active, DaysToSettle(c, a, today)).honor
  BY DEF CurrentHonor

\* One day of the view never lowers the rate and never adds honor.
LEMMA ViewDayType ==
    ASSUME NEW h \in Nat, NEW r \in Nat, NEW s \in ViewState(h, r), NEW c, NEW day, NEW active
    PROVE  ViewDay(s, c, day, active) \in ViewState(h, r)
<1> DEFINE rate == GrownRate(s.rate)
           kept == (s.honor * (BASIS_POINTS - rate)) \div BASIS_POINTS
<1>1. s.rate \in r..BASIS_POINTS /\ s.honor \in 0..h
  BY DEF ViewState
<1>2. rate \in s.rate..BASIS_POINTS
  BY <1>1, GrownRateType
<1>3. BASIS_POINTS - rate \in 0..BASIS_POINTS /\ rate \in r..BASIS_POINTS
  BY <1>1, <1>2, ConstantsAssumption
<1>4. kept \in Nat /\ kept <= s.honor
  BY <1>1, <1>3, ScaledDown, ConstantsAssumption
<1>5. kept \in 0..h
  BY <1>1, <1>4
<1> HIDE DEF rate, kept
<1> QED BY <1>1, <1>3, <1>5 DEF ViewDay, ViewState, rate, kept

\* The stored state of an axis is a state of the view's loop.
LEMMA ViewStartType ==
    ASSUME NEW c \in Citizen, NEW a \in Axis
    PROVE  /\ ViewStart(c, a) \in ViewState(c.baseHonor[a], c.decayRateAtLastDay[a])
           /\ c.baseHonor[a] \in Nat /\ c.decayRateAtLastDay[a] \in Nat
<1>1. c.baseHonor[a] \in Nat /\ c.decayRateAtLastDay[a] \in 0..BASIS_POINTS
  BY ConstantsAssumption DEF Citizen, Uint
<1> QED BY <1>1 DEF ViewState, ViewStart

\* The view's loop, unfolded; its states never gain honor nor lose rate.
LEMMA ViewRunUnfolds ==
    ASSUME NEW c \in Citizen, NEW a \in Axis, NEW active
    PROVE  /\ ViewRun(c, a, active, 0) = ViewStart(c, a)
           /\ \A n \in Nat : ViewRun(c, a, active, n)
                  \in ViewState(c.baseHonor[a], c.decayRateAtLastDay[a])
           /\ \A n \in Nat : ViewRun(c, a, active, n + 1)
                  = ViewDay(ViewRun(c, a, active, n), c, c.lastDecayDay[a] + (n + 1), active)
<1> DEFINE last    == c.lastDecayDay[a]
           start   == ViewStart(c, a)
           S       == ViewState(c.baseHonor[a], c.decayRateAtLastDay[a])
           step    == [k \in PosNat |-> [s \in S |-> ViewDay(s, c, last + k, active)]]
           IsRun(f, n) == f = [k \in 0..n |-> IF k = 0 THEN start
                                             ELSE ViewDay(f[k-1], c, last + k, active)]
<1>1. start \in S /\ c.baseHonor[a] \in Nat /\ c.decayRateAtLastDay[a] \in Nat
  BY ViewStartType
<1>2. \A n \in Nat : ViewRun(c, a, active, n) = (CHOOSE f : IsRun(f, n))[n]
  BY DEF ViewRun, ViewStart, ViewDay
<1> HIDE DEF start, S, last
<1>3. step \in [PosNat -> [S -> S]]
  BY <1>1, ViewDayType DEF S
<1> HIDE DEF step
<1>4. PICK g : IsLoop(g, S, start, step)
  BY <1>1, <1>3, LoopRuns
<1>5. /\ g \in [Nat -> S] /\ g[0] = start
      /\ \A n \in Nat : g[n+1] = ViewDay(g[n], c, last + (n + 1), active)
  <2>1. \A n \in Nat : n + 1 \in PosNat
    OBVIOUS
  <2>2. \A n \in PosNat, s \in S : step[n][s] = ViewDay(s, c, last + n, active)
    BY DEF step
  <2> QED BY <1>4, <2>1, <2>2 DEF IsLoop
<1>6. ASSUME NEW n \in Nat PROVE ViewRun(c, a, active, n) = g[n]
  <2>1. IsRun([k \in 0..n |-> g[k]], n)
    <3>1. \A k \in 0..n : k # 0 => k - 1 \in Nat /\ k = (k - 1) + 1 /\ k - 1 \in 0..n
      OBVIOUS
    <3>2. \A k \in 0..n : k # 0 => g[k] = ViewDay(g[k-1], c, last + k, active)
      BY <1>5, <3>1
    <3> QED BY <1>5, <3>1, <3>2
  <2> DEFINE run == CHOOSE f : IsRun(f, n)
  <2>2. IsRun(run, n)
    BY <2>1
  <2>3. ViewRun(c, a, active, n) = run[n]
    BY <1>2
  <2> HIDE DEF run
  <2>4. /\ run[0] = start
        /\ \A k \in 1..n : run[k] = ViewDay(run[k-1], c, last + k, active)
    BY <2>2
  <2>5. \A k \in 1..n : k - 1 \in Nat /\ k = (k - 1) + 1
    OBVIOUS
  <2>6. Follows(run, n, g)
    BY <1>5, <2>4, <2>5 DEF Follows
  <2> QED BY <2>3, <2>6, FollowsTo
<1> QED BY <1>5, <1>6 DEF start, last, S

\* The two loops, written apart, agree day by day: without overflow the settlement
\* leaves the honor and the rate the view shows (_applyDecay, getCurrentHonor).
LEMMA ViewIsDecay ==
    ASSUME NEW c \in Citizen, NEW a \in Axis, NEW active, NEW n \in Nat,
           DecayRun(c, a, active, n).ok
    PROVE  /\ DecayRun(c, a, active, n).honor = ViewRun(c, a, active, n).honor
           /\ DecayRun(c, a, active, n).rate = ViewRun(c, a, active, n).rate
<1> DEFINE D(k)    == DecayRun(c, a, active, k)
           V(k)    == ViewRun(c, a, active, k)
           Good    == {k \in Nat : D(k).ok => D(k).honor = V(k).honor /\ D(k).rate = V(k).rate}
<1>1. 0 \in Good
  BY DecayRunUnfolds, ViewRunUnfolds DEF DecayStart, ViewStart
<1>2. ASSUME NEW k \in Nat, k \in Good PROVE k + 1 \in Good
  <2> DEFINE day == c.lastDecayDay[a] + (k + 1)
  <2>1. D(k + 1) = DecayDay(D(k), c, day, active) /\ V(k + 1) = ViewDay(V(k), c, day, active)
    BY DecayRunUnfolds, ViewRunUnfolds
  <2>2. SUFFICES ASSUME D(k + 1).ok
                 PROVE D(k + 1).honor = V(k + 1).honor /\ D(k + 1).rate = V(k + 1).rate
    OBVIOUS
  <2>3. V(k) \in ViewState(c.baseHonor[a], c.decayRateAtLastDay[a])
        /\ c.decayRateAtLastDay[a] \in Nat
    BY ViewRunUnfolds, ViewStartType
  <2>4. V(k).rate \in 0..BASIS_POINTS
    BY <2>3 DEF ViewState
  <2> HIDE DEF day, D, V
  <2>5. D(k).ok
    BY <2>1, <2>2 DEF DecayDay
  <2>6. D(k).honor = V(k).honor /\ D(k).rate = V(k).rate
    BY <1>2, <2>5
  <2> DEFINE rate == GrownRate(V(k).rate)
             kept == (V(k).honor * (BASIS_POINTS - rate)) \div BASIS_POINTS
  <2>7. rate \in 0..BASIS_POINTS
    BY <2>4, GrownRateType
  <2>8. V(k).honor = 0 => kept = 0
    <3>1. BASIS_POINTS - rate \in Nat
      BY <2>7, ConstantsAssumption
    <3> HIDE DEF rate
    <3>2. V(k).honor = 0 => V(k).honor * (BASIS_POINTS - rate) = 0
      BY <3>1
    <3>3. 0 \div BASIS_POINTS = 0
      BY ConstantsAssumption
    <3> QED BY <3>2, <3>3
  <2>9. D(k + 1).rate = rate /\ V(k + 1).rate = rate
    BY <2>1, <2>5, <2>6 DEF DecayDay, ViewDay
  <2>10. D(k + 1).honor = IF V(k).honor = 0 \/ IsSabbath(c, day) \/ day \in active
                          THEN V(k).honor ELSE kept
    BY <2>1, <2>5, <2>6 DEF DecayDay
  <2>11. V(k + 1).honor = IF IsSabbath(c, day) \/ day \in active THEN V(k).honor ELSE kept
    BY <2>1 DEF ViewDay
  <2> HIDE DEF rate, kept
  <2> QED BY <2>8, <2>9, <2>10, <2>11
<1> HIDE DEF Good
<1>3. n \in Good
  BY <1>1, <1>2, NatSetInduction
<1> QED BY <1>3 DEF Good

\* When a day's checked multiplication goes through.
DayFits(s, c, day, active) ==
    \/ s.honor = 0 \/ IsSabbath(c, day) \/ day \in active
    \/ s.honor * (BASIS_POINTS - GrownRate(s.rate)) <= MAX_UINT

\* A day settles when its multiplication fits.
LEMMA DecayDayOk ==
    ASSUME NEW s, s.ok, NEW c, NEW day, NEW active
    PROVE  DecayDay(s, c, day, active).ok <=> DayFits(s, c, day, active)
<1> DEFINE rate    == GrownRate(s.rate)
           spared  == s.honor = 0 \/ IsSabbath(c, day) \/ day \in active
           product == s.honor * (BASIS_POINTS - rate)
           fits    == spared \/ product <= MAX_UINT
           next    == [rate |-> rate, honor |-> IF spared THEN s.honor ELSE product \div BASIS_POINTS,
                       ok |-> fits]
<1>1. DecayDay(s, c, day, active) = next
  BY DEF DecayDay
<1>2. next.ok = fits
  OBVIOUS
<1>3. fits <=> DayFits(s, c, day, active)
  BY Zenon DEF DayFits
<1> HIDE DEF next, fits
<1> QED BY <1>1, <1>2, <1>3

\* When a day's checked multiplication of the view goes through.
ViewDayFits(s, c, day, active) ==
    \/ IsSabbath(c, day) \/ day \in active
    \/ s.honor * (BASIS_POINTS - GrownRate(s.rate)) <= MAX_UINT

\* The products of the settlement fit as long as those of the view do: they are the
\* same, but at honor 0, where both are 0 (_applyDecay, getCurrentHonor).
LEMMA DecayFitsAsViewed ==
    ASSUME NEW c \in Citizen, NEW a \in Axis, NEW active, NEW n \in Nat
    PROVE  DecayRun(c, a, active, n).ok
             <=> \A k \in 1..n : ViewDayFits(ViewRun(c, a, active, k - 1), c,
                                             c.lastDecayDay[a] + k, active)
<1> DEFINE D(k)    == DecayRun(c, a, active, k)
           V(k)    == ViewRun(c, a, active, k)
           Fits(k) == ViewDayFits(V(k - 1), c, c.lastDecayDay[a] + k, active)
           Good    == {k \in Nat : D(k).ok <=> \A j \in 1..k : Fits(j)}
<1>1. 0 \in Good
  <2>1. D(0).ok = TRUE
    BY DecayRunUnfolds DEF DecayStart
  <2>2. 1..0 = {}
    OBVIOUS
  <2> QED BY <2>1, <2>2
<1>2. ASSUME NEW k \in Nat, k \in Good PROVE k + 1 \in Good
  <2> DEFINE day == c.lastDecayDay[a] + (k + 1)
  <2>1. D(k + 1) = DecayDay(D(k), c, day, active)
    BY DecayRunUnfolds
  <2>2. Fits(k + 1) <=> ViewDayFits(V(k), c, day, active)
    <3>1. (k + 1) - 1 = k
      OBVIOUS
    <3> HIDE DEF V
    <3> QED BY <3>1
  <2>3. V(k) \in ViewState(c.baseHonor[a], c.decayRateAtLastDay[a])
        /\ c.decayRateAtLastDay[a] \in Nat
    BY ViewRunUnfolds, ViewStartType
  <2>4. V(k).rate \in 0..BASIS_POINTS
    BY <2>3 DEF ViewState
  <2>5. GrownRate(V(k).rate) \in 0..BASIS_POINTS
    BY <2>4, GrownRateType
  <2>6. D(k).ok => D(k).honor = V(k).honor /\ D(k).rate = V(k).rate
    BY ViewIsDecay
  <2> HIDE DEF D, V, day, Fits
  <2>7. V(k).honor = 0 => V(k).honor * (BASIS_POINTS - GrownRate(V(k).rate)) <= MAX_UINT
    <3> DEFINE rate == GrownRate(V(k).rate)
    <3>1. BASIS_POINTS - rate \in Nat
      BY <2>5, ConstantsAssumption
    <3> HIDE DEF rate
    <3>2. V(k).honor = 0 => V(k).honor * (BASIS_POINTS - rate) = 0
      BY <3>1
    <3> QED BY <3>2, ConstantsAssumption DEF rate
  <2>8. D(k).ok => (D(k + 1).ok <=> Fits(k + 1))
    <3> SUFFICES ASSUME D(k).ok PROVE D(k + 1).ok <=> Fits(k + 1)
      OBVIOUS
    <3>1. D(k + 1).ok <=> DayFits(D(k), c, day, active)
      BY <2>1, DecayDayOk
    <3>2. DayFits(D(k), c, day, active) <=> ViewDayFits(V(k), c, day, active)
      BY <2>6, <2>7, Zenon DEF DayFits, ViewDayFits
    <3> QED BY <2>2, <3>1, <3>2
  <2>9. ~ D(k).ok => ~ D(k + 1).ok
    BY <2>1 DEF DecayDay
  <2>10. (\A j \in 1..(k + 1) : Fits(j)) <=> (\A j \in 1..k : Fits(j)) /\ Fits(k + 1)
    <3>1. \A j : j \in 1..(k + 1) <=> j \in 1..k \/ j = k + 1
      OBVIOUS
    <3> QED BY <3>1, Zenon
  <2>11. D(k).ok <=> \A j \in 1..k : Fits(j)
    BY <1>2
  <2> QED BY <2>8, <2>9, <2>10, <2>11
<1> HIDE DEF Good
<1>3. n \in Good
  BY <1>1, <1>2, NatSetInduction
<1> QED BY <1>3 DEF Good

\* d is c with m of the days behind, on axis a.
Advanced(c, d, a, m) ==
    /\ d.joinDay = c.joinDay /\ d.sabbathOffset = c.sabbathOffset
    /\ d.lastDecayDay[a] = c.lastDecayDay[a] + m

\* A day is a sabbath before and after a settlement.
LEMMA SameSabbath ==
    ASSUME NEW c, NEW d, NEW a, NEW m, Advanced(c, d, a, m)
    PROVE  \A day : IsSabbath(d, day) <=> IsSabbath(c, day)
  BY DEF Advanced, IsSabbath

\* A view after m settled days goes on where the view before them would be.
LEMMA ViewRunContinues ==
    ASSUME NEW c \in Citizen, NEW d \in Citizen, NEW a \in Axis, NEW active,
           NEW m \in Nat, NEW n \in Nat, Advanced(c, d, a, m),
           ViewStart(d, a) = ViewRun(c, a, active, m)
    PROVE  ViewRun(d, a, active, n) = ViewRun(c, a, active, m + n)
<1> DEFINE Good == {k \in Nat : ViewRun(d, a, active, k) = ViewRun(c, a, active, m + k)}
<1>1. 0 \in Good
  <2>1. m + 0 = m
    OBVIOUS
  <2> QED BY <2>1, ViewRunUnfolds
<1>2. ASSUME NEW k \in Nat, k \in Good PROVE k + 1 \in Good
  <2>1. m + k \in Nat /\ (m + k) + 1 = m + (k + 1)
    OBVIOUS
  <2>2. c.lastDecayDay[a] \in Nat
    BY DEF Citizen
  <2>3. d.lastDecayDay[a] + (k + 1) = c.lastDecayDay[a] + ((m + k) + 1)
    BY <2>2 DEF Advanced
  <2> DEFINE day == c.lastDecayDay[a] + ((m + k) + 1)
             s   == ViewRun(c, a, active, m + k)
  <2>4. ViewRun(d, a, active, k + 1) = ViewDay(s, d, day, active)
    <3>1. ViewRun(d, a, active, k + 1)
            = ViewDay(ViewRun(d, a, active, k), d, d.lastDecayDay[a] + (k + 1), active)
      BY ViewRunUnfolds
    <3> QED BY <1>2, <2>3, <3>1
  <2>5. ViewRun(c, a, active, (m + k) + 1) = ViewDay(s, c, day, active)
    BY <2>1, ViewRunUnfolds
  <2>6. ViewDay(s, d, day, active) = ViewDay(s, c, day, active)
    <3> HIDE DEF s, day
    <3> QED BY SameSabbath DEF ViewDay
  <2> QED BY <2>1, <2>4, <2>5, <2>6
<1> HIDE DEF Good
<1>3. Nat \subseteq Good
  BY <1>1, <1>2, NatSetInduction
<1> QED BY <1>3 DEF Good

\* So does the settlement, if the first m days did not overflow.
LEMMA DecayRunContinues ==
    ASSUME NEW c \in Citizen, NEW d \in Citizen, NEW a \in Axis, NEW active,
           NEW m \in Nat, NEW n \in Nat, Advanced(c, d, a, m),
           DecayStart(d, a) = DecayRun(c, a, active, m)
    PROVE  DecayRun(d, a, active, n) = DecayRun(c, a, active, m + n)
<1> DEFINE Good == {k \in Nat : DecayRun(d, a, active, k) = DecayRun(c, a, active, m + k)}
<1>1. 0 \in Good
  <2>1. m + 0 = m
    OBVIOUS
  <2> QED BY <2>1, DecayRunUnfolds
<1>2. ASSUME NEW k \in Nat, k \in Good PROVE k + 1 \in Good
  <2>1. m + k \in Nat /\ (m + k) + 1 = m + (k + 1)
    OBVIOUS
  <2>2. c.lastDecayDay[a] \in Nat
    BY DEF Citizen
  <2>3. d.lastDecayDay[a] + (k + 1) = c.lastDecayDay[a] + ((m + k) + 1)
    BY <2>2 DEF Advanced
  <2> DEFINE day == c.lastDecayDay[a] + ((m + k) + 1)
             s   == DecayRun(c, a, active, m + k)
  <2>4. DecayRun(d, a, active, k + 1) = DecayDay(s, d, day, active)
    <3>1. DecayRun(d, a, active, k + 1)
            = DecayDay(DecayRun(d, a, active, k), d, d.lastDecayDay[a] + (k + 1), active)
      BY DecayRunUnfolds
    <3> QED BY <1>2, <2>3, <3>1
  <2>5. DecayRun(c, a, active, (m + k) + 1) = DecayDay(s, c, day, active)
    BY <2>1, DecayRunUnfolds
  <2>6. DecayDay(s, d, day, active) = DecayDay(s, c, day, active)
    <3> HIDE DEF s, day
    <3> QED BY SameSabbath DEF DecayDay
  <2> QED BY <2>1, <2>4, <2>5, <2>6
<1> HIDE DEF Good
<1>3. Nat \subseteq Good
  BY <1>1, <1>2, NatSetInduction
<1> QED BY <1>3 DEF Good

\* A run without overflow had none on the way.
LEMMA DecayRunWasOk ==
    ASSUME NEW c \in Citizen, NEW a \in Axis, NEW active, NEW m \in Nat, NEW n \in Nat,
           DecayRun(c, a, active, m + n).ok
    PROVE  DecayRun(c, a, active, m).ok
<1> DEFINE Good == {k \in Nat : DecayRun(c, a, active, m + k).ok => DecayRun(c, a, active, m).ok}
<1>1. 0 \in Good
  <2>1. m + 0 = m
    OBVIOUS
  <2> QED BY <2>1
<1>2. ASSUME NEW k \in Nat, k \in Good PROVE k + 1 \in Good
  <2>1. m + k \in Nat /\ (m + k) + 1 = m + (k + 1)
    OBVIOUS
  <2> DEFINE s   == DecayRun(c, a, active, m + k)
             day == c.lastDecayDay[a] + ((m + k) + 1)
  <2>2. DecayRun(c, a, active, m + (k + 1)) = DecayDay(s, c, day, active)
    BY <2>1, DecayRunUnfolds
  <2> HIDE DEF day
  <2>3. DecayDay(s, c, day, active).ok => s.ok
    BY DEF DecayDay
  <2> QED BY <1>2, <2>2, <2>3
<1> HIDE DEF Good
<1>3. n \in Good
  BY <1>1, <1>2, NatSetInduction
<1> QED BY <1>3 DEF Good

-----------------------------------------------------------------------------
(* A settled axis. *)

\* What neither decay nor volunteer weeks touch.
SameMembership(c, d) ==
    /\ d.isCitizen = c.isCitizen /\ d.joinDay = c.joinDay
    /\ d.sabbathOffset = c.sabbathOffset /\ d.lockedKWR = c.lockedKWR

\* A call settles at most the limit of days, and none that is not over.
LEMMA DaysToSettleType ==
    ASSUME NEW c \in Citizen, NEW a \in Axis, NEW today \in Nat
    PROVE  /\ DaysToSettle(c, a, today) \in Nat
           /\ DaysToSettle(c, a, today) <= MAX_DECAY_DAYS_PER_CALL
           /\ \/ DaysToSettle(c, a, today) = 0
              \/ c.lastDecayDay[a] + DaysToSettle(c, a, today) <= today
<1>1. c.lastDecayDay[a] \in Nat
  BY DEF Citizen
<1> QED BY <1>1, ConstantsAssumption DEF DaysToSettle, Lesser

\* Settling an axis changes that axis only: less honor, a later day that is not
\* in the future, a higher rate.
DecayedFacts(c, a, today, d) ==
    /\ d \in Citizen
    /\ SameMembership(c, d)
    /\ d.volunteerWeeks = c.volunteerWeeks
    /\ d.lastProcessedWeek = c.lastProcessedWeek
    /\ d.volunteerMultBP = c.volunteerMultBP
    /\ d.baseHonor[a] <= c.baseHonor[a]
    /\ d.lastDecayDay[a] >= c.lastDecayDay[a]
    /\ d.lastDecayDay[a] = c.lastDecayDay[a] \/ d.lastDecayDay[a] <= today
    /\ d.decayRateAtLastDay[a] >= c.decayRateAtLastDay[a]
    /\ \A b \in Axis \ {a} : /\ d.baseHonor[b] = c.baseHonor[b]
                             /\ d.lastDecayDay[b] = c.lastDecayDay[b]
                             /\ d.decayRateAtLastDay[b] = c.decayRateAtLastDay[b]

\* Settling any axis of any citizen has the facts above (_applyDecay).
LEMMA DecayedType ==
    ASSUME NEW c \in Citizen, NEW a \in Axis, NEW active, NEW today \in Nat
    PROVE  /\ DecayedFacts(c, a, today, Decayed(c, a, active, today).citizen)
           /\ Decayed(c, a, active, today).ok \in BOOLEAN
<1> DEFINE n    == DaysToSettle(c, a, today)
           last == DecayRun(c, a, active, n)
           d    == [c EXCEPT !.baseHonor[a]          = last.honor,
                             !.lastDecayDay[a]       = @ + n,
                             !.decayRateAtLastDay[a] = last.rate]
<1>1. Decayed(c, a, active, today).citizen = d /\ Decayed(c, a, active, today).ok = last.ok
  BY DEF Decayed
<1>2. n \in Nat /\ (n = 0 \/ c.lastDecayDay[a] + n <= today)
  BY DaysToSettleType
<1>3. last \in DecayState(c.baseHonor[a], c.decayRateAtLastDay[a])
  BY <1>2, DecayRunType
<1> HIDE DEF n, last
<1>4. /\ last.honor \in 0..c.baseHonor[a]
      /\ last.rate \in c.decayRateAtLastDay[a]..BASIS_POINTS
      /\ last.ok \in BOOLEAN
  BY <1>3 DEF DecayState
<1>5. /\ c.baseHonor \in [Axis -> Uint]
      /\ c.lastDecayDay \in [Axis -> Nat]
      /\ c.decayRateAtLastDay \in [Axis -> 0..BASIS_POINTS]
  BY DEF Citizen
<1>6. last.honor \in Uint /\ last.rate \in 0..BASIS_POINTS /\ c.lastDecayDay[a] + n \in Nat
  BY <1>2, <1>4, <1>5, ConstantsAssumption DEF Uint
<1>7. d \in Citizen
  BY <1>6 DEF Citizen
<1>8. /\ d.baseHonor[a] = last.honor
      /\ d.lastDecayDay[a] = c.lastDecayDay[a] + n
      /\ d.decayRateAtLastDay[a] = last.rate
      /\ \A b \in Axis \ {a} : /\ d.baseHonor[b] = c.baseHonor[b]
                               /\ d.lastDecayDay[b] = c.lastDecayDay[b]
                               /\ d.decayRateAtLastDay[b] = c.decayRateAtLastDay[b]
  BY <1>5 DEF Citizen
<1>9. /\ SameMembership(c, d)
      /\ d.volunteerWeeks = c.volunteerWeeks
      /\ d.lastProcessedWeek = c.lastProcessedWeek
      /\ d.volunteerMultBP = c.volunteerMultBP
  BY DEF SameMembership, Citizen
<1> HIDE DEF d
<1>10. DecayedFacts(c, a, today, d)
  BY <1>2, <1>4, <1>5, <1>7, <1>8, <1>9 DEF DecayedFacts, Uint
<1> QED BY <1>1, <1>4, <1>10

\* A settled axis stands where the loop ended (_applyDecay).
LEMMA DecayedIs ==
    ASSUME NEW c \in Citizen, NEW a \in Axis, NEW active, NEW today \in Nat,
           NEW n, n = DaysToSettle(c, a, today),
           NEW d, d = Decayed(c, a, active, today).citizen
    PROVE  /\ Advanced(c, d, a, n) /\ d.isCitizen = c.isCitizen
           /\ d.baseHonor[a] = DecayRun(c, a, active, n).honor
           /\ d.decayRateAtLastDay[a] = DecayRun(c, a, active, n).rate
           /\ Decayed(c, a, active, today).ok = DecayRun(c, a, active, n).ok
<1> DEFINE last == DecayRun(c, a, active, n)
           e    == [c EXCEPT !.baseHonor[a]          = last.honor,
                             !.lastDecayDay[a]       = @ + n,
                             !.decayRateAtLastDay[a] = last.rate]
<1>1. d = e /\ Decayed(c, a, active, today).ok = last.ok
  BY DEF Decayed
<1> HIDE DEF last
<1>2. /\ c.baseHonor \in [Axis -> Uint]
      /\ c.lastDecayDay \in [Axis -> Nat]
      /\ c.decayRateAtLastDay \in [Axis -> 0..BASIS_POINTS]
  BY DEF Citizen
<1>3. /\ e.joinDay = c.joinDay /\ e.sabbathOffset = c.sabbathOffset /\ e.isCitizen = c.isCitizen
      /\ e.baseHonor[a] = last.honor
      /\ e.lastDecayDay[a] = c.lastDecayDay[a] + n
      /\ e.decayRateAtLastDay[a] = last.rate
  BY <1>2 DEF Citizen
<1> HIDE DEF e
<1> QED BY <1>1, <1>3 DEF Advanced, last

\* Settling an axis without overflow leaves it as the view shows it.
LEMMA DecayedIsView ==
    ASSUME NEW c \in Citizen, NEW a \in Axis, NEW active, NEW today \in Nat,
           NEW n, n = DaysToSettle(c, a, today), Decayed(c, a, active, today).ok,
           NEW d, d = Decayed(c, a, active, today).citizen
    PROVE  Advanced(c, d, a, n) /\ ViewStart(d, a) = ViewRun(c, a, active, n)
<1>1. n \in Nat
  BY DaysToSettleType
<1> DEFINE run == DecayRun(c, a, active, n)
           view == ViewRun(c, a, active, n)
<1>2. /\ Advanced(c, d, a, n)
      /\ d.baseHonor[a] = run.honor /\ d.decayRateAtLastDay[a] = run.rate
      /\ run.ok
  BY DecayedIs
<1>3. run.honor = view.honor /\ run.rate = view.rate
  BY <1>1, <1>2, ViewIsDecay
<1>4. view = [rate |-> view.rate, honor |-> view.honor]
  <2>1. view \in ViewState(c.baseHonor[a], c.decayRateAtLastDay[a])
    BY <1>1, ViewRunUnfolds
  <2> HIDE DEF view
  <2> QED BY <2>1 DEF ViewState
<1> HIDE DEF view, run
<1>5. ViewStart(d, a) = view
  BY <1>2, <1>3, <1>4 DEF ViewStart
<1> QED BY <1>2, <1>5 DEF view

\* Decay that is settled earlier, and again later, is decay settled at once
\* (_applyDecay, split by callers and by the limit of days).
LEMMA DecaySplits ==
    ASSUME NEW c \in Citizen, NEW a \in Axis, NEW active, NEW day \in Nat, NEW today \in Nat,
           NEW d, d = Decayed(c, a, active, day).citizen,
           NEW e, e = Decayed(d, a, active, today).citizen
    PROVE  LET days  == e.lastDecayDay[a] - c.lastDecayDay[a]
               whole == DecayRun(c, a, active, days)
           IN  whole.ok => /\ e.baseHonor[a] = whole.honor
                           /\ e.decayRateAtLastDay[a] = whole.rate
<1> DEFINE m     == DaysToSettle(c, a, day)
           n     == DaysToSettle(d, a, today)
           days  == e.lastDecayDay[a] - c.lastDecayDay[a]
           whole == DecayRun(c, a, active, days)
<1>1. d \in Citizen
  BY DecayedType DEF DecayedFacts
<1>2. m \in Nat /\ n \in Nat
  BY <1>1, DaysToSettleType
<1>3. /\ Advanced(c, d, a, m)
      /\ d.baseHonor[a] = DecayRun(c, a, active, m).honor
      /\ d.decayRateAtLastDay[a] = DecayRun(c, a, active, m).rate
  BY DecayedIs
<1>4. /\ Advanced(d, e, a, n)
      /\ e.baseHonor[a] = DecayRun(d, a, active, n).honor
      /\ e.decayRateAtLastDay[a] = DecayRun(d, a, active, n).rate
  BY <1>1, DecayedIs
<1> HIDE DEF m, n
<1>5. days = m + n
  <2>1. c.lastDecayDay[a] \in Nat
    BY DEF Citizen
  <2> QED BY <1>2, <1>3, <1>4, <2>1 DEF Advanced
<1>6. SUFFICES ASSUME whole.ok
               PROVE  e.baseHonor[a] = whole.honor /\ e.decayRateAtLastDay[a] = whole.rate
  OBVIOUS
<1>7. DecayRun(c, a, active, m).ok
  BY <1>2, <1>5, <1>6, DecayRunWasOk
<1>8. DecayStart(d, a) = DecayRun(c, a, active, m)
  <2> DEFINE run == DecayRun(c, a, active, m)
  <2>1. run \in DecayState(c.baseHonor[a], c.decayRateAtLastDay[a])
    BY <1>2, DecayRunType
  <2> HIDE DEF run
  <2>2. run = [rate |-> run.rate, honor |-> run.honor, ok |-> run.ok] /\ run.ok \in BOOLEAN
    BY <2>1 DEF DecayState
  <2>3. run.ok = TRUE
    BY <1>7, <2>2 DEF run
  <2>4. d.baseHonor[a] = run.honor /\ d.decayRateAtLastDay[a] = run.rate
    BY <1>3 DEF run
  <2>5. DecayStart(d, a) = run
    BY <2>2, <2>3, <2>4 DEF DecayStart
  <2> QED BY <2>5 DEF run
<1>9. DecayRun(d, a, active, n) = whole
  BY <1>1, <1>2, <1>3, <1>5, <1>8, DecayRunContinues
<1> QED BY <1>4, <1>9

-----------------------------------------------------------------------------
(* The loop over the volunteer weeks. *)

WeekState == [capital : Nat, mult : Nat, weeks : Nat, counted : SUBSET Nat, ok : BOOLEAN]

WeekStart(c) == [capital |-> c.baseHonor["CAPITAL"], mult |-> c.volunteerMultBP,
                 weeks |-> c.volunteerWeeks, counted |-> {}, ok |-> TRUE]

\* A volunteer week earns at least the minimum bonus.
LEMMA CapitalBonusType ==
    ASSUME NEW capital \in Nat
    PROVE  CapitalBonus(capital) \in Nat /\ CapitalBonus(capital) >= VOLUNTEER_CAPITAL_MIN
<1>1. (capital * VOLUNTEER_CAPITAL_PCT) \div BASIS_POINTS \in Nat
  BY QuotientNat, ConstantsAssumption
<1> QED BY <1>1, ConstantsAssumption DEF CapitalBonus

\* A volunteer week never lowers the multiplier.
LEMMA GrownMultType ==
    ASSUME NEW mult \in Nat
    PROVE  GrownMult(mult) \in Nat /\ GrownMult(mult) >= mult
  BY ScaledUp, ConstantsAssumption DEF GrownMult

\* The stored state of a citizen is a state of the loop over weeks.
LEMMA WeekStartType ==
    ASSUME NEW c \in Citizen
    PROVE  WeekStart(c) \in WeekState
  BY ConstantsAssumption DEF WeekStart, WeekState, Citizen, Uint, Axis

\* The loop body maps states of the loop to states of the loop.
LEMMA VolunteerWeekType ==
    ASSUME NEW s \in WeekState, NEW week \in Nat, NEW volunteer
    PROVE  VolunteerWeek(s, week, volunteer) \in WeekState
<1>1. /\ s.capital \in Nat /\ s.mult \in Nat /\ s.weeks \in Nat
      /\ s.counted \in SUBSET Nat /\ s.ok \in BOOLEAN
  BY DEF WeekState
<1>2. CapitalBonus(s.capital) \in Nat /\ GrownMult(s.mult) \in Nat
  BY <1>1, CapitalBonusType, GrownMultType
<1>3. s.capital + CapitalBonus(s.capital) \in Nat /\ s.weeks + 1 \in Nat
      /\ s.counted \cup {week} \in SUBSET Nat
  BY <1>1, <1>2
<1> QED BY <1>2, <1>3 DEF VolunteerWeek, WeekState

\* The loop, unfolded week by week.
LEMMA WeeksRunUnfolds ==
    ASSUME NEW c \in Citizen, NEW volunteer
    PROVE  /\ WeeksRun(c, volunteer, 0) = WeekStart(c)
           /\ \A n \in Nat : WeeksRun(c, volunteer, n + 1)
                  = VolunteerWeek(WeeksRun(c, volunteer, n), c.lastProcessedWeek + (n + 1), volunteer)
<1> DEFINE mark  == c.lastProcessedWeek
           start == WeekStart(c)
           S     == WeekState
           step  == [k \in PosNat |-> [s \in S |-> VolunteerWeek(s, mark + k, volunteer)]]
           IsRun(f, n) == f = [k \in 0..n |-> IF k = 0 THEN start
                                             ELSE VolunteerWeek(f[k-1], mark + k, volunteer)]
<1>1. start \in S /\ mark \in Nat
  BY WeekStartType DEF Citizen
<1>2. \A n \in Nat : WeeksRun(c, volunteer, n) = (CHOOSE f : IsRun(f, n))[n]
  BY DEF WeeksRun, WeekStart
<1> HIDE DEF start, S, mark
<1>3. step \in [PosNat -> [S -> S]]
  <2>1. \A k \in PosNat : mark + k \in Nat
    BY <1>1
  <2> QED BY <2>1, VolunteerWeekType DEF S
<1> HIDE DEF step
<1>4. PICK g : IsLoop(g, S, start, step)
  BY <1>1, <1>3, LoopRuns
<1>5. /\ g \in [Nat -> S] /\ g[0] = start
      /\ \A n \in Nat : g[n+1] = VolunteerWeek(g[n], mark + (n + 1), volunteer)
  <2>1. \A n \in Nat : n + 1 \in PosNat
    OBVIOUS
  <2>2. \A n \in PosNat, s \in S : step[n][s] = VolunteerWeek(s, mark + n, volunteer)
    BY DEF step
  <2> QED BY <1>4, <2>1, <2>2 DEF IsLoop
<1>6. ASSUME NEW n \in Nat PROVE WeeksRun(c, volunteer, n) = g[n]
  <2>1. IsRun([k \in 0..n |-> g[k]], n)
    <3>1. \A k \in 0..n : k # 0 => k - 1 \in Nat /\ k = (k - 1) + 1 /\ k - 1 \in 0..n
      OBVIOUS
    <3>2. \A k \in 0..n : k # 0 => g[k] = VolunteerWeek(g[k-1], mark + k, volunteer)
      BY <1>5, <3>1
    <3> QED BY <1>5, <3>1, <3>2
  <2> DEFINE run == CHOOSE f : IsRun(f, n)
  <2>2. IsRun(run, n)
    BY <2>1
  <2>3. WeeksRun(c, volunteer, n) = run[n]
    BY <1>2
  <2> HIDE DEF run
  <2>4. /\ run[0] = start
        /\ \A k \in 1..n : run[k] = VolunteerWeek(run[k-1], mark + k, volunteer)
    BY <2>2
  <2>5. \A k \in 1..n : k - 1 \in Nat /\ k = (k - 1) + 1
    OBVIOUS
  <2>6. Follows(run, n, g)
    BY <1>5, <2>4, <2>5 DEF Follows
  <2> QED BY <2>3, <2>6, FollowsTo
<1> QED BY <1>5, <1>6 DEF start, mark

-----------------------------------------------------------------------------
(* The multiplier of the view, and of the weeks. *)

\* One week of the view's loop.
MultWeek(m, week, volunteer) == IF Qualified(week, volunteer) THEN GrownMult(m) ELSE m

\* The view is that loop over the pending weeks.
LEMMA MultViewIsRun ==
    ASSUME NEW c, NEW volunteer, NEW today
    PROVE  CurrentMultBP(c, volunteer, today) = MultRun(c, volunteer, WeeksPending(c, today))
  BY DEF CurrentMultBP

\* The loop, unfolded week by week.
LEMMA MultRunUnfolds ==
    ASSUME NEW c \in Citizen, NEW volunteer
    PROVE  /\ MultRun(c, volunteer, 0) = c.volunteerMultBP
           /\ \A n \in Nat : MultRun(c, volunteer, n) \in Nat
           /\ \A n \in Nat : MultRun(c, volunteer, n + 1)
                  = MultWeek(MultRun(c, volunteer, n), c.lastProcessedWeek + (n + 1), volunteer)
<1> DEFINE mark  == c.lastProcessedWeek
           start == c.volunteerMultBP
           step  == [k \in PosNat |-> [m \in Nat |-> MultWeek(m, mark + k, volunteer)]]
           IsRun(f, n) == f = [k \in 0..n |-> IF k = 0 THEN start
                                  ELSE IF Qualified(mark + k, volunteer)
                                       THEN GrownMult(f[k-1]) ELSE f[k-1]]
<1>1. start \in Nat
  BY ConstantsAssumption DEF Citizen, Uint
<1>2. \A n \in Nat : MultRun(c, volunteer, n) = (CHOOSE f : IsRun(f, n))[n]
  BY DEF MultRun
<1> HIDE DEF start, mark
<1>3. step \in [PosNat -> [Nat -> Nat]]
  BY GrownMultType DEF MultWeek
<1> HIDE DEF step
<1>4. PICK g : IsLoop(g, Nat, start, step)
  BY <1>1, <1>3, LoopRuns
<1>5. /\ g \in [Nat -> Nat] /\ g[0] = start
      /\ \A n \in Nat : g[n+1] = MultWeek(g[n], mark + (n + 1), volunteer)
  <2>1. \A n \in Nat : n + 1 \in PosNat
    OBVIOUS
  <2>2. \A n \in PosNat, m \in Nat : step[n][m] = MultWeek(m, mark + n, volunteer)
    BY DEF step
  <2> QED BY <1>4, <2>1, <2>2 DEF IsLoop
<1>6. ASSUME NEW n \in Nat PROVE MultRun(c, volunteer, n) = g[n]
  <2>1. IsRun([k \in 0..n |-> g[k]], n)
    <3>1. \A k \in 0..n : k # 0 => k - 1 \in Nat /\ k = (k - 1) + 1 /\ k - 1 \in 0..n
      OBVIOUS
    <3>2. \A k \in 0..n : k # 0 => g[k] = MultWeek(g[k-1], mark + k, volunteer)
      BY <1>5, <3>1
    <3> QED BY <1>5, <3>1, <3>2 DEF MultWeek
  <2> DEFINE run == CHOOSE f : IsRun(f, n)
  <2>2. IsRun(run, n)
    BY <2>1
  <2>3. MultRun(c, volunteer, n) = run[n]
    BY <1>2
  <2> HIDE DEF run
  <2>4. /\ run[0] = start
        /\ \A k \in 1..n : run[k] = MultWeek(run[k-1], mark + k, volunteer)
    BY <2>2 DEF MultWeek
  <2>5. \A k \in 1..n : k - 1 \in Nat /\ k = (k - 1) + 1
    OBVIOUS
  <2>6. Follows(run, n, g)
    BY <1>5, <2>4, <2>5 DEF Follows
  <2> QED BY <2>3, <2>6, FollowsTo
<1> QED BY <1>5, <1>6 DEF start, mark

\* More weeks never leave a lower multiplier.
LEMMA MultRunGrows ==
    ASSUME NEW c \in Citizen, NEW volunteer, NEW m \in Nat, NEW n \in Nat, m <= n
    PROVE  MultRun(c, volunteer, m) <= MultRun(c, volunteer, n)
<1> DEFINE M(k)  == MultRun(c, volunteer, k)
           Good == {k \in Nat : M(m) <= M(m + k)}
<1>1. \A k \in Nat : M(k) \in Nat
  BY MultRunUnfolds
<1>2. \A k \in Nat : M(k) <= M(k + 1)
  <2> SUFFICES ASSUME NEW k \in Nat PROVE M(k) <= M(k + 1)
    OBVIOUS
  <2>1. M(k + 1) = MultWeek(M(k), c.lastProcessedWeek + (k + 1), volunteer)
    BY MultRunUnfolds
  <2> HIDE DEF M
  <2> QED BY <1>1, <2>1, GrownMultType DEF MultWeek
<1> HIDE DEF M
<1>3. 0 \in Good
  BY <1>1
<1>4. ASSUME NEW k \in Nat, k \in Good PROVE k + 1 \in Good
  <2>1. m + k \in Nat /\ m + (k + 1) = (m + k) + 1
    OBVIOUS
  <2>2. M(m) \in Nat /\ M(m + k) \in Nat /\ M((m + k) + 1) \in Nat /\ M(m) <= M(m + k)
    BY <1>1, <1>4, <2>1
  <2>3. M(m + k) <= M((m + k) + 1)
    BY <1>2, <2>1
  <2>4. M(m) <= M((m + k) + 1)
    BY <2>2, <2>3
  <2> QED BY <2>1, <2>4
<1> HIDE DEF Good
<1>5. Nat \subseteq Good
  BY <1>3, <1>4, NatSetInduction
<1>6. n - m \in Nat /\ m + (n - m) = n
  OBVIOUS
<1>7. M(m) <= M(m + (n - m))
  BY <1>5, <1>6 DEF Good
<1> QED BY <1>6, <1>7 DEF M

\* The loop of one who has m of the weeks behind goes on where that of c is after m.
LEMMA MultRunContinues ==
    ASSUME NEW c \in Citizen, NEW d \in Citizen, NEW volunteer, NEW m \in Nat, NEW n \in Nat,
           d.lastProcessedWeek = c.lastProcessedWeek + m,
           d.volunteerMultBP = MultRun(c, volunteer, m)
    PROVE  MultRun(d, volunteer, n) = MultRun(c, volunteer, m + n)
<1> DEFINE Good == {k \in Nat : MultRun(d, volunteer, k) = MultRun(c, volunteer, m + k)}
<1>1. 0 \in Good
  <2>1. m + 0 = m
    OBVIOUS
  <2> QED BY <2>1, MultRunUnfolds
<1>2. ASSUME NEW k \in Nat, k \in Good PROVE k + 1 \in Good
  <2>1. m + k \in Nat /\ (m + k) + 1 = m + (k + 1)
    OBVIOUS
  <2>2. c.lastProcessedWeek \in Nat
    BY DEF Citizen
  <2>3. d.lastProcessedWeek + (k + 1) = c.lastProcessedWeek + ((m + k) + 1)
    BY <2>2
  <2>4. MultRun(d, volunteer, k + 1)
          = MultWeek(MultRun(d, volunteer, k), d.lastProcessedWeek + (k + 1), volunteer)
    BY MultRunUnfolds
  <2>5. MultRun(c, volunteer, (m + k) + 1)
          = MultWeek(MultRun(c, volunteer, m + k), c.lastProcessedWeek + ((m + k) + 1), volunteer)
    BY <2>1, MultRunUnfolds
  <2> QED BY <1>2, <2>1, <2>3, <2>4, <2>5
<1> HIDE DEF Good
<1>3. Nat \subseteq Good
  BY <1>1, <1>2, NatSetInduction
<1> QED BY <1>3 DEF Good

\* The loop of the settlement leaves the multiplier of the view's, unless it overflows.
LEMMA WeeksRunMult ==
    ASSUME NEW c \in Citizen, NEW volunteer, NEW n \in Nat, WeeksRun(c, volunteer, n).ok
    PROVE  WeeksRun(c, volunteer, n).mult = MultRun(c, volunteer, n)
<1> DEFINE R(k)  == WeeksRun(c, volunteer, k)
           Good == {k \in Nat : R(k).ok => R(k).mult = MultRun(c, volunteer, k)}
<1>1. 0 \in Good
  BY WeeksRunUnfolds, MultRunUnfolds DEF WeekStart
<1>2. ASSUME NEW k \in Nat, k \in Good PROVE k + 1 \in Good
  <2> DEFINE week == c.lastProcessedWeek + (k + 1)
  <2>1. /\ R(k + 1) = VolunteerWeek(R(k), week, volunteer)
        /\ MultRun(c, volunteer, k + 1) = MultWeek(MultRun(c, volunteer, k), week, volunteer)
    BY WeeksRunUnfolds, MultRunUnfolds
  <2>2. SUFFICES ASSUME R(k + 1).ok PROVE R(k + 1).mult = MultRun(c, volunteer, k + 1)
    OBVIOUS
  <2> HIDE DEF week, R
  <2>3. R(k).ok
    BY <2>1, <2>2 DEF VolunteerWeek
  <2>4. R(k).mult = MultRun(c, volunteer, k)
    BY <1>2, <2>3
  <2>5. R(k + 1).mult = MultWeek(R(k).mult, week, volunteer)
    BY <2>1, <2>3 DEF VolunteerWeek, MultWeek
  <2> QED BY <2>1, <2>4, <2>5
<1> HIDE DEF Good
<1>3. n \in Good
  BY <1>1, <1>2, NatSetInduction
<1> QED BY <1>3 DEF Good

\* When the loop of the settlement goes through, so does that of the view: the
\* bonus of the capital axis is computed by the settlement alone.
LEMMA WeeksFitWhenViewed ==
    ASSUME NEW c \in Citizen, NEW volunteer, NEW n \in Nat, WeeksRun(c, volunteer, n).ok
    PROVE  \A k \in 1..n :
              Qualified(c.lastProcessedWeek + k, volunteer)
                => MultRun(c, volunteer, k - 1) * VOLUNTEER_BONUS_NUM <= MAX_UINT
<1> DEFINE R(k)    == WeeksRun(c, volunteer, k)
           M(k)    == MultRun(c, volunteer, k)
           Fits(k) == Qualified(c.lastProcessedWeek + k, volunteer)
                        => M(k - 1) * VOLUNTEER_BONUS_NUM <= MAX_UINT
           Good    == {k \in Nat : R(k).ok => \A j \in 1..k : Fits(j)}
<1>1. 0 \in Good
  <2>1. 1..0 = {}
    OBVIOUS
  <2> QED BY <2>1
<1>2. ASSUME NEW k \in Nat, k \in Good PROVE k + 1 \in Good
  <2> DEFINE week == c.lastProcessedWeek + (k + 1)
  <2>1. R(k + 1) = VolunteerWeek(R(k), week, volunteer)
    BY WeeksRunUnfolds
  <2>2. R(k).ok => R(k).mult = M(k)
    BY WeeksRunMult
  <2>3. Fits(k + 1) <=> (Qualified(week, volunteer) => M(k) * VOLUNTEER_BONUS_NUM <= MAX_UINT)
    <3>1. (k + 1) - 1 = k
      OBVIOUS
    <3> HIDE DEF M
    <3> QED BY <3>1
  <2> HIDE DEF R, M, week, Fits
  <2>4. R(k + 1).ok => R(k).ok /\ Fits(k + 1)
    BY <2>1, <2>2, <2>3 DEF VolunteerWeek
  <2>5. \A j : j \in 1..(k + 1) <=> j \in 1..k \/ j = k + 1
    OBVIOUS
  <2>6. R(k).ok => \A j \in 1..k : Fits(j)
    BY <1>2
  <2>7. R(k + 1).ok => \A j \in 1..(k + 1) : Fits(j)
    BY <2>4, <2>5, <2>6, Zenon
  <2> QED BY <2>7
<1> HIDE DEF Good
<1>3. n \in Good
  BY <1>1, <1>2, NatSetInduction
<1> QED BY <1>3 DEF Good

-----------------------------------------------------------------------------
(* What the loop over weeks leaves. *)

\* What k iterations have done: only qualified weeks after the last processed one
\* are counted, each once; nothing is lost, and nothing is gained without a week.
WeekFacts(c, volunteer, k, s) ==
    /\ s \in WeekState
    /\ s.ok => s.capital \in Uint /\ s.mult \in Uint
    /\ s.capital >= c.baseHonor["CAPITAL"] + VOLUNTEER_CAPITAL_MIN * Cardinality(s.counted)
    /\ s.mult >= c.volunteerMultBP
    /\ \A week \in s.counted : /\ week > c.lastProcessedWeek
                               /\ week <= c.lastProcessedWeek + k
                               /\ Qualified(week, volunteer)
    /\ IsFiniteSet(s.counted)
    /\ s.weeks = c.volunteerWeeks + Cardinality(s.counted)
    /\ s.counted = {} => s.capital = c.baseHonor["CAPITAL"] /\ s.mult = c.volunteerMultBP

\* Before the first iteration nothing has been counted.
LEMMA WeekFactsStart ==
    ASSUME NEW c \in Citizen, NEW volunteer
    PROVE  WeekFacts(c, volunteer, 0, WeekStart(c))
<1>1. /\ c.baseHonor["CAPITAL"] \in Uint /\ c.volunteerMultBP \in Uint
      /\ c.volunteerWeeks \in Nat
  BY DEF Citizen, Axis
<1>2. IsFiniteSet({}) /\ Cardinality({}) = 0
  BY FS_EmptySet
<1>3. VOLUNTEER_CAPITAL_MIN * 0 = 0
  BY ConstantsAssumption
<1> QED BY <1>1, <1>2, <1>3, WeekStartType, ConstantsAssumption DEF WeekFacts, WeekStart, Uint

\* One more week keeps the facts: it is new, and earns what it adds.
LEMMA WeekFactsStep ==
    ASSUME NEW c \in Citizen, NEW volunteer, NEW k \in Nat, NEW s, WeekFacts(c, volunteer, k, s)
    PROVE  WeekFacts(c, volunteer, k + 1,
                     VolunteerWeek(s, c.lastProcessedWeek + (k + 1), volunteer))
<1> DEFINE week == c.lastProcessedWeek + (k + 1)
           t    == VolunteerWeek(s, week, volunteer)
<1>1. /\ c.baseHonor["CAPITAL"] \in Nat /\ c.volunteerMultBP \in Nat
      /\ c.volunteerWeeks \in Nat /\ c.lastProcessedWeek \in Nat /\ week \in Nat
  BY ConstantsAssumption DEF Citizen, Axis, Uint
<1>2. /\ s \in WeekState
      /\ s.capital \in Nat /\ s.mult \in Nat /\ s.weeks \in Nat /\ s.counted \in SUBSET Nat
      /\ s.ok \in BOOLEAN
  BY DEF WeekFacts, WeekState
<1>3. t \in WeekState
  BY <1>1, <1>2, VolunteerWeekType
<1>4. CASE ~ (s.ok /\ Qualified(week, volunteer))
  <2>1. t = s
    BY <1>4 DEF VolunteerWeek
  <2>2. \A w \in s.counted : w <= c.lastProcessedWeek + k => w <= c.lastProcessedWeek + (k + 1)
    BY <1>1, <1>2
  <2> QED BY <2>1, <2>2 DEF WeekFacts
<1>5. CASE s.ok /\ Qualified(week, volunteer)
  <2> DEFINE bonus == CapitalBonus(s.capital)
             grown == GrownMult(s.mult)
  <2>1. /\ t.capital = s.capital + bonus
        /\ t.mult = grown
        /\ t.weeks = s.weeks + 1
        /\ t.counted = s.counted \cup {week}
        /\ t.ok => /\ s.mult * VOLUNTEER_BONUS_NUM <= MAX_UINT
                   /\ s.capital + bonus <= MAX_UINT
    BY <1>5 DEF VolunteerWeek
  <2>2. bonus \in Nat /\ bonus >= VOLUNTEER_CAPITAL_MIN /\ grown \in Nat /\ grown >= s.mult
    BY <1>2, CapitalBonusType, GrownMultType, ConstantsAssumption
  <2>3. t.ok => t.capital \in Uint /\ t.mult \in Uint
    <3>1. s.mult * VOLUNTEER_BONUS_NUM \in Nat
      BY <1>2, ConstantsAssumption
    <3>2. (s.mult * VOLUNTEER_BONUS_NUM) \div VOLUNTEER_BONUS_DEN <= s.mult * VOLUNTEER_BONUS_NUM
      BY <3>1, ConstantsAssumption
    <3>3. t.ok => grown <= MAX_UINT
      BY <2>1, <2>2, <3>1, <3>2, ConstantsAssumption DEF GrownMult
    <3> QED BY <1>2, <2>1, <2>2, <3>3, ConstantsAssumption DEF Uint
  <2> HIDE DEF bonus, grown, t
  <2>4. t.mult >= c.volunteerMultBP
    BY <1>1, <1>2, <2>1, <2>2 DEF WeekFacts
  <2>5. \A w \in t.counted : /\ w > c.lastProcessedWeek
                             /\ w <= c.lastProcessedWeek + (k + 1)
                             /\ Qualified(w, volunteer)
    <3> SUFFICES ASSUME NEW w \in t.counted
                 PROVE /\ w > c.lastProcessedWeek
                       /\ w <= c.lastProcessedWeek + (k + 1)
                       /\ Qualified(w, volunteer)
      OBVIOUS
    <3>1. CASE w \in s.counted
      BY <1>1, <1>2, <3>1 DEF WeekFacts
    <3>2. CASE w = week
      BY <1>1, <1>5, <3>2
    <3> QED BY <2>1, <3>1, <3>2
  <2>6. week \notin s.counted
    <3>1. ~ (week <= c.lastProcessedWeek + k)
      BY <1>1
    <3> QED BY <3>1 DEF WeekFacts
  <2>7. IsFiniteSet(s.counted) /\ s.weeks = c.volunteerWeeks + Cardinality(s.counted)
    BY DEF WeekFacts
  <2>8. IsFiniteSet(t.counted) /\ Cardinality(t.counted) = Cardinality(s.counted) + 1
    BY <2>1, <2>6, <2>7, FS_AddElement
  <2>9. t.weeks = c.volunteerWeeks + Cardinality(t.counted)
    <3>1. Cardinality(s.counted) \in Nat
      BY <2>7, FS_CardinalityType
    <3> QED BY <1>1, <1>2, <2>1, <2>7, <2>8, <3>1
  <2>10. t.counted # {}
    BY <2>1
  <2>11. t.capital >= c.baseHonor["CAPITAL"] + VOLUNTEER_CAPITAL_MIN * Cardinality(t.counted)
    <3> DEFINE before == Cardinality(s.counted)
               h      == c.baseHonor["CAPITAL"]
    <3>1. before \in Nat
      BY <2>7, FS_CardinalityType
    <3>2. s.capital >= h + VOLUNTEER_CAPITAL_MIN * before
      BY DEF WeekFacts
    <3>3. Cardinality(t.counted) = before + 1
      BY <2>8
    <3> HIDE DEF before, h
    <3>4. VOLUNTEER_CAPITAL_MIN * (before + 1) = VOLUNTEER_CAPITAL_MIN * before + VOLUNTEER_CAPITAL_MIN
          /\ VOLUNTEER_CAPITAL_MIN * before \in Nat /\ VOLUNTEER_CAPITAL_MIN \in Nat
      BY <3>1, ConstantsAssumption
    <3>5. h \in Nat
      BY <1>1 DEF h
    <3>6. t.capital >= h + VOLUNTEER_CAPITAL_MIN * Cardinality(t.counted)
      BY <1>2, <2>1, <2>2, <3>2, <3>3, <3>4, <3>5
    <3> QED BY <3>6 DEF h
  <2> QED BY <1>3, <2>3, <2>4, <2>5, <2>8, <2>9, <2>10, <2>11 DEF WeekFacts, t, week
<1> QED BY <1>4, <1>5

\* The facts hold after any number of weeks.
LEMMA WeeksRunFacts ==
    ASSUME NEW c \in Citizen, NEW volunteer, NEW n \in Nat
    PROVE  WeekFacts(c, volunteer, n, WeeksRun(c, volunteer, n))
<1> DEFINE Good == {k \in Nat : WeekFacts(c, volunteer, k, WeeksRun(c, volunteer, k))}
<1>1. 0 \in Good
  BY WeeksRunUnfolds, WeekFactsStart
<1>2. ASSUME NEW k \in Nat, k \in Good PROVE k + 1 \in Good
  <2>1. WeekFacts(c, volunteer, k, WeeksRun(c, volunteer, k))
    BY <1>2
  <2>2. WeekFacts(c, volunteer, k + 1, VolunteerWeek(WeeksRun(c, volunteer, k),
                                          c.lastProcessedWeek + (k + 1), volunteer))
    BY <2>1, WeekFactsStep
  <2> QED BY <2>2, WeeksRunUnfolds
<1> HIDE DEF Good
<1>3. n \in Good
  BY <1>1, <1>2, NatSetInduction
<1> QED BY <1>3 DEF Good

\* A complete week ends on or before its day, and later days complete later weeks.
LEMMA LastCompleteWeekType ==
    ASSUME NEW through \in Nat
    PROVE  /\ LastCompleteWeek(through) \in Int
           /\ \A later \in Nat : through <= later
                 => LastCompleteWeek(through) <= LastCompleteWeek(later)
           /\ LastCompleteWeek(through) <= through \div DAYS_PER_WEEK
           /\ through \div DAYS_PER_WEEK \in Nat
  BY ConstantsAssumption DEF LastCompleteWeek

\* Processing the weeks touches the capital axis and the week fields only; the
\* week clock moves to the last complete week or stays, never back.
ProcessedFacts(c, volunteer, through, counted, d) ==
    /\ d \in Citizen
    /\ SameMembership(c, d)
    /\ d.lastDecayDay = c.lastDecayDay
    /\ d.decayRateAtLastDay = c.decayRateAtLastDay
    /\ \A a \in Axis \ {"CAPITAL"} : d.baseHonor[a] = c.baseHonor[a]
    /\ d.baseHonor["CAPITAL"]
          >= c.baseHonor["CAPITAL"] + VOLUNTEER_CAPITAL_MIN * Cardinality(counted)
    /\ d.volunteerMultBP >= c.volunteerMultBP
    /\ d.volunteerMultBP = MultRun(c, volunteer, WeeksPending(c, through))
    /\ d.lastProcessedWeek = c.lastProcessedWeek + WeeksPending(c, through)
    /\ d.lastProcessedWeek >= c.lastProcessedWeek
    /\ d.lastProcessedWeek >= LastCompleteWeek(through)
    /\ \/ d.lastProcessedWeek = c.lastProcessedWeek
       \/ d.lastProcessedWeek = LastCompleteWeek(through)
    /\ \A week \in counted : /\ week \in Nat
                             /\ week > c.lastProcessedWeek
                             /\ week <= d.lastProcessedWeek
                             /\ week <= LastCompleteWeek(through)
                             /\ Qualified(week, volunteer)
    /\ IsFiniteSet(counted)
    /\ d.volunteerWeeks = c.volunteerWeeks + Cardinality(counted)
    /\ counted = {} => /\ d.baseHonor["CAPITAL"] = c.baseHonor["CAPITAL"]
                       /\ d.volunteerMultBP = c.volunteerMultBP

\* Processing any citizen's weeks without overflow has the facts above (_processWeeks).
LEMMA WeeksProcessedType ==
    ASSUME NEW c \in Citizen, NEW volunteer, NEW through \in Nat,
           NEW p, p = WeeksProcessed(c, volunteer, through)
    PROVE  /\ p.ok \in BOOLEAN
           /\ p.ok => ProcessedFacts(c, volunteer, through, p.counted, p.citizen)
<1> DEFINE complete == LastCompleteWeek(through)
           pending  == complete - c.lastProcessedWeek
           n        == IF pending > 0 THEN pending ELSE 0
           last     == WeeksRun(c, volunteer, n)
           d        == [c EXCEPT !.baseHonor["CAPITAL"] = last.capital,
                                 !.volunteerMultBP      = last.mult,
                                 !.volunteerWeeks       = last.weeks,
                                 !.lastProcessedWeek    = @ + n]
<1>1. p.ok = last.ok /\ p.counted = last.counted /\ p.citizen = d
  BY DEF WeeksProcessed
<1>0. n = WeeksPending(c, through)
  BY DEF WeeksPending
<1>2. complete \in Int
  BY LastCompleteWeekType
<1>3. /\ c.lastProcessedWeek \in Nat /\ c.volunteerWeeks \in Nat
      /\ c.baseHonor \in [Axis -> Uint] /\ c.volunteerMultBP \in Uint
  BY DEF Citizen
<1> HIDE DEF complete
<1>4. /\ n \in Nat
      /\ c.lastProcessedWeek + n >= complete
      /\ n = 0 \/ c.lastProcessedWeek + n = complete
  BY <1>2, <1>3
<1> HIDE DEF n
<1>5. WeekFacts(c, volunteer, n, last) /\ (last.ok => last.mult = MultRun(c, volunteer, n))
  BY <1>4, WeeksRunFacts, WeeksRunMult
<1> HIDE DEF last
<1>6. /\ last.capital \in Nat /\ last.mult \in Nat /\ last.weeks \in Nat
      /\ last.counted \in SUBSET Nat /\ last.ok \in BOOLEAN
  BY <1>5 DEF WeekFacts, WeekState
<1>7. ASSUME last.ok PROVE d \in Citizen
  <2>1. last.capital \in Uint /\ last.mult \in Uint
    BY <1>5, <1>7 DEF WeekFacts
  <2>2. c.lastProcessedWeek + n \in Nat
    BY <1>3, <1>4
  <2> QED BY <1>6, <2>1, <2>2 DEF Citizen
<1>8. /\ SameMembership(c, d)
      /\ d.lastDecayDay = c.lastDecayDay
      /\ d.decayRateAtLastDay = c.decayRateAtLastDay
      /\ \A a \in Axis \ {"CAPITAL"} : d.baseHonor[a] = c.baseHonor[a]
      /\ d.baseHonor["CAPITAL"] = last.capital
      /\ d.volunteerMultBP = last.mult
      /\ d.volunteerWeeks = last.weeks
      /\ d.lastProcessedWeek = c.lastProcessedWeek + n
  BY <1>3 DEF SameMembership, Citizen, Axis
<1> HIDE DEF d
<1>9. /\ last.capital >= c.baseHonor["CAPITAL"] + VOLUNTEER_CAPITAL_MIN * Cardinality(last.counted)
      /\ last.mult >= c.volunteerMultBP
      /\ IsFiniteSet(last.counted)
      /\ last.weeks = c.volunteerWeeks + Cardinality(last.counted)
      /\ last.counted = {} => /\ last.capital = c.baseHonor["CAPITAL"]
                              /\ last.mult = c.volunteerMultBP
  BY <1>5 DEF WeekFacts
<1>10. \A week \in last.counted : /\ week \in Nat
                                  /\ week > c.lastProcessedWeek
                                  /\ week <= c.lastProcessedWeek + n
                                  /\ week <= complete
                                  /\ Qualified(week, volunteer)
  <2> SUFFICES ASSUME NEW week \in last.counted
               PROVE /\ week \in Nat
                     /\ week > c.lastProcessedWeek
                     /\ week <= c.lastProcessedWeek + n
                     /\ week <= complete
                     /\ Qualified(week, volunteer)
    OBVIOUS
  <2>1. /\ week \in Nat /\ week > c.lastProcessedWeek /\ week <= c.lastProcessedWeek + n
        /\ Qualified(week, volunteer)
    BY <1>5, <1>6 DEF WeekFacts
  <2>2. week <= complete
    BY <1>2, <1>3, <1>4, <2>1
  <2> QED BY <2>1, <2>2
<1>11. ASSUME last.ok PROVE ProcessedFacts(c, volunteer, through, last.counted, d)
  <2>1. /\ d.lastProcessedWeek >= c.lastProcessedWeek
        /\ d.lastProcessedWeek >= complete
        /\ d.lastProcessedWeek = c.lastProcessedWeek \/ d.lastProcessedWeek = complete
    BY <1>3, <1>4, <1>8
  <2>2. d.volunteerMultBP = MultRun(c, volunteer, WeeksPending(c, through))
        /\ d.lastProcessedWeek = c.lastProcessedWeek + WeeksPending(c, through)
    BY <1>0, <1>5, <1>8, <1>11
  <2> QED BY <1>7, <1>8, <1>9, <1>10, <1>11, <2>1, <2>2 DEF ProcessedFacts, complete
<1> QED BY <1>1, <1>6, <1>11

-----------------------------------------------------------------------------
(* The square root. *)

\* r is the integer square root of y.
IsRoot(r, y) == r * r <= y /\ y < (r + 1) * (r + 1)

\* One pass of Newton's iteration.
Newton(y, z) == (y \div z + z) \div 2

\* Every natural has an integer square root.
LEMMA RootExists ==
    ASSUME NEW y \in Nat
    PROVE  \E r \in Nat : IsRoot(r, y)
<1> DEFINE Over == {k \in Nat : y < (k + 1) * (k + 1)}
<1>1. y \in Over
  <2>1. (y + 1) * (y + 1) >= y + 1
    OBVIOUS
  <2> QED BY <2>1
<1>2. PICK r \in Over : \A k \in Over : r <= k
  BY <1>1, LeastNatural
<1>3. r * r <= y
  <2>1. CASE r = 0
    BY <2>1
  <2>2. CASE r # 0
    <3>1. r - 1 \in Nat /\ ~ (r <= r - 1) /\ (r - 1) + 1 = r
      BY <2>2
    <3>2. r - 1 \notin Over
      BY <1>2, <3>1
    <3>3. ~ (y < ((r - 1) + 1) * ((r - 1) + 1))
      BY <3>1, <3>2
    <3>4. ~ (y < r * r) /\ r * r \in Nat
      BY <3>1, <3>3
    <3> QED BY <3>4
  <2> QED BY <2>1, <2>2
<1> QED BY <1>2, <1>3 DEF IsRoot

\* x * (n - x) is at most the square of half of n.
LEMMA ProductBelowSquare ==
    ASSUME NEW r \in Nat, NEW x \in Nat, NEW q \in Nat, q + x <= 2 * r
    PROVE  q * x <= r * r
<1>1. q <= 2 * r - x
  OBVIOUS
<1>2. q * x <= (2 * r - x) * x
  BY <1>1
<1>3. (r - x) * (r - x) >= 0
  OBVIOUS
<1>4. (r - x) * (r - x) = r * r - (2 * r - x) * x
  OBVIOUS
<1> QED BY <1>2, <1>3, <1>4

\* What the quotient says about the dividend.
LEMMA Quotient ==
    ASSUME NEW y \in Nat, NEW z \in PosNat
    PROVE  /\ y \div z \in Nat
           /\ (y \div z) * z <= y /\ y < (y \div z + 1) * z
<1>1. y \div z \in Nat
  OBVIOUS
<1>2. y = (y \div z) * z + (y % z) /\ (y % z) \in 0..(z - 1)
  OBVIOUS
<1>3. (y \div z + 1) * z = (y \div z) * z + z
  BY <1>1
<1>4. (y \div z) * z \in Nat
  BY <1>1
<1> DEFINE q == y \div z
           p == q * z
           m == y % z
<1>5. p \in Nat /\ m \in 0..(z - 1) /\ y = p + m
  BY <1>2, <1>4
<1> HIDE DEF p, m
<1>6. p <= y /\ y < p + z
  BY <1>5
<1> QED BY <1>1, <1>3, <1>6 DEF p

\* A pass never goes below the root, and goes down from above it.
LEMMA NewtonPass ==
    ASSUME NEW y \in Nat, NEW r \in PosNat, IsRoot(r, y), NEW z \in PosNat
    PROVE  /\ Newton(y, z) \in PosNat /\ Newton(y, z) >= r
           /\ z > r => Newton(y, z) < z
<1> DEFINE q == y \div z
<1>1. q \in Nat /\ q * z <= y /\ y < (q + 1) * z
  BY Quotient
<1>2. Newton(y, z) = (q + z) \div 2
  BY DEF Newton
<1>3. r * r <= y /\ y < (r + 1) * (r + 1)
  BY DEF IsRoot
<1> HIDE DEF q
<1>4. q + z >= 2 * r
  <2>1. SUFFICES ASSUME q + z < 2 * r PROVE FALSE
    BY <1>1
  <2>2. (q + 1) + z <= 2 * r /\ q + 1 \in Nat
    BY <1>1, <2>1
  <2>3. (q + 1) * z <= r * r
    BY <2>2, ProductBelowSquare
  <2>4. (q + 1) * z \in Nat /\ r * r \in Nat
    BY <2>2
  <2> QED BY <1>1, <1>3, <2>3, <2>4
<1>5. ASSUME z > r PROVE q < z
  <2>1. SUFFICES ASSUME q >= z PROVE FALSE
    BY <1>1
  <2>2. q >= r + 1 /\ z >= r + 1
    BY <1>1, <1>5, <2>1
  <2>3. q * z >= (r + 1) * (r + 1)
    <3>1. q * z >= (r + 1) * z
      BY <1>1, <2>2
    <3>2. (r + 1) * z >= (r + 1) * (r + 1)
      BY <2>2
    <3>3. q * z \in Nat /\ (r + 1) * z \in Nat /\ (r + 1) * (r + 1) \in Nat
      BY <1>1
    <3> QED BY <3>1, <3>2, <3>3
  <2>4. q * z \in Nat /\ (r + 1) * (r + 1) \in Nat
    BY <1>1
  <2> QED BY <1>1, <1>3, <2>3, <2>4
<1>6. (q + z) \div 2 >= r /\ (q + z) \div 2 \in PosNat
  BY <1>1, <1>4
<1>7. z > r => (q + z) \div 2 < z
  BY <1>1, <1>5
<1> QED BY <1>2, <1>6, <1>7

IsNewton(f, y) ==
    f = [z \in PosNat |-> LET x == (y \div z + z) \div 2 IN IF x < z THEN f[x] ELSE z]

\* The iteration ends, and from any iterate at or above the root it ends there.
LEMMA NewtonEnds ==
    ASSUME NEW y \in Nat, NEW r \in PosNat, IsRoot(r, y)
    PROVE  \E f : IsNewton(f, y) /\ f = (CHOOSE g : IsNewton(g, y))
                  /\ \A z \in PosNat : z >= r => f[z] = r
<1> DEFINE h == [z \in PosNat |-> IF z >= r THEN r ELSE z]
           f == CHOOSE g : IsNewton(g, y)
<1>1. IsNewton(h, y)
  <2>1. ASSUME NEW z \in PosNat
        PROVE  h[z] = IF Newton(y, z) < z THEN h[Newton(y, z)] ELSE z
    <3>1. Newton(y, z) \in PosNat /\ Newton(y, z) >= r /\ (z > r => Newton(y, z) < z)
      BY NewtonPass
    <3>2. h[Newton(y, z)] = r
      BY <3>1
    <3> QED BY <3>1, <3>2
  <2> HIDE DEF h
  <2>2. h = [z \in PosNat |-> h[z]]
    BY DEF h
  <2>3. h = [z \in PosNat |-> IF Newton(y, z) < z THEN h[Newton(y, z)] ELSE z]
    BY <2>1, <2>2
  <2> QED BY <2>3 DEF IsNewton, Newton
<1>2. IsNewton(f, y)
  BY <1>1
<1> HIDE DEF f, h
<1>3. ASSUME NEW z \in PosNat PROVE f[z] = IF Newton(y, z) < z THEN f[Newton(y, z)] ELSE z
  BY <1>2 DEF IsNewton, Newton
<1> DEFINE Good == {n \in Nat : \A z \in PosNat : z >= r /\ z <= n => f[z] = r}
<1>4. 0 \in Good
  OBVIOUS
<1>5. ASSUME NEW n \in Nat, n \in Good PROVE n + 1 \in Good
  <2>1. SUFFICES ASSUME NEW z \in PosNat, z >= r, z <= n + 1 PROVE f[z] = r
    OBVIOUS
  <2>2. Newton(y, z) \in PosNat /\ Newton(y, z) >= r /\ (z > r => Newton(y, z) < z)
    BY NewtonPass
  <2>3. CASE z = r
    BY <1>3, <2>2, <2>3
  <2>4. CASE z # r
    <3>1. Newton(y, z) < z /\ Newton(y, z) <= n
      BY <2>1, <2>2, <2>4
    <3>2. f[Newton(y, z)] = r
      BY <1>5, <2>2, <3>1
    <3> QED BY <1>3, <3>1, <3>2
  <2> QED BY <2>3, <2>4
<1> HIDE DEF Good
<1>6. Nat \subseteq Good
  BY <1>4, <1>5, NatSetInduction
<1>7. \A z \in PosNat : z >= r => f[z] = r
  BY <1>6 DEF Good
<1> QED BY <1>2, <1>7 DEF f

\* Newton's iteration returns the integer square root of every number (sqrt, int_sqrt).
THEOREM RootIsExact ==
    ASSUME NEW y \in Nat
    PROVE  Isqrt(y) \in Nat /\ Isqrt(y) * Isqrt(y) <= y /\ y < (Isqrt(y) + 1) * (Isqrt(y) + 1)
<1>1. PICK r \in Nat : IsRoot(r, y)
  BY RootExists
<1>2. r * r <= y /\ y < (r + 1) * (r + 1)
  BY <1>1 DEF IsRoot
<1>3. CASE y = 0
  BY <1>3 DEF Isqrt
<1>4. CASE y \in 1..3
  <2>1. Isqrt(y) = 1
    BY <1>4 DEF Isqrt
  <2> QED BY <1>4, <2>1
<1>5. CASE y > 3
  <2>1. r \in PosNat
    BY <1>2, <1>5
  <2>2. PICK f : /\ IsNewton(f, y) /\ f = (CHOOSE g : IsNewton(g, y))
                 /\ \A z \in PosNat : z >= r => f[z] = r
    BY <1>1, <2>1, NewtonEnds
  <2>3. Isqrt(y) = (CHOOSE g : IsNewton(g, y))[y \div 2 + 1]
    BY <1>5 DEF Isqrt, IsNewton
  <2>4. y \div 2 + 1 \in PosNat /\ y \div 2 + 1 >= r
    <3>1. y \div 2 + 1 \in PosNat /\ 2 * (y \div 2 + 1) > y
      OBVIOUS
    <3>2. SUFFICES ASSUME y \div 2 + 1 < r PROVE FALSE
      BY <3>1
    <3>3. 2 * r > y
      BY <3>1, <3>2
    <3>4. r >= 2
      BY <3>2, <3>1
    <3>5. r * r >= 2 * r
      BY <3>4
    <3>6. r * r \in Nat
      OBVIOUS
    <3> QED BY <1>2, <3>3, <3>5, <3>6
  <2>5. Isqrt(y) = r
    BY <2>2, <2>3, <2>4
  <2> QED BY <1>2, <2>5
<1> QED BY <1>3, <1>4, <1>5

\* A larger number has no smaller root.
LEMMA RootGrows ==
    ASSUME NEW y \in Nat, NEW z \in Nat, y <= z
    PROVE  Isqrt(y) <= Isqrt(z)
<1> DEFINE r == Isqrt(y)
           s == Isqrt(z)
<1>1. r \in Nat /\ s \in Nat /\ r * r <= y /\ z < (s + 1) * (s + 1)
  BY RootIsExact
<1> HIDE DEF r, s
<1>2. SUFFICES ASSUME s < r PROVE FALSE
  BY <1>1 DEF r, s
<1>3. s + 1 <= r
  BY <1>1, <1>2
<1>4. (s + 1) * (s + 1) <= r * r
  <2>1. (s + 1) * (s + 1) <= r * (s + 1)
    BY <1>1, <1>3
  <2>2. r * (s + 1) <= r * r
    BY <1>1, <1>3
  <2>3. (s + 1) * (s + 1) \in Nat /\ r * (s + 1) \in Nat /\ r * r \in Nat
    BY <1>1
  <2> QED BY <2>1, <2>2, <2>3
<1>5. (s + 1) * (s + 1) \in Nat /\ r * r \in Nat
  BY <1>1
<1> QED BY <1>1, <1>4, <1>5

-----------------------------------------------------------------------------
(* Voting power.  The views of two records are compared axis by axis.      *)

\* A longer look ahead never shows more honor.
LEMMA ViewRunShrinks ==
    ASSUME NEW c \in Citizen, NEW a \in Axis, NEW active, NEW m \in Nat, NEW n \in Nat
    PROVE  ViewRun(c, a, active, m + n).honor <= ViewRun(c, a, active, m).honor
<1> DEFINE V(k) == ViewRun(c, a, active, k)
           Good == {k \in Nat : V(m + k).honor <= V(m).honor}
<1>1. ASSUME NEW k \in Nat PROVE V(k).honor \in Nat /\ V(k).rate \in 0..BASIS_POINTS
  <2>1. V(k) \in ViewState(c.baseHonor[a], c.decayRateAtLastDay[a])
    BY ViewRunUnfolds
  <2>2. c.baseHonor[a] \in Nat /\ c.decayRateAtLastDay[a] \in Nat
    BY ViewStartType
  <2> HIDE DEF V
  <2> QED BY <2>1, <2>2 DEF ViewState
<1>2. ASSUME NEW k \in Nat PROVE V(k + 1).honor <= V(k).honor
  <2>1. V(k + 1) = ViewDay(V(k), c, c.lastDecayDay[a] + (k + 1), active)
    BY ViewRunUnfolds
  <2>2. V(k) \in ViewState(V(k).honor, V(k).rate)
    <3>1. V(k) \in ViewState(c.baseHonor[a], c.decayRateAtLastDay[a])
      BY ViewRunUnfolds
    <3>2. V(k).honor \in Nat /\ V(k).rate \in 0..BASIS_POINTS
      BY <1>1
    <3>3. V(k) = [rate |-> V(k).rate, honor |-> V(k).honor]
      <4> HIDE DEF V
      <4> QED BY <3>1 DEF ViewState
    <3> HIDE DEF V
    <3> QED BY <3>2, <3>3, ConstantsAssumption DEF ViewState
  <2>3. V(k).honor \in Nat /\ V(k).rate \in Nat
    BY <1>1
  <2> HIDE DEF V
  <2>4. V(k + 1) \in ViewState(V(k).honor, V(k).rate)
    BY <2>1, <2>2, <2>3, ViewDayType
  <2> QED BY <2>3, <2>4 DEF ViewState
<1> HIDE DEF V
<1>3. 0 \in Good
  BY <1>1
<1>4. ASSUME NEW k \in Nat, k \in Good PROVE k + 1 \in Good
  <2>1. m + k \in Nat /\ m + (k + 1) = (m + k) + 1
    OBVIOUS
  <2>2. V(m).honor \in Nat /\ V(m + k).honor \in Nat /\ V((m + k) + 1).honor \in Nat
    BY <1>1, <2>1
  <2>3. V((m + k) + 1).honor <= V(m).honor
    BY <1>2, <1>4, <2>1, <2>2
  <2> QED BY <2>1, <2>3
<1> HIDE DEF Good
<1>5. n \in Good
  BY <1>3, <1>4, NatSetInduction
<1> QED BY <1>5 DEF Good, V

\* More honor at the same rate never decays to less.
LEMMA ViewRunKeepsOrder ==
    ASSUME NEW c \in Citizen, NEW d \in Citizen, NEW a \in Axis, NEW active, NEW n \in Nat,
           Advanced(c, d, a, 0), d.decayRateAtLastDay[a] = c.decayRateAtLastDay[a],
           d.baseHonor[a] >= c.baseHonor[a]
    PROVE  /\ ViewRun(c, a, active, n).honor <= ViewRun(d, a, active, n).honor
           /\ ViewRun(c, a, active, n).rate = ViewRun(d, a, active, n).rate
<1> DEFINE V(k) == ViewRun(c, a, active, k)
           W(k) == ViewRun(d, a, active, k)
           Good == {k \in Nat : V(k).rate = W(k).rate /\ V(k).honor <= W(k).honor}
<1>1. 0 \in Good
  BY ViewRunUnfolds DEF ViewStart
<1>2. ASSUME NEW k \in Nat, k \in Good PROVE k + 1 \in Good
  <2> DEFINE day == c.lastDecayDay[a] + (k + 1)
  <2>1. d.lastDecayDay[a] = c.lastDecayDay[a]
    <3>1. c.lastDecayDay[a] \in Nat
      BY DEF Citizen
    <3> QED BY <3>1 DEF Advanced
  <2>2. V(k + 1) = ViewDay(V(k), c, day, active) /\ W(k + 1) = ViewDay(W(k), d, day, active)
    <3>1. V(k + 1) = ViewDay(V(k), c, c.lastDecayDay[a] + (k + 1), active)
      BY ViewRunUnfolds
    <3>2. W(k + 1) = ViewDay(W(k), d, d.lastDecayDay[a] + (k + 1), active)
      BY ViewRunUnfolds
    <3> HIDE DEF V, W
    <3> QED BY <2>1, <3>1, <3>2
  <2>3. /\ V(k) \in ViewState(c.baseHonor[a], c.decayRateAtLastDay[a])
        /\ W(k) \in ViewState(d.baseHonor[a], d.decayRateAtLastDay[a])
    BY ViewRunUnfolds
  <2>4. /\ c.baseHonor[a] \in Nat /\ c.decayRateAtLastDay[a] \in Nat
        /\ d.baseHonor[a] \in Nat /\ d.decayRateAtLastDay[a] \in Nat
    BY ViewStartType
  <2> HIDE DEF V, W, day
  <2>5. V(k).honor \in Nat /\ W(k).honor \in Nat /\ V(k).rate \in 0..BASIS_POINTS
        /\ V(k).rate = W(k).rate /\ V(k).honor <= W(k).honor
    BY <1>2, <2>3, <2>4 DEF ViewState
  <2> DEFINE left    == BASIS_POINTS - GrownRate(V(k).rate)
             Kept(h) == (h * left) \div BASIS_POINTS
             spared  == IsSabbath(c, day) \/ day \in active
  <2>6. left \in Nat
    <3>1. GrownRate(V(k).rate) \in V(k).rate..BASIS_POINTS
      BY <2>5, GrownRateType
    <3> QED BY <2>5, <3>1, ConstantsAssumption
  <2>7. V(k + 1).rate = W(k + 1).rate
    BY <2>2, <2>5 DEF ViewDay
  <2>8. /\ V(k + 1).honor = IF spared THEN V(k).honor ELSE Kept(V(k).honor)
        /\ W(k + 1).honor = IF spared THEN W(k).honor ELSE Kept(W(k).honor)
    <3>1. IsSabbath(d, day) <=> IsSabbath(c, day)
      BY SameSabbath
    <3> QED BY <2>2, <2>5, <3>1 DEF ViewDay
  <2>9. Kept(V(k).honor) <= Kept(W(k).honor)
    <3> DEFINE g == V(k).honor
               h == W(k).honor
    <3>1. g \in Nat /\ h \in Nat /\ g <= h
      BY <2>5
    <3> HIDE DEF left, g, h
    <3>2. g * left <= h * left /\ g * left \in Nat /\ h * left \in Nat
      BY <2>6, <3>1
    <3>3. (g * left) \div BASIS_POINTS <= (h * left) \div BASIS_POINTS
      BY <3>2, ConstantsAssumption
    <3> QED BY <3>3 DEF g, h
  <2> HIDE DEF Kept, spared, left
  <2> QED BY <2>5, <2>7, <2>8, <2>9
<1> HIDE DEF Good
<1>3. n \in Good
  BY <1>1, <1>2, NatSetInduction
<1> QED BY <1>3 DEF Good

\* The views show numbers.
LEMMA ViewsAreNatural ==
    ASSUME NEW c \in Citizen, NEW today \in Nat
    PROVE  /\ \A a \in Axis : \A active : CurrentHonor(c, a, active, today) \in Nat
           /\ \A volunteer : CurrentMultBP(c, volunteer, today) \in Nat
<1>1. ASSUME NEW a \in Axis, NEW active PROVE CurrentHonor(c, a, active, today) \in Nat
  <2> DEFINE n == DaysToSettle(c, a, today)
  <2>1. n \in Nat
    BY DaysToSettleType
  <2>2. CASE ~ c.isCitizen
    BY <2>2 DEF CurrentHonor
  <2>3. CASE c.isCitizen
    <3>1. CurrentHonor(c, a, active, today) = ViewRun(c, a, active, n).honor
      BY <2>3, ViewIsRun
    <3> HIDE DEF n
    <3>2. ViewRun(c, a, active, n) \in ViewState(c.baseHonor[a], c.decayRateAtLastDay[a])
          /\ c.baseHonor[a] \in Nat
      BY <2>1, ViewRunUnfolds, ViewStartType
    <3>3. ViewRun(c, a, active, n).honor \in Nat
      BY <3>2 DEF ViewState
    <3> QED BY <3>1, <3>3
  <2> QED BY <2>2, <2>3
<1>2. ASSUME NEW volunteer PROVE CurrentMultBP(c, volunteer, today) \in Nat
  <2>1. LastCompleteWeek(today) \in Int /\ c.lastProcessedWeek \in Nat
    BY ConstantsAssumption DEF LastCompleteWeek, Citizen
  <2>2. WeeksPending(c, today) \in Nat
    BY <2>1 DEF WeeksPending
  <2> QED BY <2>2, MultViewIsRun, MultRunUnfolds
<1> QED BY <1>1, <1>2

\* Who shows no less honor on any axis, at the same multiplier, has no fewer votes
\* (getVotingPower).
LEMMA PowerKeepsOrder ==
    ASSUME NEW c \in Citizen, NEW d \in Citizen, NEW active, NEW volunteer, NEW today \in Nat,
           d.isCitizen = c.isCitizen,
           \A a \in Axis : CurrentHonor(c, a, active, today) <= CurrentHonor(d, a, active, today),
           CurrentMultBP(c, volunteer, today) = CurrentMultBP(d, volunteer, today)
    PROVE  VotingPower(c, active, volunteer, today) <= VotingPower(d, active, volunteer, today)
<1> DEFINE Root(e, a) == Isqrt(CurrentHonor(e, a, active, today))
           Base(e)    == Root(e, "CAPITAL") + LABOR_WEIGHT * Root(e, "LABOR")
                           + VERIFICATION_WEIGHT * Root(e, "VERIFICATION")
           factor     == Isqrt(CurrentMultBP(c, volunteer, today) * BASIS_POINTS)
<1>1. ASSUME NEW a \in Axis
      PROVE  Root(c, a) \in Nat /\ Root(d, a) \in Nat /\ Root(c, a) <= Root(d, a)
  <2>1. CurrentHonor(c, a, active, today) \in Nat /\ CurrentHonor(d, a, active, today) \in Nat
        /\ CurrentHonor(c, a, active, today) <= CurrentHonor(d, a, active, today)
    BY ViewsAreNatural
  <2> QED BY <2>1, RootIsExact, RootGrows
<1>2. factor \in Nat
  <2>1. CurrentMultBP(c, volunteer, today) * BASIS_POINTS \in Nat
    BY ViewsAreNatural, ConstantsAssumption
  <2> QED BY <2>1, RootIsExact
<1>3. CASE ~ c.isCitizen
  BY <1>3 DEF VotingPower
<1>4. CASE c.isCitizen
  <2>1. VotingPower(c, active, volunteer, today) = (Base(c) * factor) \div BASIS_POINTS
    BY <1>4 DEF VotingPower, BaseVP, SqrtFactor
  <2>2. VotingPower(d, active, volunteer, today) = (Base(d) * factor) \div BASIS_POINTS
    BY <1>4 DEF VotingPower, BaseVP, SqrtFactor
  <2>3. "CAPITAL" \in Axis /\ "LABOR" \in Axis /\ "VERIFICATION" \in Axis
    BY DEF Axis
  <2> DEFINE x == Root(c, "LABOR")
             y == Root(d, "LABOR")
             p == Root(c, "VERIFICATION")
             q == Root(d, "VERIFICATION")
             u == Root(c, "CAPITAL")
             v == Root(d, "CAPITAL")
  <2>4. /\ x \in Nat /\ y \in Nat /\ x <= y
        /\ p \in Nat /\ q \in Nat /\ p <= q
        /\ u \in Nat /\ v \in Nat /\ u <= v
    BY <1>1, <2>3
  <2>5. /\ Base(c) = u + LABOR_WEIGHT * x + VERIFICATION_WEIGHT * p
        /\ Base(d) = v + LABOR_WEIGHT * y + VERIFICATION_WEIGHT * q
    OBVIOUS
  <2> HIDE DEF x, y, p, q, u, v, Base, factor, Root
  <2>6. /\ LABOR_WEIGHT * x <= LABOR_WEIGHT * y
        /\ LABOR_WEIGHT * x \in Nat /\ LABOR_WEIGHT * y \in Nat
    BY <2>4, ConstantsAssumption
  <2>7. /\ VERIFICATION_WEIGHT * p <= VERIFICATION_WEIGHT * q
        /\ VERIFICATION_WEIGHT * p \in Nat /\ VERIFICATION_WEIGHT * q \in Nat
    BY <2>4, ConstantsAssumption
  <2>8. Base(c) \in Nat /\ Base(d) \in Nat /\ Base(c) <= Base(d)
    BY <2>4, <2>5, <2>6, <2>7
  <2>9. Base(c) * factor <= Base(d) * factor
        /\ Base(c) * factor \in Nat /\ Base(d) * factor \in Nat
    BY <1>2, <2>8
  <2>10. (Base(c) * factor) \div BASIS_POINTS <= (Base(d) * factor) \div BASIS_POINTS
    BY <2>9, ConstantsAssumption
  <2> QED BY <2>1, <2>2, <2>10
<1> QED BY <1>3, <1>4

\* Votes are numbers.
LEMMA PowerIsNatural ==
    ASSUME NEW c \in Citizen, NEW active, NEW volunteer, NEW today \in Nat
    PROVE  VotingPower(c, active, volunteer, today) \in Nat
<1> DEFINE Root(a) == Isqrt(CurrentHonor(c, a, active, today))
           base    == Root("CAPITAL") + LABOR_WEIGHT * Root("LABOR")
                        + VERIFICATION_WEIGHT * Root("VERIFICATION")
           factor  == Isqrt(CurrentMultBP(c, volunteer, today) * BASIS_POINTS)
<1>1. \A a \in Axis : Root(a) \in Nat
  BY ViewsAreNatural, RootIsExact
<1>2. factor \in Nat
  <2>1. CurrentMultBP(c, volunteer, today) * BASIS_POINTS \in Nat
    BY ViewsAreNatural, ConstantsAssumption
  <2> QED BY <2>1, RootIsExact
<1>3. VotingPower(c, active, volunteer, today)
        = IF c.isCitizen THEN (base * factor) \div BASIS_POINTS ELSE 0
  BY DEF VotingPower, BaseVP, SqrtFactor
<1> HIDE DEF Root, factor
<1>4. base \in Nat
  <2>1. Root("CAPITAL") \in Nat /\ Root("LABOR") \in Nat /\ Root("VERIFICATION") \in Nat
    BY <1>1 DEF Axis
  <2> QED BY <2>1, ConstantsAssumption
<1> HIDE DEF base
<1>5. (base * factor) \div BASIS_POINTS \in Nat
  BY <1>2, <1>4, QuotientNat, ConstantsAssumption
<1> QED BY <1>3, <1>5
=============================================================================
