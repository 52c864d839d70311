---------------------------- MODULE AmountsProofs ----------------------------
(***************************************************************************)
(* The laws of sums and of the natural numbers that the proofs share.  A   *)
(* sum is meaningful while its set of quanta is finite; the laws follow    *)
(* from the theorems on finite sets.  Induction over the naturals is       *)
(* stated for a set instead of a predicate: it follows from the            *)
(* well-foundedness of <.                                                  *)
(***************************************************************************)
EXTENDS Amounts, FiniteSetTheorems, WellFoundedInduction, TLAPS

Summable(S, f) == IsFiniteSet(Units(S, f))

\* A quantum of the sum belongs to one member of S and is within its amount.
LEMMA UnitsMember ==
  ASSUME NEW S, NEW f, NEW u
  PROVE  u \in Units(S, f) <=> \E x \in S : \E k \in 1 .. f[x] : u = <<x, k>>
BY DEF Units

\* The quanta of one member are as many as its amount.
LEMMA UnitsOne ==
  ASSUME NEW x, NEW n \in Nat
  PROVE  IsFiniteSet({x} \X (1 .. n)) /\ Cardinality({x} \X (1 .. n)) = n
<1> DEFINE owner == {x}
           quanta == 1 .. n
<1>1. IsFiniteSet(owner) /\ Cardinality(owner) = 1
  BY FS_Singleton
<1>2. IsFiniteSet(quanta) /\ Cardinality(quanta) = n
  BY FS_Interval, SMT
<1> HIDE DEF owner, quanta
<1>3. /\ IsFiniteSet(owner \X quanta)
      /\ Cardinality(owner \X quanta) = Cardinality(owner) * Cardinality(quanta)
  BY <1>1, <1>2, FS_Product, Zenon
<1>4. Cardinality(owner) * Cardinality(quanta) = n
  BY <1>1, <1>2, SMT
<1> QED BY <1>3, <1>4 DEF owner, quanta

\* A sum is a natural number.
LEMMA TotalType ==
  ASSUME NEW S, NEW f, Summable(S, f)
  PROVE  Total(S, f) \in Nat
BY FS_CardinalityType DEF Total, Summable

\* A sum is zero when there is nothing to add.
LEMMA TotalZero ==
  ASSUME NEW S, NEW f, \A x \in S : f[x] = 0
  PROVE  Summable(S, f) /\ Total(S, f) = 0
<1>1. Units(S, f) = {}
  BY DEF Units
<1> QED BY <1>1, FS_EmptySet DEF Total, Summable

\* Two functions that agree on S have the same sum.
LEMMA TotalSame ==
  ASSUME NEW S, NEW f, NEW g, \A x \in S : f[x] = g[x]
  PROVE  Units(S, f) = Units(S, g) /\ Total(S, f) = Total(S, g)
<1>1. Units(S, f) = Units(S, g)
  BY DEF Units
<1> QED BY <1>1 DEF Total

\* A member can be taken out of a sum.
LEMMA TotalSplit ==
  ASSUME NEW S, NEW f, NEW x \in S, f[x] \in Nat
  PROVE  /\ Summable(S, f) <=> Summable(S \ {x}, f)
         /\ Summable(S, f) => Total(S, f) = Total(S \ {x}, f) + f[x]
<1> DEFINE own  == {x} \X (1 .. f[x])
           rest == Units(S \ {x}, f)
<1>1. Units(S, f) = rest \cup own
  BY DEF Units
<1>2. rest \cap own = {}
  BY DEF Units
<1>3. IsFiniteSet(own) /\ Cardinality(own) = f[x]
  BY UnitsOne
<1>4. rest \in SUBSET Units(S, f)
  BY <1>1
<1> HIDE DEF own, rest
<1>5. ASSUME IsFiniteSet(rest)
      PROVE  /\ IsFiniteSet(Units(S, f))
             /\ Cardinality(Units(S, f)) = Cardinality(rest) + f[x]
  <2>1. /\ IsFiniteSet(rest \cup own)
        /\ Cardinality(rest \cup own) = Cardinality(rest) + Cardinality(own) - Cardinality(rest \cap own)
    BY <1>5, <1>3, FS_Union
  <2>2. Cardinality(rest \cap own) = 0
    BY <1>2, FS_EmptySet
  <2>3. Cardinality(rest) \in Nat
    BY <1>5, FS_CardinalityType
  <2> QED BY <2>1, <2>2, <2>3, <1>1, <1>3
<1>6. IsFiniteSet(Units(S, f)) => IsFiniteSet(rest)
  BY <1>4, FS_Subset
<1> QED BY <1>5, <1>6 DEF Summable, Total, rest

\* A new member adds its amount.
LEMMA TotalAdd ==
  ASSUME NEW S, NEW f, NEW x, x \notin S, f[x] \in Nat, Summable(S, f)
  PROVE  Summable(S \cup {x}, f) /\ Total(S \cup {x}, f) = Total(S, f) + f[x]
<1>1. (S \cup {x}) \ {x} = S
  OBVIOUS
<1> QED BY <1>1, TotalSplit

\* Members without an amount do not change a sum.
LEMMA TotalIdle ==
  ASSUME NEW S, NEW Z, NEW f, \A z \in Z : f[z] = 0
  PROVE  Units(S \cup Z, f) = Units(S, f) /\ Total(S \cup Z, f) = Total(S, f)
<1>1. \A z \in Z : 1 .. f[z] = {}
  BY SMT
<1>2. \A z \in Z : {z} \X (1 .. f[z]) = {}
  BY <1>1
<1>3. Units(S \cup Z, f) = Units(S, f)
  BY <1>2, Zenon DEF Units
<1> QED BY <1>3 DEF Total

\* Natural amounts over a finite set can be summed.
LEMMA FiniteSummable ==
  ASSUME NEW S, IsFiniteSet(S), NEW f, \A x \in S : f[x] \in Nat
  PROVE  Summable(S, f)
<1> DEFINE own == [x \in S |-> {x} \X (1 .. f[x])]
           all == {{x} \X (1 .. f[x]) : x \in S}
<1>1. own \in Surjection(S, all)
  BY DEF Surjection
<1>2. \A T \in all : IsFiniteSet(T)
  <2>1. \A x \in S : IsFiniteSet({x} \X (1 .. f[x]))
    BY UnitsOne
  <2> QED BY <2>1, Zenon
<1> HIDE DEF own, all
<1>3. IsFiniteSet(all)
  BY <1>1, FS_Surjection
<1>4. IsFiniteSet(UNION all)
  BY <1>2, <1>3, FS_UNION
<1> QED BY <1>4 DEF all, Units, Summable

\* Changing one amount changes the sum by the difference.
LEMMA TotalChange ==
  ASSUME NEW S, NEW f, NEW g, NEW x \in S, f[x] \in Nat, g[x] \in Nat,
         \A y \in S \ {x} : f[y] = g[y], Summable(S, f)
  PROVE  Summable(S, g) /\ Total(S, g) + f[x] = Total(S, f) + g[x]
<1>1. Units(S \ {x}, f) = Units(S \ {x}, g) /\ Total(S \ {x}, f) = Total(S \ {x}, g)
  BY TotalSame
<1>2. Summable(S \ {x}, f) /\ Total(S, f) = Total(S \ {x}, f) + f[x]
  BY TotalSplit
<1>3. Summable(S \ {x}, g)
  BY <1>1, <1>2 DEF Summable
<1>4. Summable(S, g) /\ Total(S, g) = Total(S \ {x}, g) + g[x]
  BY <1>3, TotalSplit
<1>5. Total(S \ {x}, f) \in Nat
  BY <1>2, TotalType
<1> QED BY <1>1, <1>2, <1>4, <1>5

\* An amount that moves between two of three places leaves their sum as it was.
LEMMA Shift ==
  ASSUME NEW t \in Nat, NEW r \in Nat, NEW q \in Nat, NEW n \in Nat
  PROVE  /\ (t + n) + r + q = t + r + (q + n)
         /\ t + (r + n) + q = t + r + (q + n)
         /\ (t + n) + r + q = t + (r + n) + q
OBVIOUS

\* Amounts that go one to one to no smaller ones have no greater sum.
LEMMA TotalInjected ==
  ASSUME NEW S, NEW f, NEW T, NEW g, NEW to, Summable(T, g),
         \A x \in S : to[x] \in T /\ f[x] \in Nat /\ g[to[x]] \in Nat /\ f[x] <= g[to[x]],
         \A x, y \in S : to[x] = to[y] => x = y
  PROVE  Summable(S, f) /\ Total(S, f) <= Total(T, g)
<1> DEFINE from == Units(S, f)
           into == Units(T, g)
           move == [u \in from |-> <<to[u[1]], u[2]>>]
<1>1. \A u \in from : \E x \in S : \E k \in 1 .. f[x] : u = <<x, k>>
  BY UnitsMember
<1>2. \A u \in from : u = <<u[1], u[2]>> /\ u[1] \in S /\ u[2] \in 1 .. f[u[1]]
  BY <1>1
<1>3. \A x \in S : \A k \in 1 .. f[x] : k \in 1 .. g[to[x]]
  OBVIOUS
<1>4. \A u \in from : move[u] \in into
  <2>1. ASSUME NEW u \in from PROVE <<to[u[1]], u[2]>> \in into
    <3>1. to[u[1]] \in T /\ u[2] \in 1 .. g[to[u[1]]]
      BY <1>2, <1>3
    <3> QED BY <3>1, UnitsMember
  <2> HIDE DEF from, into
  <2> QED BY <2>1
<1>5. \A u, v \in from : move[u] = move[v] => u = v
  <2> HIDE DEF from
  <2>1. ASSUME NEW u \in from, NEW v \in from, move[u] = move[v] PROVE u = v
    <3>1. to[u[1]] = to[v[1]] /\ u[2] = v[2]
      BY <2>1
    <3>2. u[1] = v[1]
      BY <1>2, <3>1
    <3> QED BY <1>2, <3>1, <3>2
  <2> QED BY <2>1
<1>6. move \in [from -> into] /\ IsFiniteSet(into)
  <2> HIDE DEF from, into
  <2>1. move \in [from -> into]
    BY <1>4
  <2> QED BY <2>1 DEF into, Summable
<1> HIDE DEF from, into, move
<1>7. move \in Injection(from, into)
  BY <1>5, <1>6 DEF Injection, IsInjective
<1>8. IsFiniteSet(from) /\ Cardinality(from) <= Cardinality(into)
  BY <1>6, <1>7, FS_Injection
<1> QED BY <1>8 DEF from, into, Summable, Total

\* A member alone is its own sum.
LEMMA TotalOne ==
  ASSUME NEW x, NEW f, f[x] \in Nat
  PROVE  Total({x}, f) = f[x]
<1>1. Summable({}, f) /\ Total({}, f) = 0
  BY TotalZero
<1>2. Total({} \cup {x}, f) = Total({}, f) + f[x]
  BY <1>1, TotalAdd
<1>3. {} \cup {x} = {x}
  OBVIOUS
<1> QED
  BY <1>1, <1>2, <1>3

\* A part of a sum has a sum.
LEMMA PartSummable ==
  ASSUME NEW S, NEW f, Summable(S, f), NEW T \in SUBSET S
  PROVE  Summable(T, f) /\ Total(T, f) \in Nat
<1>1. Units(T, f) \in SUBSET Units(S, f)
  BY DEF Units
<1>2. Summable(T, f)
  BY <1>1, FS_Subset DEF Summable
<1> QED BY <1>2, TotalType

\* A part of a sum is no greater.
LEMMA TotalPart ==
  ASSUME NEW S, NEW f, Summable(S, f), NEW T \in SUBSET S
  PROVE  Total(T, f) <= Total(S, f)
<1>1. Units(T, f) \in SUBSET Units(S, f)
  BY DEF Units
<1> QED BY <1>1, FS_Subset DEF Summable, Total

\* A sum grows with a new member, read from an extended list of amounts.
LEMMA TotalGrows ==
  ASSUME NEW T, NEW f, NEW g, NEW x, x \notin T, \A y \in T : f[y] = g[y],
         Summable(T, f), g[x] \in Nat
  PROVE  Total(T \cup {x}, g) = Total(T, f) + g[x] /\ Total(T, g) = Total(T, f)
<1>1. Units(T, f) = Units(T, g) /\ Total(T, f) = Total(T, g)
  BY TotalSame
<1>2. Summable(T, g)
  BY <1>1 DEF Summable
<1> QED BY <1>1, <1>2, TotalAdd

\* The sums of two disjoint sets add up.
LEMMA TotalUnion ==
  ASSUME NEW S, NEW T, NEW f, S \cap T = {}, Summable(S, f), Summable(T, f)
  PROVE  Total(S \cup T, f) = Total(S, f) + Total(T, f)
<1>1. Units(S \cup T, f) = Units(S, f) \cup Units(T, f)
  BY DEF Units
<1>2. Units(S, f) \cap Units(T, f) = {}
  BY DEF Units
<1>3. PICK U, V : U = Units(S, f) /\ V = Units(T, f) /\ IsFiniteSet(U) /\ IsFiniteSet(V)
  BY DEF Summable
<1>4. Cardinality(U \cup V) = Cardinality(U) + Cardinality(V) - Cardinality(U \cap V)
  BY <1>3, FS_Union
<1>5. Cardinality(U \cap V) = 0
  BY <1>2, <1>3, FS_EmptySet
<1>6. Cardinality(U) \in Nat /\ Cardinality(V) \in Nat
  BY <1>3, FS_CardinalityType
<1>7. Cardinality(U \cup V) = Cardinality(U) + Cardinality(V)
  BY <1>4, <1>5, <1>6
<1> QED BY <1>1, <1>3, <1>7 DEF Total

-----------------------------------------------------------------------------
(* Natural numbers *)

Below == OpToRel(<, Nat)

\* A set of naturals has a least member.
LEMMA LeastNatural ==
  ASSUME NEW S, S \subseteq Nat, S # {}
  PROVE  \E n \in S : \A m \in S : n <= m
<1>1. PICK n \in S : \A m \in S : ~(<<m, n>> \in Below)
  BY NatLessThanWellFounded, WFMin, Zenon DEF Below
<1>2. \A m \in S : m \in Nat /\ ~(m < n)
  BY <1>1 DEF Below, OpToRel
<1> QED BY <1>1, <1>2

\* What holds of zero, and of the next number whenever of one, holds of all.
LEMMA NaturalInduction ==
  ASSUME NEW S, 0 \in S, \A n \in Nat : n \in S => n + 1 \in S
  PROVE  Nat \subseteq S
<1> DEFINE left == Nat \ S
<1>1. ASSUME left # {} PROVE FALSE
  <2>1. PICK n \in left : \A m \in left : n <= m
    <3> HIDE DEF left
    <3>1. left \subseteq Nat
      BY DEF left
    <3> QED BY <1>1, <3>1, LeastNatural
  <2>2. n \in Nat /\ n # 0 /\ n - 1 \in Nat /\ ~(n <= n - 1)
    OBVIOUS
  <2>3. n - 1 \in S
    BY <2>1, <2>2
  <2>4. (n - 1) + 1 = n
    BY <2>2
  <2> QED BY <2>2, <2>3, <2>4
<1> QED BY <1>1

\* A step for each number up to n, from value to value, and a function unrolled by them:
\* each of its values follows from the one before.
Steps(n, V, step) == step \in [1 .. n -> [V -> V]]
Unrolled(f, n, V, start, step) == f \in [0 .. n -> V] /\ f[0] = start /\ \A k \in 1 .. n : f[k] = step[k][f[k - 1]]

\* There is one: a recursive function over 0 .. n is well defined.
LEMMA Recursion ==
  ASSUME NEW n \in Nat, NEW V, NEW start \in V, NEW step, Steps(n, V, step)
  PROVE  \E f : Unrolled(f, n, V, start, step)
<1> USE DEF Steps
<1> DEFINE Runs(m) == {f \in [0 .. m -> V] : f[0] = start /\ \A k \in 1 .. m : f[k] = step[k][f[k - 1]]}
           S == {m \in Nat : m <= n => Runs(m) # {}}
<1>1. 0 \in S
  <2>1. [k \in 0 .. 0 |-> start] \in Runs(0)
    OBVIOUS
  <2> QED
    BY <2>1
<1>2. ASSUME NEW m \in Nat, m \in S PROVE m + 1 \in S
  <2>1. CASE m + 1 <= n
    <3>1. PICK f : f \in Runs(m)
      BY <1>2, <2>1
    <3>2. f \in [0 .. m -> V] /\ f[0] = start /\ \A k \in 1 .. m : f[k] = step[k][f[k - 1]]
      BY <3>1
    <3>3. m + 1 \in 1 .. n /\ m \in 0 .. m /\ f[m] \in V
      BY <2>1, <3>2
    <3> DEFINE g == [k \in 0 .. m + 1 |-> IF k = m + 1 THEN step[m + 1][f[m]] ELSE f[k]]
    <3>4. g \in [0 .. m + 1 -> V] /\ g[0] = start
      BY <3>2, <3>3
    <3>5. ASSUME NEW k \in 1 .. m + 1 PROVE g[k] = step[k][g[k - 1]]
      <4>1. CASE k = m + 1
        BY <4>1, <3>3
      <4>2. CASE k # m + 1
        BY <4>2, <3>2
      <4> QED
        BY <4>1, <4>2
    <3>6. g \in Runs(m + 1)
      BY <3>4, <3>5
    <3> QED
      BY <3>6
  <2>2. CASE ~ (m + 1 <= n)
    BY <2>2
  <2> QED
    BY <2>1, <2>2
<1>3. n \in S
  <2> HIDE DEF S
  <2> QED
    BY <1>1, <1>2, NaturalInduction
<1>4. PICK f : f \in Runs(n)
  BY <1>3
<1> QED
  BY <1>4 DEF Unrolled

=============================================================================
