------------------------------ MODULE SumTheorems ------------------------------
(***************************************************************************)
(* Facts about sums over finite sets (SumFunctionOnSet), for the proofs    *)
(* about copies and money that must add up, and about the larger and the   *)
(* smaller of two numbers, the largest and the smallest of a finite set,   *)
(* and the positions of a sequence.                                        *)
(*                                                                         *)
(* The sum is a recursive function on the subsets of its index set.  It is *)
(* shown to exist (FunctionExists), then to satisfy its own recursive      *)
(* equation (SumEquation) and that with any element for the chosen one     *)
(* (SumTakeOut); all else follows from these by induction on the set.      *)
(* Induction is stated for a set of sets instead of a predicate            *)
(* (SetInduction): a smallest set outside it would be the counterexample.  *)
(***************************************************************************)
EXTENDS Integers, Sequences, FiniteSetTheorems, Functions, FiniteSetsExt, TLAPS

Picked(s) == CHOOSE x \in s : TRUE

\* One step of the sum over s, where g has the sums over smaller sets
SumOf(f, g, s) == IF s = {} THEN 0 ELSE f[Picked(s)] + g[s \ {Picked(s)}]

LEMMA PickedIsIn == ASSUME NEW s, s # {} PROVE Picked(s) \in s
  BY DEF Picked

LEMMA SetInduction ==
  ASSUME NEW S, IsFiniteSet(S), NEW G, 
         \A T \in SUBSET S : (\A x \in T : T \ {x} \in G) => T \in G
  PROVE  S \in G
<1> DEFINE B == (SUBSET S) \ G
           R == StrictSubsetOrdering(S)
<1> SUFFICES ASSUME B # {} PROVE FALSE
  OBVIOUS
<1>1. IsWellFoundedOn(R, SUBSET S)
  <2>1. IsWellFoundedOn(StrictSubsetOrdering(S), FiniteSubsetsOf(S))
    BY FS_StrictSubsetOrderingWellFounded
  <2>2. FiniteSubsetsOf(S) = SUBSET S
    BY FS_FiniteSubsetsOfFinite
  <2> QED BY <2>1, <2>2
<1> HIDE DEF R
<1>2. B \subseteq SUBSET S
  OBVIOUS
<1>3. PICK T \in B : \A U \in B : ~ (<<U, T>> \in R)
  BY <1>1, <1>2, WFMin
<1>4. \A x \in T : T \ {x} \in SUBSET S /\ <<T \ {x}, T>> \in R
  BY DEF R, StrictSubsetOrdering
<1>5. \A x \in T : T \ {x} \in G
  BY <1>3, <1>4
<1> QED BY <1>5

LEMMA NatInduct ==
  ASSUME NEW n \in Nat, NEW G, 0 \in G, \A k \in Nat : k \in G => k + 1 \in G
  PROVE  n \in G
<1> DEFINE Good == {T \in SUBSET (1..n) : \A k \in 0..n : T = 1..k => k \in G}
<1>1. ASSUME NEW T \in SUBSET (1..n), \A x \in T : T \ {x} \in Good PROVE T \in Good
  <2> SUFFICES ASSUME NEW k \in 0..n, T = 1..k PROVE k \in G
    OBVIOUS
  <2>1. CASE k = 0
    BY <2>1
  <2>2. CASE k # 0
    <3>1. k \in T /\ T \ {k} = 1..(k-1) /\ k - 1 \in 0..n
      BY <2>2
    <3>2. k - 1 \in G
      BY <1>1, <3>1
    <3> QED BY <3>1, <3>2
  <2> QED BY <2>1, <2>2
<1>2. IsFiniteSet(1..n)
  BY FS_Interval
<1> HIDE DEF Good
<1>3. 1..n \in Good
  BY <1>1, <1>2, SetInduction
<1> QED BY <1>3 DEF Good

LEMMA SumUnfolds ==
  ASSUME NEW f, NEW S 
  PROVE SumFunctionOnSet(f, S) = (CHOOSE g : g = [s \in SUBSET S |-> SumOf(f, g, s)])[S]
 BY DEF SumFunctionOnSet, FoldFunctionOnSet, MapThenFoldSet, SumOf, Picked

LEMMA FunctionExists ==
  ASSUME NEW f, NEW S, IsFiniteSet(S)
  PROVE \E g : g = [s \in SUBSET S |-> SumOf(f, g, s)]
<1> DEFINE Sub(n) == {s \in SUBSET S : Cardinality(s) <= n}
  G == {n \in Nat : \E g : g = [s \in Sub(n) |-> SumOf(f, g, s)]}
<1>1. \A s \in SUBSET S : IsFiniteSet(s) /\ Cardinality(s) \in Nat /\ Cardinality(s) <= Cardinality(S)
  BY FS_Subset, FS_CardinalityType
<1>2. \A s \in SUBSET S : s # {} => s \ {Picked(s)} \in SUBSET S /\ Cardinality(s \ {Picked(s)}) = Cardinality(s) - 1
  BY <1>1, PickedIsIn, FS_RemoveElement
<1>3. \A s \in SUBSET S : Cardinality(s) <= 0 => s = {}
  BY <1>1, FS_EmptySet
<1>4. 0 \in G
  <2> DEFINE g == [s \in Sub(0) |-> 0]
  <2>1. \A s \in Sub(0) : SumOf(f, g, s) = 0
    BY <1>3 DEF SumOf
  <2>2. g = [s \in Sub(0) |-> SumOf(f, g, s)]
    BY <2>1
  <2> QED BY <2>2
<1>5. ASSUME NEW n \in Nat, n \in G PROVE n+1 \in G
  <2>1. PICK g : g = [s \in Sub(n) |-> SumOf(f, g, s)]
    BY <1>5
  <2> DEFINE h == [s \in Sub(n+1) |-> SumOf(f, g, s)]
  <2>2. \A s \in Sub(n) : s \in Sub(n+1) /\ h[s] = g[s]
    BY <2>1, <1>1
  <2>3. \A s \in Sub(n+1) : s # {} => s \ {Picked(s)} \in Sub(n)
    BY <1>1, <1>2
  <2>4. \A s \in Sub(n+1) : SumOf(f, g, s) = SumOf(f, h, s)
    BY <2>2, <2>3 DEF SumOf
  <2>5. h = [s \in Sub(n+1) |-> SumOf(f, h, s)]
    BY <2>4
  <2> HIDE DEF h, Sub
  <2>6. \E k : k = [s \in Sub(n+1) |-> SumOf(f, k, s)]
    BY <2>5
  <2> QED BY <2>6
<1>6. Cardinality(S) \in Nat
  BY FS_CardinalityType
<1>7. Sub(Cardinality(S)) = SUBSET S
  BY <1>1
<1>8. Cardinality(S) \in G
  <2> HIDE DEF G
  <2> QED BY <1>4, <1>5, <1>6, NatInduct
<1> HIDE DEF Sub
<1> QED BY <1>7, <1>8

LEMMA SumIsFunction ==
  ASSUME NEW f, NEW S, IsFiniteSet(S)
  PROVE  \E g : g = [s \in SUBSET S |-> SumOf(f, g, s)] /\ SumFunctionOnSet(f, S) = g[S]
BY SumUnfolds, FunctionExists

LEMMA SumEquation ==
  ASSUME NEW f, NEW S, IsFiniteSet(S)
  PROVE  SumFunctionOnSet(f, S) = IF S = {} THEN 0 ELSE f[Picked(S)] + SumFunctionOnSet(f, S \ {Picked(S)})
<1>1. PICK g : g = [s \in SUBSET S |-> SumOf(f, g, s)] /\ SumFunctionOnSet(f, S) = g[S]
  BY SumIsFunction
<1>2. CASE S = {}
  BY <1>1, <1>2 DEF SumOf
<1>3. CASE S # {}
  <2> DEFINE U == S \ {Picked(S)}
  <2>1. IsFiniteSet(U)
    BY FS_RemoveElement
  <2>2. PICK h : h = [s \in SUBSET U |-> SumOf(f, h, s)] /\ SumFunctionOnSet(f, U) = h[U]
    BY <2>1, SumIsFunction
  <2> DEFINE G == {T \in SUBSET U : g[T] = h[T]}
  <2>3. ASSUME NEW T \in SUBSET U, \A x \in T : T \ {x} \in G PROVE T \in G
    <3>1. g[T] = SumOf(f, g, T) /\ h[T] = SumOf(f, h, T)
      BY <1>1, <2>2
    <3>2. T # {} => Picked(T) \in T
      BY PickedIsIn
    <3>3. SumOf(f, g, T) = SumOf(f, h, T)
      BY <2>3, <3>2 DEF SumOf
    <3> QED BY <3>1, <3>3
  <2> HIDE DEF G
  <2>4. U \in G
    BY <2>1, <2>3, SetInduction
  <2>5. g[U] = h[U]
    BY <2>4 DEF G
  <2>6. g[S] = f[Picked(S)] + g[U]
    BY <1>1, <1>3 DEF SumOf
  <2> QED BY <1>1, <1>3, <2>2, <2>5, <2>6
<1> QED BY <1>2, <1>3

-----------------------------------------------------------------------------
(* What the other proofs cite.                                             *)

LEMMA SumEmpty == ASSUME NEW f PROVE SumFunctionOnSet(f, {}) = 0
  BY SumEquation, FS_EmptySet

LEMMA SumInteger ==
  ASSUME NEW S, IsFiniteSet(S), NEW f, \A x \in S : f[x] \in Int
  PROVE  SumFunctionOnSet(f, S) \in Int
<1> DEFINE G == {T \in SUBSET S : SumFunctionOnSet(f, T) \in Int}
<1>1. ASSUME NEW T \in SUBSET S, \A x \in T : T \ {x} \in G PROVE T \in G
  <2>1. IsFiniteSet(T)
    BY FS_Subset
  <2>2. CASE T = {}
    BY <2>2, SumEmpty
  <2>3. CASE T # {}
    <3> DEFINE p == Picked(T)
    <3>1. p \in T /\ T \ {p} \in G
      BY <1>1, <2>3, PickedIsIn
    <3>2. SumFunctionOnSet(f, T) = f[p] + SumFunctionOnSet(f, T \ {p})
      BY <2>1, <2>3, SumEquation
    <3> HIDE DEF p
    <3> QED BY <3>1, <3>2
  <2> QED BY <2>2, <2>3
<1> HIDE DEF G
<1>2. S \in G
  BY <1>1, SetInduction
<1> QED BY <1>2 DEF G

\* Any element can be taken out of a sum.
LEMMA SumTakeOut ==
  ASSUME NEW S, IsFiniteSet(S), NEW f, \A x \in S : f[x] \in Int, NEW e \in S
  PROVE  SumFunctionOnSet(f, S) = f[e] + SumFunctionOnSet(f, S \ {e})
<1> DEFINE G == {T \in SUBSET S : \A x \in T : SumFunctionOnSet(f, T) = f[x] + SumFunctionOnSet(f, T \ {x})}
<1>1. ASSUME NEW T \in SUBSET S, \A x \in T : T \ {x} \in G PROVE T \in G
  <2> SUFFICES ASSUME NEW x \in T
               PROVE  SumFunctionOnSet(f, T) = f[x] + SumFunctionOnSet(f, T \ {x})
    OBVIOUS
  <2> DEFINE p == Picked(T)
  <2>1. p \in T
    BY PickedIsIn
  <2>2. IsFiniteSet(T) /\ IsFiniteSet(T \ {p, x})
    BY FS_Subset
  <2>3. SumFunctionOnSet(f, T) = f[p] + SumFunctionOnSet(f, T \ {p})
    BY <2>2, SumEquation
  <2> HIDE DEF p
  <2>4. CASE x = p
    BY <2>3, <2>4
  <2>5. CASE x # p
    <3>1. (T \ {p}) \ {x} = T \ {p, x} /\ (T \ {x}) \ {p} = T \ {p, x}
      OBVIOUS
    <3>2. SumFunctionOnSet(f, T \ {p}) = f[x] + SumFunctionOnSet(f, T \ {p, x})
      BY <1>1, <2>1, <2>5, <3>1
    <3>3. SumFunctionOnSet(f, T \ {x}) = f[p] + SumFunctionOnSet(f, T \ {p, x})
      BY <1>1, <2>1, <2>5, <3>1
    <3>4. SumFunctionOnSet(f, T \ {p, x}) \in Int
      BY <2>2, SumInteger
    <3>5. f[x] \in Int /\ f[p] \in Int
      BY <2>1
    <3> QED BY <2>3, <3>2, <3>3, <3>4, <3>5
  <2> QED BY <2>4, <2>5
<1> HIDE DEF G
<1>2. S \in G
  BY <1>1, SetInduction
<1> QED BY <1>2 DEF G

LEMMA SumNatural ==
  ASSUME NEW S, IsFiniteSet(S), NEW f, \A x \in S : f[x] \in Nat
  PROVE  SumFunctionOnSet(f, S) \in Nat
<1> DEFINE G == {T \in SUBSET S : SumFunctionOnSet(f, T) \in Nat}
<1>1. ASSUME NEW T \in SUBSET S, \A x \in T : T \ {x} \in G PROVE T \in G
  <2>1. IsFiniteSet(T)
    BY FS_Subset
  <2>2. CASE T = {}
    BY <2>2, SumEmpty
  <2>3. CASE T # {}
    <3> DEFINE p == Picked(T)
    <3>1. p \in T /\ T \ {p} \in G
      BY <1>1, <2>3, PickedIsIn
    <3>2. SumFunctionOnSet(f, T) = f[p] + SumFunctionOnSet(f, T \ {p})
      BY <2>1, <2>3, SumEquation
    <3> HIDE DEF p
    <3> QED BY <3>1, <3>2
  <2> QED BY <2>2, <2>3
<1> HIDE DEF G
<1>2. S \in G
  BY <1>1, SetInduction
<1> QED BY <1>2 DEF G

\* Sums add up, and so do those of equal, of changed and of smaller parts.
LEMMA SumPlus ==
  ASSUME NEW S, IsFiniteSet(S), NEW f, NEW g, NEW h,
         \A x \in S : f[x] \in Int /\ g[x] \in Int /\ h[x] = f[x] + g[x]
  PROVE  SumFunctionOnSet(h, S) = SumFunctionOnSet(f, S) + SumFunctionOnSet(g, S)
<1> DEFINE G == {T \in SUBSET S : SumFunctionOnSet(h, T) = SumFunctionOnSet(f, T) + SumFunctionOnSet(g, T)}
<1>1. ASSUME NEW T \in SUBSET S, \A x \in T : T \ {x} \in G PROVE T \in G
  <2>1. IsFiniteSet(T)
    BY FS_Subset
  <2>2. CASE T = {}
    BY <2>2, SumEmpty
  <2>3. CASE T # {}
    <3> DEFINE p == Picked(T)
               U == T \ {p}
    <3>1. p \in T /\ U \in G /\ IsFiniteSet(U)
      BY <1>1, <2>1, <2>3, PickedIsIn, FS_Subset
    <3>2. /\ SumFunctionOnSet(f, T) = f[p] + SumFunctionOnSet(f, U)
          /\ SumFunctionOnSet(g, T) = g[p] + SumFunctionOnSet(g, U)
          /\ SumFunctionOnSet(h, T) = h[p] + SumFunctionOnSet(h, U)
      BY <2>1, <2>3, SumEquation
    <3> HIDE DEF p, U
    <3>3. SumFunctionOnSet(f, U) \in Int /\ SumFunctionOnSet(g, U) \in Int
      <4>1. \A x \in U : f[x] \in Int /\ g[x] \in Int
        BY DEF U
      <4> QED BY <3>1, <4>1, SumInteger
    <3>4. f[p] \in Int /\ g[p] \in Int /\ h[p] = f[p] + g[p]
      BY <3>1
    <3>5. SumFunctionOnSet(h, U) = SumFunctionOnSet(f, U) + SumFunctionOnSet(g, U)
      BY <3>1
    <3>6. SumFunctionOnSet(h, T) = SumFunctionOnSet(f, T) + SumFunctionOnSet(g, T)
      BY <3>2, <3>3, <3>4, <3>5
    <3> QED BY <3>6
  <2> QED BY <2>2, <2>3
<1> HIDE DEF G
<1>2. S \in G
  BY <1>1, SetInduction
<1> QED BY <1>2 DEF G

LEMMA SumEqual ==
  ASSUME NEW S, IsFiniteSet(S), NEW f, NEW g, \A x \in S : f[x] = g[x]
  PROVE  SumFunctionOnSet(f, S) = SumFunctionOnSet(g, S)
<1> DEFINE G == {T \in SUBSET S : SumFunctionOnSet(f, T) = SumFunctionOnSet(g, T)}
<1>1. ASSUME NEW T \in SUBSET S, \A x \in T : T \ {x} \in G PROVE T \in G
  <2>1. IsFiniteSet(T)
    BY FS_Subset
  <2>2. CASE T = {}
    BY <2>2, SumEmpty
  <2>3. CASE T # {}
    <3> DEFINE p == Picked(T)
    <3>1. p \in T /\ T \ {p} \in G
      BY <1>1, <2>3, PickedIsIn
    <3>2. SumFunctionOnSet(f, T) = f[p] + SumFunctionOnSet(f, T \ {p})
      BY <2>1, <2>3, SumEquation
    <3>3. SumFunctionOnSet(g, T) = g[p] + SumFunctionOnSet(g, T \ {p})
      BY <2>1, <2>3, SumEquation
    <3> HIDE DEF p
    <3> QED BY <3>1, <3>2, <3>3
  <2> QED BY <2>2, <2>3
<1> HIDE DEF G
<1>2. S \in G
  BY <1>1, SetInduction
<1> QED BY <1>2 DEF G

LEMMA SumChange ==
  ASSUME NEW S, IsFiniteSet(S), NEW f, NEW g, NEW e \in S,
         \A x \in S : f[x] \in Int, g[e] \in Int, \A x \in S \ {e} : g[x] = f[x]
  PROVE  SumFunctionOnSet(g, S) = SumFunctionOnSet(f, S) - f[e] + g[e]
<1>1. IsFiniteSet(S \ {e}) /\ \A x \in S : g[x] \in Int
  BY FS_RemoveElement
<1>2. SumFunctionOnSet(g, S \ {e}) = SumFunctionOnSet(f, S \ {e})
  BY <1>1, SumEqual
<1>3. SumFunctionOnSet(f, S \ {e}) \in Int
  BY <1>1, SumInteger
<1>4. /\ SumFunctionOnSet(f, S) = f[e] + SumFunctionOnSet(f, S \ {e})
      /\ SumFunctionOnSet(g, S) = g[e] + SumFunctionOnSet(g, S \ {e})
  BY <1>1, SumTakeOut
<1> QED BY <1>2, <1>3, <1>4

\* What one part loses, another has gained.
MovedPart(f, g, S, from, to, n) ==
  /\ from \in S /\ to \in S /\ from # to /\ n \in Int
  /\ \A x \in S : f[x] \in Int
  /\ g[from] = f[from] - n /\ g[to] = f[to] + n
  /\ \A x \in S \ {from, to} : g[x] = f[x]

LEMMA SumMove ==
  ASSUME NEW f, NEW g, NEW S, NEW from, NEW to, NEW n, IsFiniteSet(S), MovedPart(f, g, S, from, to, n)
  PROVE  SumFunctionOnSet(g, S) = SumFunctionOnSet(f, S)
<1> DEFINE T == S \ {from}
           U == T \ {to}
<1>1. /\ to \in T /\ \A x \in T : f[x] \in Int /\ g[x] \in Int
      /\ \A x \in S : f[x] \in Int /\ g[x] \in Int
      /\ \A x \in U : f[x] \in Int /\ f[x] = g[x]
      /\ from \in S /\ g[from] = f[from] - n /\ g[to] = f[to] + n /\ n \in Int
  BY DEF MovedPart
<1>2. IsFiniteSet(T) /\ IsFiniteSet(U)
  BY FS_RemoveElement
<1>3. SumFunctionOnSet(f, S) = f[from] + SumFunctionOnSet(f, T)
  BY <1>1, SumTakeOut
<1>4. SumFunctionOnSet(g, S) = g[from] + SumFunctionOnSet(g, T)
  BY <1>1, SumTakeOut
<1> HIDE DEF T
<1>5. SumFunctionOnSet(f, T) = f[to] + SumFunctionOnSet(f, U)
  BY <1>1, <1>2, SumTakeOut
<1>6. SumFunctionOnSet(g, T) = g[to] + SumFunctionOnSet(g, U)
  BY <1>1, <1>2, SumTakeOut
<1> HIDE DEF U
<1>7. SumFunctionOnSet(f, U) = SumFunctionOnSet(g, U)
  BY <1>1, <1>2, SumEqual
<1>8. SumFunctionOnSet(f, U) \in Int
  BY <1>1, <1>2, SumInteger
<1>9. f[from] \in Int /\ f[to] \in Int
  BY DEF MovedPart
<1> QED BY <1>1, <1>3, <1>4, <1>5, <1>6, <1>7, <1>8, <1>9

LEMMA SumAtMost ==
  ASSUME NEW S, IsFiniteSet(S), NEW f, NEW g,
         \A x \in S : f[x] \in Int /\ g[x] \in Int /\ f[x] <= g[x]
  PROVE  SumFunctionOnSet(f, S) <= SumFunctionOnSet(g, S)
<1> DEFINE h == [x \in S |-> g[x] - f[x]]
<1>1. \A x \in S : h[x] \in Nat /\ h[x] \in Int /\ g[x] = f[x] + h[x]
  OBVIOUS
<1> HIDE DEF h
<1>2. SumFunctionOnSet(g, S) = SumFunctionOnSet(f, S) + SumFunctionOnSet(h, S)
  BY <1>1, SumPlus
<1>3. SumFunctionOnSet(h, S) \in Nat
  BY <1>1, SumNatural
<1>4. SumFunctionOnSet(f, S) \in Int
  BY SumInteger
<1> QED BY <1>2, <1>3, <1>4

LEMMA SumMember ==
  ASSUME NEW S, IsFiniteSet(S), NEW f, \A x \in S : f[x] \in Nat, NEW e \in S
  PROVE  f[e] <= SumFunctionOnSet(f, S)
<1>1. IsFiniteSet(S \ {e})
  BY FS_RemoveElement
<1>2. SumFunctionOnSet(f, S) = f[e] + SumFunctionOnSet(f, S \ {e})
  BY SumTakeOut
<1>3. SumFunctionOnSet(f, S \ {e}) \in Nat
  BY <1>1, SumNatural
<1> QED BY <1>2, <1>3

LEMMA SumZero ==
  ASSUME NEW S, IsFiniteSet(S), NEW f, \A x \in S : f[x] = 0
  PROVE  SumFunctionOnSet(f, S) = 0
<1>1. \A x \in S : f[x] \in Int /\ f[x] = f[x] + f[x]
  OBVIOUS
<1> DEFINE sum == SumFunctionOnSet(f, S)
<1>2. sum = sum + sum
  BY <1>1, SumPlus
<1>3. sum \in Int
  BY <1>1, SumInteger
<1>4. sum = 0
  <2> HIDE DEF sum
  <2> QED BY <1>2, <1>3
<1> QED BY <1>4

-----------------------------------------------------------------------------
(* The larger and the smaller of two numbers, the largest of some, and the *)
(* positions of a sequence.                                                *)

LEMMA LargerOf == ASSUME NEW a \in Int, NEW b \in Int PROVE Max({a, b}) = IF a >= b THEN a ELSE b
<1>1. \E x \in {a, b} : \A y \in {a, b} : x >= y
  OBVIOUS
<1> QED BY <1>1 DEF Max

LEMMA SmallerOf == ASSUME NEW a \in Int, NEW b \in Int PROVE Min({a, b}) = IF a <= b THEN a ELSE b
<1>1. \E x \in {a, b} : \A y \in {a, b} : x <= y
  OBVIOUS
<1> QED BY <1>1 DEF Min

LEMMA PositionsFinite ==
  ASSUME NEW S, NEW s \in Seq(S)
  PROVE  IsFiniteSet(DOMAIN s) /\ DOMAIN s = 1..Len(s) /\ \A i \in DOMAIN s : s[i] \in S
<1>1. DOMAIN s = 1..Len(s) /\ Len(s) \in Nat
  OBVIOUS
<1>2. IsFiniteSet(1..Len(s))
  BY <1>1, FS_Interval
<1> QED BY <1>1, <1>2

LEMMA LargestIsThere ==
  ASSUME NEW S, IsFiniteSet(S), S # {}, \A x \in S : x \in Int
  PROVE  Max(S) \in S /\ \A y \in S : Max(S) >= y
<1> DEFINE G == {T \in SUBSET S : T # {} => \E x \in T : \A y \in T : x >= y}
<1>1. ASSUME NEW T \in SUBSET S, \A x \in T : T \ {x} \in G PROVE T \in G
  <2> SUFFICES ASSUME NEW e \in T PROVE \E x \in T : \A y \in T : x >= y
    OBVIOUS
  <2>1. CASE T \ {e} = {}
    BY <2>1
  <2>2. CASE T \ {e} # {}
    <3>1. PICK x \in T \ {e} : \A y \in T \ {e} : x >= y
      BY <1>1, <2>2
    <3>2. x \in Int /\ e \in Int
      OBVIOUS
    <3> QED BY <3>1, <3>2
  <2> QED BY <2>1, <2>2
<1> HIDE DEF G
<1>2. S \in G
  BY <1>1, SetInduction
<1>3. \E x \in S : \A y \in S : x >= y
  BY <1>2 DEF G
<1> QED BY <1>3 DEF Max

LEMMA SmallestIsThere ==
  ASSUME NEW S, IsFiniteSet(S), S # {}, \A x \in S : x \in Int
  PROVE  Min(S) \in S /\ \A y \in S : Min(S) <= y
<1> DEFINE G == {T \in SUBSET S : T # {} => \E x \in T : \A y \in T : x <= y}
<1>1. ASSUME NEW T \in SUBSET S, \A x \in T : T \ {x} \in G PROVE T \in G
  <2> SUFFICES ASSUME NEW e \in T PROVE \E x \in T : \A y \in T : x <= y
    OBVIOUS
  <2>1. CASE T \ {e} = {}
    BY <2>1
  <2>2. CASE T \ {e} # {}
    <3>1. PICK x \in T \ {e} : \A y \in T \ {e} : x <= y
      BY <1>1, <2>2
    <3>2. x \in Int /\ e \in Int
      OBVIOUS
    <3> QED BY <3>1, <3>2
  <2> QED BY <2>1, <2>2
<1> HIDE DEF G
<1>2. S \in G
  BY <1>1, SetInduction
<1>3. \E x \in S : \A y \in S : x <= y
  BY <1>2 DEF G
<1> QED BY <1>3 DEF Min
===============================================================================
