----------------------------- MODULE Sums_proofs -----------------------------
(***************************************************************************)
(* Sums over finite sets (MapThenSumSet): what the totals in the books, the    *)
(* balances of documents and the stock levels are made of.  The order in which  *)
(* a sum goes through its set does not matter, so a change of one element       *)
(* changes the sum by as much.                                                *)
(***************************************************************************)
EXTENDS Integers, FiniteSets, FiniteSetsExt, FiniteSetTheorems, WellFoundedInduction, TLAPS

-----------------------------------------------------------------------------
(* Induction, stated for sets: the provers cannot instantiate a predicate.    *)

\* A set of naturals that is not empty has a least element.
LEMMA LeastNatural ==
  ASSUME NEW S \in SUBSET Nat, S # {}
  PROVE  \E n \in S : \A m \in S : n <= m
<1> DEFINE R == OpToRel(<, Nat)
<1>1. IsWellFoundedOn(R, Nat)
  BY NatLessThanWellFounded
<1>2. \A m, n \in Nat : <<m, n>> \in R <=> m < n
  BY DEF OpToRel
<1> HIDE DEF R
<1>3. PICK n \in S : \A m \in S : <<m, n>> \notin R
  BY <1>1, WFMin
<1>4. \A m \in S : m \in Nat /\ n \in Nat /\ ~ (m < n)
  BY <1>2, <1>3
<1>5. \A m \in S : n <= m
  BY <1>4
<1> QED
  BY <1>3, <1>5

\* A set of finite sets that is not empty has a smallest member.
LEMMA SmallestSet ==
  ASSUME NEW C, C # {}, \A A \in C : IsFiniteSet(A)
  PROVE  \E A \in C : \A B \in C : Cardinality(A) <= Cardinality(B)
<1> DEFINE Sizes == {Cardinality(A) : A \in C}
<1>1. Sizes \in SUBSET Nat /\ Sizes # {}
  BY FS_CardinalityType
<1>2. PICK n \in Sizes : \A m \in Sizes : n <= m
  <2> HIDE DEF Sizes
  <2> QED BY <1>1, LeastNatural
<1> QED
  BY <1>2

\* What holds of the empty set, and of a set once it holds of the set without any
\* one element, holds of every finite set.
LEMMA SetInduction ==
  ASSUME NEW S, IsFiniteSet(S), NEW Q, {} \in Q,
         \A A \in SUBSET S : A # {} /\ (\A x \in A : A \ {x} \in Q) => A \in Q
  PROVE  S \in Q
<1> DEFINE C == (SUBSET S) \ Q
<1>1. \A A \in C : IsFiniteSet(A)
  BY FS_Subset
<1> SUFFICES ASSUME C # {} PROVE FALSE
  OBVIOUS
<1>2. PICK A \in C : \A B \in C : Cardinality(A) <= Cardinality(B)
  <2> HIDE DEF C
  <2> QED BY <1>1, SmallestSet
<1>3. A # {} /\ A \in SUBSET S /\ IsFiniteSet(A)
  BY <1>1, <1>2
<1>4. ASSUME NEW x \in A PROVE A \ {x} \in Q
  <2>1. Cardinality(A \ {x}) = Cardinality(A) - 1 /\ Cardinality(A) \in Nat
    BY <1>3, FS_RemoveElement, FS_CardinalityType
  <2>2. A \ {x} \notin C
    BY <1>2, <2>1
  <2> QED
    BY <1>3, <2>2
<1> QED
  BY <1>2, <1>3, <1>4

-----------------------------------------------------------------------------
(* The sum of f over S.                                                      *)

SumOf(f, S) == MapThenSumSet(LAMBDA x : f[x], S)

\* The element a sum takes from s next, and the sums of the subsets of S, each
\* from a smaller one.
Next1(s) == CHOOSE x \in s : TRUE

Partial(f, S, g) ==
    [s \in SUBSET S |-> IF s = {} THEN 0 ELSE f[Next1(s)] + g[s \ {Next1(s)}]]

LEMMA SumOfDef ==
  ASSUME NEW f, NEW S
  PROVE  SumOf(f, S) = (CHOOSE g : g = Partial(f, S, g))[S]
  BY DEF SumOf, MapThenSumSet, MapThenFoldSet, Partial, Next1

LEMMA NextIsElement == \A s : s # {} => Next1(s) \in s
  BY DEF Next1

LEMMA PartialAt ==
  ASSUME NEW f, NEW S, NEW g, g = Partial(f, S, g), NEW s \in SUBSET S
  PROVE  g[s] = IF s = {} THEN 0 ELSE f[Next1(s)] + g[s \ {Next1(s)}]
  BY DEF Partial

\* There is one function of the subsets of S that gives each its sum.
LEMMA SumsAreUnique ==
  ASSUME NEW f, NEW S, IsFiniteSet(S), NEW g, NEW h,
         g = Partial(f, S, g), NEW T \in SUBSET S, h = Partial(f, T, h)
  PROVE  \A s \in SUBSET T : g[s] = h[s]
<1>1. SUFFICES ASSUME NEW R \in SUBSET T PROVE g[R] = h[R]
  OBVIOUS
<1> DEFINE Q == {s \in SUBSET T : g[s] = h[s]}
<1>2. \A s \in SUBSET T :
         /\ g[s] = IF s = {} THEN 0 ELSE f[Next1(s)] + g[s \ {Next1(s)}]
         /\ h[s] = IF s = {} THEN 0 ELSE f[Next1(s)] + h[s \ {Next1(s)}]
  BY DEF Partial
<1>3. {} \in Q
  BY <1>2
<1>4. ASSUME NEW A \in SUBSET R, A # {}, \A x \in A : A \ {x} \in Q PROVE A \in Q
  BY <1>2, <1>4, NextIsElement
<1>5. IsFiniteSet(R)
  BY FS_Subset
<1>6. R \in Q
  <2> HIDE DEF Q
  <2> QED BY <1>3, <1>4, <1>5, SetInduction
<1> QED
  BY <1>6

LEMMA SumsExist ==
  ASSUME NEW f, NEW S, IsFiniteSet(S)
  PROVE  \E g : g = Partial(f, S, g)
<1> DEFINE Q == {s \in SUBSET S : \E g : g = Partial(f, s, g)}
<1>1. {} \in Q
  <2> DEFINE g == [s \in SUBSET {} |-> 0]
  <2>1. g = Partial(f, {}, g)
    BY DEF Partial
  <2> HIDE DEF g
  <2> QED BY <2>1
<1>2. ASSUME NEW A \in SUBSET S, A # {}, \A x \in A : A \ {x} \in Q PROVE A \in Q
  <2> DEFINE part(x) == CHOOSE g : g = Partial(f, A \ {x}, g)
             sum(s)  == IF s = {} THEN 0
                        ELSE f[Next1(s)] +
                               (IF s = A THEN part(Next1(A))[A \ {Next1(A)}]
                                ELSE part(CHOOSE x \in A : x \notin s)[s \ {Next1(s)}])
             g       == [s \in SUBSET A |-> sum(s)]
  <2>1. \A x \in A : part(x) = Partial(f, A \ {x}, part(x))
    <3>1. ASSUME NEW x \in A PROVE part(x) = Partial(f, A \ {x}, part(x))
      <4>1. \E h : h = Partial(f, A \ {x}, h)
        BY <1>2, <3>1
      <4> QED
        BY <4>1
    <3> QED BY <3>1
  <2> HIDE DEF part
  <2>2. \A x \in A : \A t \in SUBSET (A \ {x}) :
            part(x)[t] = IF t = {} THEN 0 ELSE f[Next1(t)] + part(x)[t \ {Next1(t)}]
    <3>1. ASSUME NEW x \in A, NEW t \in SUBSET (A \ {x})
          PROVE  part(x)[t] = IF t = {} THEN 0 ELSE f[Next1(t)] + part(x)[t \ {Next1(t)}]
      <4>1. part(x) = Partial(f, A \ {x}, part(x))
        BY <2>1
      <4> QED BY <4>1, PartialAt
    <3> QED BY <3>1
  <2>3. \A x, y \in A : \A s \in SUBSET (A \ {x, y}) : part(x)[s] = part(y)[s]
    <3>1. ASSUME NEW x \in A, NEW y \in A, NEW s \in SUBSET (A \ {x, y})
          PROVE  part(x)[s] = part(y)[s]
      <4> DEFINE B == A \ {x, y}
                 h == [t \in SUBSET B |-> part(x)[t]]
      <4>1. IsFiniteSet(A \ {x}) /\ IsFiniteSet(A \ {y})
        <5>1. A \ {x} \in SUBSET S /\ A \ {y} \in SUBSET S
          OBVIOUS
        <5> QED BY <5>1, FS_Subset
      <4>2. h = Partial(f, B, h)
        <5>1. \A t \in SUBSET B :
                 part(x)[t] = IF t = {} THEN 0 ELSE f[Next1(t)] + part(x)[t \ {Next1(t)}]
          BY <2>2
        <5>2. \A t \in SUBSET B :
                 h[t] = IF t = {} THEN 0 ELSE f[Next1(t)] + h[t \ {Next1(t)}]
          BY <5>1
        <5> QED BY <5>2 DEF Partial
      <4>3. B \in SUBSET (A \ {x}) /\ B \in SUBSET (A \ {y}) /\ s \in SUBSET B
        OBVIOUS
      <4>4. part(x) = Partial(f, A \ {x}, part(x)) /\ part(y) = Partial(f, A \ {y}, part(y))
        BY <2>1
      <4> HIDE DEF B, h
      <4>5. part(x)[s] = h[s] /\ part(y)[s] = h[s]
        BY <4>1, <4>2, <4>3, <4>4, SumsAreUnique
      <4> QED BY <4>5
    <3> QED BY <3>1
  <2>4. \A s \in SUBSET A : \A x \in A \ s :
           g[s] = part(x)[s]
    <3>1. ASSUME NEW s \in SUBSET A, NEW x \in A \ s PROVE g[s] = part(x)[s]
      <4> DEFINE y == CHOOSE z \in A : z \notin s
      <4>1. y \in A /\ y \notin s
        OBVIOUS
      <4>2. part(x)[s] = IF s = {} THEN 0 ELSE f[Next1(s)] + part(x)[s \ {Next1(s)}]
        <5>1. s \in SUBSET (A \ {x})
          OBVIOUS
        <5> QED BY <2>2, <5>1
      <4>3. part(x)[s \ {Next1(s)}] = part(y)[s \ {Next1(s)}]
        <5>1. s \ {Next1(s)} \in SUBSET (A \ {x, y})
          BY <4>1
        <5> QED BY <2>3, <4>1, <5>1
      <4> QED
        BY <4>2, <4>3
    <3> QED BY <3>1
  <2>5. \A s \in SUBSET A :
           g[s] = IF s = {} THEN 0 ELSE f[Next1(s)] + g[s \ {Next1(s)}]
    <3>1. ASSUME NEW s \in SUBSET A, s # {} PROVE g[s] = f[Next1(s)] + g[s \ {Next1(s)}]
      <4> DEFINE n == Next1(s)
                 y == CHOOSE x \in A : x \notin s
      <4>1. n \in s
        BY <3>1, NextIsElement
      <4>2. CASE s = A
        <5>1. g[s \ {n}] = part(n)[s \ {n}]
          BY <2>4, <4>1
        <5> QED
          BY <3>1, <4>2, <5>1
      <4>3. CASE s # A
        <5>1. y \in A /\ y \notin s
          BY <4>3
        <5>2. g[s \ {n}] = part(y)[s \ {n}]
          BY <2>4, <5>1
        <5> QED
          BY <3>1, <4>3, <5>2
      <4> QED BY <4>2, <4>3
    <3> QED BY <3>1
  <2>6. g = Partial(f, A, g)
    <3>1. g = [s \in SUBSET A |-> g[s]]
      OBVIOUS
    <3> HIDE DEF g
    <3> QED BY <2>5, <3>1 DEF Partial
  <2> HIDE DEF g
  <2> QED BY <2>6
<1>3. S \in Q
  <2> HIDE DEF Q
  <2> QED BY <1>1, <1>2, SetInduction
<1> QED
  BY <1>3

LEMMA SumStep ==
  ASSUME NEW f, NEW S, IsFiniteSet(S)
  PROVE  SumOf(f, S) = IF S = {} THEN 0 ELSE f[Next1(S)] + SumOf(f, S \ {Next1(S)})
<1> DEFINE part(T) == CHOOSE g : g = Partial(f, T, g)
           T == S \ {Next1(S)}
<1>1. IsFiniteSet(T)
  BY FS_Subset
<1>2. part(S) = Partial(f, S, part(S)) /\ part(T) = Partial(f, T, part(T))
  <2>1. (\E g : g = Partial(f, S, g)) /\ (\E g : g = Partial(f, T, g))
    BY <1>1, SumsExist
  <2> QED
    BY <2>1
<1>3. SumOf(f, S) = part(S)[S] /\ SumOf(f, T) = part(T)[T]
  BY SumOfDef
<1> HIDE DEF part
<1>4. part(S)[S] = IF S = {} THEN 0 ELSE f[Next1(S)] + part(S)[T]
  BY <1>2, PartialAt
<1>5. part(S)[T] = part(T)[T]
  <2>1. T \in SUBSET S /\ T \in SUBSET T
    OBVIOUS
  <2> HIDE DEF T
  <2> QED BY <1>2, <2>1, SumsAreUnique
<1> QED
  BY <1>3, <1>4, <1>5

LEMMA SumOfNone == \A f : SumOf(f, {}) = 0
  BY FS_EmptySet, SumStep

LEMMA SumIsInteger ==
  ASSUME NEW f, NEW S, IsFiniteSet(S), \A x \in S : f[x] \in Int
  PROVE  SumOf(f, S) \in Int
<1> DEFINE Q == {A \in SUBSET S : SumOf(f, A) \in Int}
<1>1. {} \in Q
  BY SumOfNone
<1>2. ASSUME NEW A \in SUBSET S, A # {}, \A x \in A : A \ {x} \in Q PROVE A \in Q
  <2>1. IsFiniteSet(A) /\ Next1(A) \in A
    BY <1>2, FS_Subset, NextIsElement
  <2>2. SumOf(f, A) = f[Next1(A)] + SumOf(f, A \ {Next1(A)})
    BY <1>2, <2>1, SumStep
  <2> QED
    BY <1>2, <2>1, <2>2
<1>3. S \in Q
  <2> HIDE DEF Q
  <2> QED BY <1>1, <1>2, SetInduction
<1> QED
  BY <1>3

\* Any element may be taken from a sum first.
LEMMA SumTakes ==
  ASSUME NEW f, NEW S, IsFiniteSet(S), \A x \in S : f[x] \in Int
  PROVE  \A x \in S : SumOf(f, S) = f[x] + SumOf(f, S \ {x})
<1> DEFINE Q == {A \in SUBSET S : \A x \in A : SumOf(f, A) = f[x] + SumOf(f, A \ {x})}
<1>1. {} \in Q
  OBVIOUS
<1>2. ASSUME NEW A \in SUBSET S, A # {}, \A x \in A : A \ {x} \in Q PROVE A \in Q
  <2> DEFINE n == Next1(A)
  <2>1. IsFiniteSet(A) /\ n \in A
    BY <1>2, FS_Subset, NextIsElement
  <2>2. SumOf(f, A) = f[n] + SumOf(f, A \ {n})
    BY <1>2, <2>1, SumStep
  <2>3. ASSUME NEW x \in A, x # n PROVE SumOf(f, A) = f[x] + SumOf(f, A \ {x})
    <3> DEFINE B == A \ {n, x}
    <3>1. SumOf(f, A \ {n}) = f[x] + SumOf(f, B) /\ SumOf(f, A \ {x}) = f[n] + SumOf(f, B)
      <4>1. (A \ {n}) \ {x} = B /\ (A \ {x}) \ {n} = B /\ x \in A \ {n} /\ n \in A \ {x}
        BY <2>1, <2>3
      <4> HIDE DEF n, B
      <4> QED BY <1>2, <2>1, <4>1
    <3>2. SumOf(f, B) \in Int /\ f[n] \in Int /\ f[x] \in Int
      <4>1. B \in SUBSET S /\ IsFiniteSet(B) /\ n \in S /\ x \in S
        BY <2>1, FS_Subset
      <4> HIDE DEF n, B
      <4> QED BY <4>1, SumIsInteger
    <3> HIDE DEF n, B
    <3> QED BY <2>2, <3>1, <3>2
  <2> HIDE DEF n
  <2> QED BY <2>2, <2>3
<1>3. S \in Q
  <2> HIDE DEF Q
  <2> QED BY <1>1, <1>2, SetInduction
<1> QED
  BY <1>3

-----------------------------------------------------------------------------
(* What the balances need of sums.                                           *)

LEMMA SumOfOne ==
  ASSUME NEW f, NEW x, f[x] \in Int
  PROVE  SumOf(f, {x}) = f[x]
<1>1. IsFiniteSet({x}) /\ {x} \ {x} = {}
  BY FS_Singleton
<1>2. SumOf(f, {x}) = f[x] + SumOf(f, {x} \ {x})
  BY <1>1, SumTakes
<1> QED
  BY <1>1, <1>2, SumOfNone

\* Functions that agree on a set have the same sum over it.
LEMMA SumsAgree ==
  ASSUME NEW f, NEW g, NEW S, IsFiniteSet(S), \A x \in S : f[x] = g[x]
  PROVE  SumOf(f, S) = SumOf(g, S)
<1> DEFINE Q == {A \in SUBSET S : SumOf(f, A) = SumOf(g, A)}
<1>1. {} \in Q
  BY SumOfNone
<1>2. ASSUME NEW A \in SUBSET S, A # {}, \A x \in A : A \ {x} \in Q PROVE A \in Q
  <2>1. IsFiniteSet(A) /\ Next1(A) \in A
    BY <1>2, FS_Subset, NextIsElement
  <2>2. /\ SumOf(f, A) = f[Next1(A)] + SumOf(f, A \ {Next1(A)})
        /\ SumOf(g, A) = g[Next1(A)] + SumOf(g, A \ {Next1(A)})
    BY <1>2, <2>1, SumStep
  <2> QED
    BY <1>2, <2>1, <2>2
<1>3. S \in Q
  <2> HIDE DEF Q
  <2> QED BY <1>1, <1>2, SetInduction
<1> QED
  BY <1>3

\* Zeros sum to zero.
LEMMA SumOfZeros ==
  ASSUME NEW f, NEW S, IsFiniteSet(S), \A x \in S : f[x] = 0
  PROVE  SumOf(f, S) = 0
<1> DEFINE Q == {A \in SUBSET S : SumOf(f, A) = 0}
<1>1. {} \in Q
  BY SumOfNone
<1>2. ASSUME NEW A \in SUBSET S, A # {}, \A x \in A : A \ {x} \in Q PROVE A \in Q
  <2>1. IsFiniteSet(A) /\ Next1(A) \in A
    BY <1>2, FS_Subset, NextIsElement
  <2>2. SumOf(f, A) = f[Next1(A)] + SumOf(f, A \ {Next1(A)})
    BY <1>2, <2>1, SumStep
  <2> QED
    BY <1>2, <2>1, <2>2
<1>3. S \in Q
  <2> HIDE DEF Q
  <2> QED BY <1>1, <1>2, SetInduction
<1> QED
  BY <1>3

\* A change of one element changes the sum by as much.
LEMMA SumChanges ==
  ASSUME NEW f, NEW g, NEW S, IsFiniteSet(S), NEW x \in S,
         \A y \in S : f[y] \in Int /\ g[y] \in Int,
         \A y \in S : y # x => f[y] = g[y]
  PROVE  SumOf(g, S) = SumOf(f, S) - f[x] + g[x]
<1> DEFINE R == S \ {x}
<1>1. IsFiniteSet(R) /\ \A y \in R : f[y] = g[y] /\ f[y] \in Int
  BY FS_Subset
<1>2. SumOf(f, S) = f[x] + SumOf(f, R) /\ SumOf(g, S) = g[x] + SumOf(g, R)
  BY SumTakes
<1> HIDE DEF R
<1>3. SumOf(f, R) = SumOf(g, R) /\ SumOf(f, R) \in Int
  BY <1>1, SumsAgree, SumIsInteger
<1> QED
  BY <1>2, <1>3

\* No element of a sum of naturals exceeds it.
LEMMA SumBounds ==
  ASSUME NEW f, NEW S, IsFiniteSet(S), \A x \in S : f[x] \in Nat
  PROVE  SumOf(f, S) \in Nat /\ \A x \in S : f[x] <= SumOf(f, S)
<1> DEFINE Q == {A \in SUBSET S : SumOf(f, A) \in Nat}
<1>1. {} \in Q
  BY SumOfNone
<1>2. ASSUME NEW A \in SUBSET S, A # {}, \A x \in A : A \ {x} \in Q PROVE A \in Q
  <2>1. IsFiniteSet(A) /\ Next1(A) \in A
    BY <1>2, FS_Subset, NextIsElement
  <2>2. SumOf(f, A) = f[Next1(A)] + SumOf(f, A \ {Next1(A)})
    BY <1>2, <2>1, SumStep
  <2> QED
    BY <1>2, <2>1, <2>2
<1>3. \A A \in SUBSET S : A \in Q
  <2> SUFFICES ASSUME NEW A \in SUBSET S PROVE A \in Q
    OBVIOUS
  <2>1. IsFiniteSet(A) /\ \A B \in SUBSET A : B \in SUBSET S
    BY FS_Subset
  <2> HIDE DEF Q
  <2> QED BY <1>1, <1>2, <2>1, SetInduction
<1>4. ASSUME NEW x \in S PROVE f[x] <= SumOf(f, S)
  <2>1. SumOf(f, S) = f[x] + SumOf(f, S \ {x})
    BY SumTakes
  <2>2. SumOf(f, S \ {x}) \in Nat
    BY <1>3
  <2> QED
    BY <2>1, <2>2
<1> QED
  BY <1>3, <1>4

\* The sum over two sets that do not meet.
LEMMA SumOfUnion ==
  ASSUME NEW f, NEW S, NEW T, IsFiniteSet(S), IsFiniteSet(T), S \cap T = {},
         \A x \in S \cup T : f[x] \in Int
  PROVE  SumOf(f, S \cup T) = SumOf(f, S) + SumOf(f, T)
<1> DEFINE Q == {A \in SUBSET T : SumOf(f, S \cup A) = SumOf(f, S) + SumOf(f, A)}
<1>1. {} \in Q
  <2>1. SumOf(f, S) \in Int /\ SumOf(f, {}) = 0 /\ S \cup {} = S
    BY SumIsInteger, SumOfNone
  <2> QED
    BY <2>1
<1>2. ASSUME NEW A \in SUBSET T, A # {}, \A x \in A : A \ {x} \in Q PROVE A \in Q
  <2>1. PICK x \in A : TRUE
    BY <1>2
  <2>2. /\ IsFiniteSet(A) /\ IsFiniteSet(S \cup A) /\ IsFiniteSet(A \ {x})
        /\ (S \cup A) \ {x} = S \cup (A \ {x})
    BY <2>1, FS_Subset, FS_Union
  <2>3. SumOf(f, S \cup A) = f[x] + SumOf(f, S \cup (A \ {x}))
    BY <2>1, <2>2, SumTakes
  <2>4. SumOf(f, A) = f[x] + SumOf(f, A \ {x})
    BY <2>1, <2>2, SumTakes
  <2>5. SumOf(f, S) \in Int /\ SumOf(f, A \ {x}) \in Int /\ f[x] \in Int
    BY <2>1, <2>2, SumIsInteger
  <2>6. SumOf(f, S \cup (A \ {x})) = SumOf(f, S) + SumOf(f, A \ {x})
    BY <1>2, <2>1
  <2>7. SumOf(f, S \cup A) = SumOf(f, S) + SumOf(f, A)
    BY <2>3, <2>4, <2>5, <2>6
  <2> QED
    BY <2>7
<1>3. T \in Q
  <2> HIDE DEF Q
  <2> QED BY <1>1, <1>2, SetInduction
<1> QED
  BY <1>3

\* A sum in parts: g[x] is the sum over the part F[x].
LEMMA SumByParts ==
  ASSUME NEW f, NEW g, NEW F, NEW A, IsFiniteSet(A),
         \A x \in A : IsFiniteSet(F[x]) /\ g[x] = SumOf(f, F[x]),
         \A x \in A : \A y \in F[x] : f[y] \in Int,
         \A x, y \in A : x # y => F[x] \cap F[y] = {}
  PROVE  SumOf(g, A) = SumOf(f, UNION {F[x] : x \in A})
<1> DEFINE All(B) == UNION {F[x] : x \in B}
           Q == {B \in SUBSET A : SumOf(g, B) = SumOf(f, All(B)) /\ IsFiniteSet(All(B))}
<1>1. {} \in Q
  <2>1. All({}) = {} /\ IsFiniteSet({})
    BY FS_EmptySet
  <2> QED
    BY <2>1, SumOfNone
<1>2. ASSUME NEW B \in SUBSET A, B # {}, \A x \in B : B \ {x} \in Q PROVE B \in Q
  <2>1. PICK x \in B : TRUE
    BY <1>2
  <2> DEFINE R == B \ {x}
  <2>2. IsFiniteSet(B) /\ \A y \in B : g[y] \in Int
    BY FS_Subset, SumIsInteger
  <2>3. All(B) = F[x] \cup All(R) /\ F[x] \cap All(R) = {}
    BY <2>1
  <2>4. SumOf(g, R) = SumOf(f, All(R)) /\ IsFiniteSet(All(R))
    BY <1>2, <2>1
  <2>5. SumOf(g, B) = g[x] + SumOf(g, R)
    BY <2>1, <2>2, SumTakes
  <2>6. IsFiniteSet(F[x]) /\ \A y \in F[x] \cup All(R) : f[y] \in Int
    BY <2>1
  <2> HIDE DEF All, R
  <2>7. SumOf(f, F[x] \cup All(R)) = SumOf(f, F[x]) + SumOf(f, All(R))
    BY <2>3, <2>4, <2>6, SumOfUnion
  <2>8. SumOf(g, B) = SumOf(f, All(B))
    BY <2>1, <2>3, <2>4, <2>5, <2>7
  <2>9. IsFiniteSet(F[x] \cup All(R))
    BY <2>4, <2>6, FS_Union
  <2> QED
    BY <2>3, <2>8, <2>9 DEF All
<1>3. A \in Q
  <2> HIDE DEF Q
  <2> QED BY <1>1, <1>2, SetInduction
<1> QED
  BY <1>3

\* A sum read through a one-to-one map t.
LEMMA SumThrough ==
  ASSUME NEW f, NEW h, NEW t, NEW S, IsFiniteSet(S),
         \A x \in S : h[x] = f[t[x]] /\ f[t[x]] \in Int,
         \A x, y \in S : t[x] = t[y] => x = y
  PROVE  SumOf(h, S) = SumOf(f, {t[x] : x \in S})
<1> DEFINE Through(A) == {t[x] : x \in A}
           Q == {A \in SUBSET S : /\ SumOf(h, A) = SumOf(f, Through(A))
                                  /\ IsFiniteSet(Through(A))}
<1>1. {} \in Q
  <2>1. Through({}) = {} /\ IsFiniteSet({})
    BY FS_EmptySet
  <2> QED
    BY <2>1, SumOfNone
<1>2. ASSUME NEW A \in SUBSET S, A # {}, \A x \in A : A \ {x} \in Q PROVE A \in Q
  <2>1. PICK x \in A : TRUE
    BY <1>2
  <2>2. /\ Through(A) = Through(A \ {x}) \cup {t[x]}
        /\ Through(A) \ {t[x]} = Through(A \ {x})
        /\ t[x] \in Through(A)
    BY <2>1
  <2>3. /\ SumOf(h, A \ {x}) = SumOf(f, Through(A \ {x}))
        /\ IsFiniteSet(Through(A \ {x}))
    BY <1>2, <2>1
  <2>4. /\ IsFiniteSet(A) /\ \A y \in A : h[y] \in Int
        /\ \A z \in Through(A) : f[z] \in Int
    BY FS_Subset
  <2> HIDE DEF Through
  <2>5. IsFiniteSet(Through(A))
    <3>1. IsFiniteSet(Through(A \ {x}) \cup {t[x]})
      BY <2>3, FS_AddElement
    <3> QED
      BY <2>2, <3>1
  <2>6. SumOf(h, A) = h[x] + SumOf(h, A \ {x})
    BY <2>1, <2>4, SumTakes
  <2>7. SumOf(f, Through(A)) = f[t[x]] + SumOf(f, Through(A \ {x}))
    <3> DEFINE T == Through(A)
               z == t[x]
    <3>1. SumOf(f, T) = f[z] + SumOf(f, T \ {z})
      <4>1. IsFiniteSet(T) /\ z \in T /\ \A y \in T : f[y] \in Int
        BY <2>2, <2>4, <2>5
      <4> HIDE DEF T, z
      <4> QED BY <4>1, SumTakes
    <3> QED
      BY <2>2, <3>1
  <2>8. SumOf(h, A) = SumOf(f, Through(A)) /\ IsFiniteSet(Through(A))
    BY <2>1, <2>3, <2>5, <2>6, <2>7
  <2> QED
    BY <2>8 DEF Through
<1>3. S \in Q
  <2> HIDE DEF Q
  <2> QED BY <1>1, <1>2, SetInduction
<1> QED
  BY <1>3

\* A table summed by rows and by columns.
LEMMA SumByRows ==
  ASSUME NEW f, NEW I, NEW P, IsFiniteSet(I), IsFiniteSet(P),
         \A k \in I \X P : f[k] \in Int
  PROVE  SumOf([i \in I |-> SumOf([p \in P |-> f[<<i, p>>]], P)], I) = SumOf(f, I \X P)
<1> DEFINE row(i) == [p \in P |-> f[<<i, p>>]]
           g == [i \in I |-> SumOf(row(i), P)]
           F == [i \in I |-> {i} \X P]
<1>1. ASSUME NEW i \in I PROVE IsFiniteSet(F[i]) /\ g[i] = SumOf(f, F[i])
  <2> DEFINE t == [p \in P |-> <<i, p>>]
  <2>1. F[i] = {t[p] : p \in P}
    OBVIOUS
  <2>2. /\ \A p \in P : row(i)[p] = f[t[p]] /\ f[t[p]] \in Int
        /\ \A p, q \in P : t[p] = t[q] => p = q
    OBVIOUS
  <2>3. g[i] = SumOf(row(i), P)
    OBVIOUS
  <2> HIDE DEF t, F, g
  <2>4. SumOf(row(i), P) = SumOf(f, {t[p] : p \in P})
    <3> HIDE DEF row
    <3> QED BY <2>2, SumThrough
  <2>5. IsFiniteSet({i} \X P)
    BY FS_Singleton, FS_Product
  <2> QED
    BY <2>1, <2>3, <2>4, <2>5 DEF F
<1>2. \A i, j \in I : i # j => F[i] \cap F[j] = {}
  OBVIOUS
<1>3. \A i \in I : \A y \in F[i] : f[y] \in Int
  OBVIOUS
<1>4. UNION {F[i] : i \in I} = I \X P
  OBVIOUS
<1>5. SumOf(g, I) = SumOf(f, UNION {F[i] : i \in I})
  <2> HIDE DEF F, g
  <2> QED BY <1>1, <1>2, <1>3, SumByParts
<1> QED
  BY <1>4, <1>5

LEMMA SumByColumns ==
  ASSUME NEW f, NEW I, NEW P, IsFiniteSet(I), IsFiniteSet(P),
         \A k \in I \X P : f[k] \in Int
  PROVE  SumOf([p \in P |-> SumOf(f, I \X {p})], P) = SumOf(f, I \X P)
<1> DEFINE g == [p \in P |-> SumOf(f, I \X {p})]
           F == [p \in P |-> I \X {p}]
<1>1. \A p \in P : IsFiniteSet(F[p]) /\ g[p] = SumOf(f, F[p])
  BY FS_Singleton, FS_Product
<1>2. /\ \A p, q \in P : p # q => F[p] \cap F[q] = {}
      /\ \A p \in P : \A y \in F[p] : f[y] \in Int
      /\ UNION {F[p] : p \in P} = I \X P
  OBVIOUS
<1>3. SumOf(g, P) = SumOf(f, UNION {F[p] : p \in P})
  <2> HIDE DEF F, g
  <2> QED BY <1>1, <1>2, SumByParts
<1> QED
  BY <1>2, <1>3

\* A sum of opposites is the opposite sum.
LEMMA SumOfOpposites ==
  ASSUME NEW f, NEW h, NEW S, IsFiniteSet(S), \A x \in S : f[x] \in Int /\ h[x] = 0 - f[x]
  PROVE  SumOf(h, S) = 0 - SumOf(f, S)
<1> DEFINE Q == {A \in SUBSET S : SumOf(h, A) = 0 - SumOf(f, A)}
<1>1. {} \in Q
  BY SumOfNone
<1>2. ASSUME NEW A \in SUBSET S, A # {}, \A x \in A : A \ {x} \in Q PROVE A \in Q
  <2>1. PICK x \in A : TRUE
    BY <1>2
  <2>2. IsFiniteSet(A) /\ IsFiniteSet(A \ {x}) /\ \A y \in A : f[y] \in Int /\ h[y] \in Int
    BY FS_Subset
  <2>3. /\ SumOf(f, A) = f[x] + SumOf(f, A \ {x}) /\ SumOf(h, A) = h[x] + SumOf(h, A \ {x})
        /\ SumOf(f, A \ {x}) \in Int
    BY <2>1, <2>2, SumTakes, SumIsInteger
  <2>4. SumOf(h, A \ {x}) = 0 - SumOf(f, A \ {x}) /\ h[x] = 0 - f[x] /\ f[x] \in Int
    BY <1>2, <2>1
  <2> QED
    BY <2>3, <2>4
<1> HIDE DEF Q
<1>3. S \in Q
  BY <1>1, <1>2, SetInduction
<1> QED
  BY <1>3 DEF Q

\* What is taken back under other names leaves nothing.
LEMMA SumCancels ==
  ASSUME NEW f, NEW t, NEW S, NEW T, IsFiniteSet(S), IsFiniteSet(T),
         T = {t[x] : x \in S}, S \cap T = {},
         \A x, y \in S : t[x] = t[y] => x = y,
         \A x \in S : f[x] \in Int /\ f[t[x]] = 0 - f[x]
  PROVE  SumOf(f, S \cup T) = 0
<1> DEFINE h == [x \in S |-> f[t[x]]]
<1>1. \A x \in S : h[x] = f[t[x]] /\ h[x] \in Int /\ h[x] = 0 - f[x]
  OBVIOUS
<1>2. \A y \in S \cup T : f[y] \in Int
  OBVIOUS
<1> HIDE DEF h
<1>3. SumOf(h, S) = SumOf(f, {t[x] : x \in S})
  BY <1>1, SumThrough
<1>4. SumOf(h, S) = 0 - SumOf(f, S) /\ SumOf(f, S) \in Int
  BY <1>1, SumOfOpposites, SumIsInteger
<1>5. SumOf(f, S \cup T) = SumOf(f, S) + SumOf(f, T)
  BY <1>2, SumOfUnion
<1>6. SumOf(h, S) = SumOf(f, T)
  BY <1>3
<1> DEFINE a == SumOf(f, S)
           b == SumOf(f, T)
<1>7. a \in Int /\ b = 0 - a /\ SumOf(f, S \cup T) = a + b
  BY <1>4, <1>5, <1>6
<1> HIDE DEF a, b
<1> QED
  BY <1>7

\* A sum over a part is the sum over the whole of what is zero elsewhere.
LEMMA SumOfPart ==
  ASSUME NEW f, NEW g, NEW S, NEW T \in SUBSET S, IsFiniteSet(S),
         \A x \in T : f[x] \in Int /\ g[x] = f[x], \A x \in S \ T : g[x] = 0
  PROVE  SumOf(f, T) = SumOf(g, S)
<1>1. IsFiniteSet(T) /\ IsFiniteSet(S \ T) /\ S \ T \in SUBSET S
  BY FS_Subset
<1>2. SumOf(g, T) = SumOf(f, T)
  BY <1>1, SumsAgree
<1>3. SumOf(g, S \ T) = 0
  BY <1>1, SumOfZeros
<1>4. SumOf(g, T \cup (S \ T)) = SumOf(g, T) + SumOf(g, S \ T)
  <2>1. T \cap (S \ T) = {} /\ \A x \in T \cup (S \ T) : g[x] \in Int
    OBVIOUS
  <2> QED
    BY <1>1, <2>1, SumOfUnion
<1>5. SumOf(f, T) \in Int
  BY <1>1, SumIsInteger
<1>6. T \cup (S \ T) = S
  OBVIOUS
<1>7. SumOf(g, S) = SumOf(f, T) + 0
  BY <1>2, <1>3, <1>4, <1>6
<1> QED
  BY <1>5, <1>7

\* What a function makes of a finite set is finite.
LEMMA ImageIsFinite ==
  ASSUME NEW f, NEW S, IsFiniteSet(S)
  PROVE  IsFiniteSet({f[x] : x \in S})
<1> DEFINE T == {f[x] : x \in S}
           g == [x \in S |-> f[x]]
<1>1. g \in Surjection(S, T)
  BY DEF Surjection
<1> HIDE DEF T, g
<1>2. IsFiniteSet(T)
  BY <1>1, FS_Surjection
<1> QED
  BY <1>2 DEF T

=============================================================================
