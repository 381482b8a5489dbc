--------------------------- MODULE SplitBillingProofs ---------------------------
(***************************************************************************)
(* Theorems about SplitBilling that hold for every menu of units, price,   *)
(* coupon, number of parts and of handlers in flight.                      *)
(*                                                                         *)
(* The money of a bill is a sum over its parts and over its credits.  The  *)
(* first section gives the sums of the community modules the facts that    *)
(* the proofs need, by choosing a smallest set that would lack them.       *)
(***************************************************************************)
EXTENDS SplitBilling, FiniteSetTheorems, SequenceTheorems, WellFoundedInduction, TLAPS

-----------------------------------------------------------------------------
(* Sums over finite sets *)

LEMMA SmallestSet ==
  ASSUME NEW D, IsFiniteSet(D), NEW C \in SUBSET (SUBSET D), C # {}
  PROVE  \E T \in C : \A U \in C : U \subseteq T => U = T
<1>1. IsWellFoundedOn(StrictSubsetOrdering(D), SUBSET D)
  BY FS_StrictSubsetOrderingWellFounded, FS_FiniteSubsetsOfFinite
<1>2. \E T \in C : \A U \in C : ~(<<U, T>> \in StrictSubsetOrdering(D))
  BY <1>1, WFMin
<1> QED
  BY <1>2 DEF StrictSubsetOrdering

\* g gives the sum of v over each set of elements of D, whatever element is taken first.
IsSum(g, D, v) ==
  /\ g \in [SUBSET D -> Int]
  /\ g[{}] = 0
  /\ \A s \in SUBSET D : \A x \in s : g[s] = v[x] + g[s \ {x}]

LEMMA SumExists ==
  ASSUME NEW D, IsFiniteSet(D), NEW v \in [D -> Int]
  PROVE  \E g : IsSum(g, D, v)
<1> DEFINE Bad == {T \in SUBSET D : ~\E g : IsSum(g, T, v)}
<1> SUFFICES ASSUME Bad # {} PROVE FALSE
  OBVIOUS
<1>1. PICK T \in Bad : \A U \in Bad : U \subseteq T => U = T
  <2>1. Bad \in SUBSET (SUBSET D)
    OBVIOUS
  <2> HIDE DEF Bad
  <2> QED
    BY <2>1, SmallestSet
<1>2. CASE T = {}
  <2> DEFINE g == [s \in SUBSET T |-> 0]
  <2>1. IsSum(g, T, v)
    BY <1>2 DEF IsSum
  <2> QED
    BY <1>1, <2>1
<1>3. ASSUME NEW a \in T
      PROVE  FALSE
  <2>1. T \ {a} \in SUBSET D /\ T \ {a} \subseteq T /\ T \ {a} # T
    BY <1>1, <1>3
  <2>2. PICK g : IsSum(g, T \ {a}, v)
    BY <1>1, <2>1
  <2> DEFINE f == [s \in SUBSET T |-> IF a \in s THEN v[a] + g[s \ {a}] ELSE g[s]]
  <2>3. v[a] \in Int /\ \A s \in SUBSET (T \ {a}) : g[s] \in Int
    BY <1>1, <1>3, <2>2 DEF IsSum
  <2>4. f \in [SUBSET T -> Int]
    <3>1. \A s \in SUBSET T : s \ {a} \in SUBSET (T \ {a}) /\ (a \notin s => s \in SUBSET (T \ {a}))
      OBVIOUS
    <3> QED
      BY <2>3, <3>1
  <2>5. f[{}] = 0
    BY <2>2 DEF IsSum
  <2>6. ASSUME NEW s \in SUBSET T, NEW x \in s
        PROVE  f[s] = v[x] + f[s \ {x}]
    <3>1. CASE x = a
      BY <3>1
    <3>2. CASE x # a /\ a \in s
      <4>1. s \ {a} \in SUBSET (T \ {a}) /\ x \in s \ {a} /\ (s \ {a}) \ {x} = (s \ {x}) \ {a}
        BY <3>2
      <4>2. g[s \ {a}] = v[x] + g[(s \ {a}) \ {x}]
        BY <2>2, <4>1 DEF IsSum
      <4>3. f[s] = v[a] + g[s \ {a}] /\ f[s \ {x}] = v[a] + g[(s \ {x}) \ {a}]
        BY <3>2
      <4>4. v[x] \in Int /\ g[(s \ {x}) \ {a}] \in Int
        BY <1>1, <2>3, <4>1
      <4> DEFINE rest == g[(s \ {x}) \ {a}]
      <4>5. g[s \ {a}] = v[x] + rest
        BY <4>1, <4>2
      <4>6. f[s] = v[a] + (v[x] + rest) /\ f[s \ {x}] = v[a] + rest
        BY <4>3, <4>5
      <4> HIDE DEF f, rest
      <4>7. rest \in Int
        BY <4>4 DEF rest
      <4> QED
        BY <2>3, <4>4, <4>6, <4>7
    <3>3. CASE a \notin s
      <4>1. s \in SUBSET (T \ {a}) /\ a \notin s \ {x}
        BY <3>3
      <4>2. g[s] = v[x] + g[s \ {x}]
        BY <2>2, <4>1 DEF IsSum
      <4> QED
        BY <3>3, <4>1, <4>2
    <3> QED
      BY <3>1, <3>2, <3>3
  <2>7. IsSum(f, T, v)
    <3> HIDE DEF f
    <3> QED
      BY <2>4, <2>5, <2>6 DEF IsSum
  <2> QED
    BY <1>1, <2>7
<1> QED
  BY <1>2, <1>3

\* Whoever takes the elements one after the other, in some order, arrives at it.
Adds(h, S, v) ==
  /\ h[{}] = 0
  /\ \A s \in SUBSET S : s # {} => \E x \in s : h[s] = v[x] + h[s \ {x}]

LEMMA SumUnique ==
  ASSUME NEW D, IsFiniteSet(D), NEW v, NEW g, IsSum(g, D, v), NEW S \in SUBSET D, NEW h,
         Adds(h, S, v)
  PROVE  h[S] = g[S]
<1> USE DEF Adds
<1> DEFINE Bad == {T \in SUBSET S : h[T] # g[T]}
<1> SUFFICES ASSUME Bad # {} PROVE FALSE
  OBVIOUS
<1>1. Bad \in SUBSET (SUBSET D)
  OBVIOUS
<1>2. PICK T \in Bad : \A U \in Bad : U \subseteq T => U = T
  <2> HIDE DEF Bad
  <2> QED
    BY <1>1, SmallestSet
<1>3. T # {}
  BY <1>2 DEF IsSum
<1>4. PICK x \in T : h[T] = v[x] + h[T \ {x}]
  BY <1>2, <1>3
<1>5. h[T \ {x}] = g[T \ {x}]
  <2>1. T \ {x} \in SUBSET S /\ T \ {x} \subseteq T /\ T \ {x} # T
    BY <1>2, <1>4
  <2> QED
    BY <1>2, <2>1
<1>6. g[T] = v[x] + g[T \ {x}]
  BY <1>2, <1>4 DEF IsSum
<1> QED
  BY <1>2, <1>4, <1>5, <1>6

SumOver(v, S) == MapThenSumSet(LAMBDA x : v[x], S)

LEMMA SumIs ==
  ASSUME NEW D, IsFiniteSet(D), NEW v, NEW g, IsSum(g, D, v), NEW S \in SUBSET D
  PROVE  SumOver(v, S) = g[S]
<1> DEFINE First(s) == CHOOSE x \in s : TRUE
           Takes(h) == h = [s \in SUBSET S |-> IF s = {} THEN 0 ELSE v[First(s)] + h[s \ {First(s)}]]
<1>1. SumOver(v, S) = (CHOOSE h : Takes(h))[S]
  BY DEF SumOver, MapThenSumSet, MapThenFoldSet
<1>2. \E h : Takes(h)
  <2> DEFINE h == [s \in SUBSET S |-> g[s]]
  <2>1. ASSUME NEW s \in SUBSET S
        PROVE  h[s] = IF s = {} THEN 0 ELSE v[First(s)] + h[s \ {First(s)}]
    <3>1. s # {} => First(s) \in s
      OBVIOUS
    <3>2. s \in SUBSET D /\ s \ {First(s)} \in SUBSET S
      OBVIOUS
    <3> QED
      BY <3>1, <3>2 DEF IsSum
  <2>2. Takes(h)
    BY <2>1
  <2> QED
    BY <2>2
<1>3. ASSUME NEW h, Takes(h)
      PROVE  h[S] = g[S]
  <2>1. h[{}] = 0
    BY <1>3
  <2>2. ASSUME NEW s \in SUBSET S, s # {}
        PROVE  \E x \in s : h[s] = v[x] + h[s \ {x}]
    <3>1. First(s) \in s
      BY <2>2
    <3>2. h[s] = v[First(s)] + h[s \ {First(s)}]
      BY <1>3, <2>2
    <3> QED
      BY <3>1, <3>2
  <2>3. Adds(h, S, v)
    BY <2>1, <2>2 DEF Adds
  <2> QED
    BY <2>3, SumUnique
<1>4. Takes(CHOOSE h : Takes(h))
  BY <1>2
<1> HIDE DEF Takes
<1> QED
  BY <1>1, <1>3, <1>4

LEMMA SumFacts ==
  ASSUME NEW D, IsFiniteSet(D), NEW v \in [D -> Int], NEW S \in SUBSET D
  PROVE  /\ SumOver(v, S) \in Int /\ SumOver(v, {}) = 0
         /\ \A x \in S : SumOver(v, S) = v[x] + SumOver(v, S \ {x})
<1>1. PICK g : IsSum(g, D, v)
  BY SumExists
<1>2. \A T \in SUBSET D : SumOver(v, T) = g[T]
  BY <1>1, SumIs
<1> QED
  BY <1>1, <1>2 DEF IsSum

LEMMA SumOfAll ==
  ASSUME NEW D, IsFiniteSet(D), NEW v \in [D -> Int], NEW x \in D
  PROVE  SumOver(v, D) = v[x] + SumOver(v, D \ {x}) /\ SumOver(v, D \ {x}) \in Int
<1>1. D \in SUBSET D /\ D \ {x} \in SUBSET D
  OBVIOUS
<1>2. \A y \in D : SumOver(v, D) = v[y] + SumOver(v, D \ {y})
  BY <1>1, SumFacts
<1>3. SumOver(v, D \ {x}) \in Int
  BY <1>1, SumFacts
<1> QED
  BY <1>2, <1>3

\* Elements with the same values have the same sum; without negative ones it is none.
LEMMA SumSame ==
  ASSUME NEW D, IsFiniteSet(D), NEW v \in [D -> Int], NEW w \in [D -> Int], NEW S \in SUBSET D,
         \A x \in S : v[x] = w[x]
  PROVE  SumOver(v, S) = SumOver(w, S)
<1>1. PICK g : IsSum(g, D, v)
  BY SumExists
<1>2. PICK h : IsSum(h, D, w)
  BY SumExists
<1>3. h[S] = g[S]
  <2>1. h[{}] = 0 /\ \A s \in SUBSET S : \A x \in s : h[s] = w[x] + h[s \ {x}]
    BY <1>2 DEF IsSum
  <2>2. \A s \in SUBSET S : \A x \in s : h[s] = v[x] + h[s \ {x}]
    BY <2>1
  <2>3. Adds(h, S, v)
    BY <2>1, <2>2 DEF Adds
  <2> QED
    BY <1>1, <2>3, SumUnique
<1> QED
  BY <1>1, <1>2, <1>3, SumIs

LEMMA SumNatural ==
  ASSUME NEW D, IsFiniteSet(D), NEW v \in [D -> Nat], NEW S \in SUBSET D
  PROVE  SumOver(v, S) \in Nat
<1>0. v \in [D -> Int]
  OBVIOUS
<1> DEFINE Bad == {T \in SUBSET D : SumOver(v, T) \notin Nat}
<1> SUFFICES ASSUME Bad # {} PROVE FALSE
  OBVIOUS
<1>1. PICK T \in Bad : \A U \in Bad : U \subseteq T => U = T
  <2>1. Bad \in SUBSET (SUBSET D)
    OBVIOUS
  <2> HIDE DEF Bad
  <2> QED
    BY <2>1, SmallestSet
<1>2. T # {}
  <2>1. SumOver(v, {}) = 0
    BY <1>0, SumFacts
  <2> HIDE DEF Bad
  <2>2. SumOver(v, T) \notin Nat
    BY <1>1 DEF Bad
  <2> QED
    BY <2>1, <2>2
<1>3. PICK x \in T : TRUE
  BY <1>2
<1>4. SumOver(v, T) = v[x] + SumOver(v, T \ {x})
  BY <1>0, <1>1, SumFacts
<1>5. T \ {x} \in SUBSET D /\ T \ {x} \subseteq T /\ T \ {x} # T
  BY <1>1, <1>3
<1>6. SumOver(v, T \ {x}) \in Nat
  BY <1>1, <1>5
<1>7. v[x] \in Nat
  BY <1>1, <1>3
<1> QED
  BY <1>1, <1>4, <1>6, <1>7

\* A renumbering does not change a sum.
Renumbers(f, D, E, v, w) ==
  /\ v \in [D -> Int] /\ w \in [E -> Int] /\ f \in [D -> E]
  /\ \A x, y \in D : f[x] = f[y] => x = y
  /\ \A x \in D : w[f[x]] = v[x]

LEMMA SumRenumbered ==
  ASSUME NEW D, IsFiniteSet(D), NEW E, IsFiniteSet(E), NEW f, NEW v, NEW w,
         Renumbers(f, D, E, v, w)
  PROVE  SumOver(v, D) = SumOver(w, {f[x] : x \in D})
<1> USE DEF Renumbers
<1>1. PICK g : IsSum(g, D, v)
  BY SumExists
<1>2. PICK h : IsSum(h, E, w)
  BY SumExists
<1> DEFINE Image(s) == {f[x] : x \in s}
           Bad == {T \in SUBSET D : g[T] # h[Image(T)]}
<1>3. Bad = {}
  <2> SUFFICES ASSUME Bad # {} PROVE FALSE
    OBVIOUS
  <2>1. PICK T \in Bad : \A U \in Bad : U \subseteq T => U = T
    <3>1. Bad \in SUBSET (SUBSET D)
      OBVIOUS
    <3> HIDE DEF Bad
    <3> QED
      BY <3>1, SmallestSet
  <2>2. T # {}
    <3>1. Image({}) = {} /\ g[{}] = 0 /\ h[{}] = 0
      BY <1>1, <1>2 DEF IsSum
    <3> QED
      BY <2>1, <3>1
  <2>3. PICK x \in T : TRUE
    BY <2>2
  <2>4. T \in SUBSET D /\ x \in D /\ T \ {x} \in SUBSET D /\ T \ {x} # T /\ T \ {x} \subseteq T
    BY <2>1, <2>3
  <2>5. g[T] = v[x] + g[T \ {x}]
    BY <1>1, <2>1, <2>3 DEF IsSum
  <2>6. Image(T) \in SUBSET E /\ f[x] \in Image(T) /\ Image(T) \ {f[x]} = Image(T \ {x})
    <3>1. \A y \in T : y # x => f[y] # f[x]
      BY <2>4
    <3> QED
      BY <2>3, <2>4, <3>1
  <2>7. h[Image(T)] = w[f[x]] + h[Image(T) \ {f[x]}]
    BY <1>2, <2>6 DEF IsSum
  <2>8. T \ {x} \notin Bad
    BY <2>1, <2>4
  <2>9. g[T \ {x}] = h[Image(T \ {x})]
    BY <2>4, <2>8
  <2>10. g[T] = h[Image(T)]
    <3> HIDE DEF Image, Bad
    <3> QED
      BY <2>4, <2>5, <2>6, <2>7, <2>9
  <2> QED
    BY <2>1, <2>10
<1>4. g[D] = h[Image(D)]
  BY <1>3
<1>5. Image(D) \in SUBSET E
  OBVIOUS
<1>6. SumOver(v, D) = g[D] /\ SumOver(w, Image(D)) = h[Image(D)]
  <2> HIDE DEF Image
  <2> QED
    BY <1>1, <1>2, <1>5, SumIs
<1> QED
  BY <1>4, <1>6

\* One value changes, or a value is added.
LEMMA SumChanged ==
  ASSUME NEW D, IsFiniteSet(D), NEW v \in [D -> Int], NEW w \in [D -> Int],
         NEW S \in SUBSET D, NEW x \in S, \A y \in S \ {x} : v[y] = w[y]
  PROVE  SumOver(w, S) = SumOver(v, S) - v[x] + w[x]
<1>1. S \ {x} \in SUBSET D /\ v[x] \in Int /\ w[x] \in Int
  OBVIOUS
<1>2. SumOver(v, S) = v[x] + SumOver(v, S \ {x}) /\ SumOver(w, S) = w[x] + SumOver(w, S \ {x})
  BY SumFacts
<1>3. SumOver(v, S \ {x}) = SumOver(w, S \ {x})
  BY <1>1, SumSame
<1>4. SumOver(v, S \ {x}) \in Int
  BY <1>1, SumFacts
<1> QED
  BY <1>1, <1>2, <1>3, <1>4

\* One value is taken out of a sum; larger values have a larger sum.
LEMMA SumTaken ==
  ASSUME NEW D, IsFiniteSet(D), NEW v \in [D -> Int], NEW w \in [D -> Int],
         NEW S \in SUBSET D, NEW x \in S, \A y \in S \ {x} : v[y] = w[y]
  PROVE  SumOver(v, S) = v[x] + SumOver(w, S \ {x}) /\ SumOver(w, S \ {x}) \in Int
<1>1. S \ {x} \in SUBSET D
  OBVIOUS
<1>2. SumOver(v, S) = v[x] + SumOver(v, S \ {x})
  BY SumFacts
<1>3. SumOver(v, S \ {x}) = SumOver(w, S \ {x})
  BY <1>1, SumSame
<1>4. SumOver(w, S \ {x}) \in Int
  BY <1>1, SumFacts
<1> QED
  BY <1>2, <1>3, <1>4

LEMMA SumAtMost ==
  ASSUME NEW D, IsFiniteSet(D), NEW v \in [D -> Int], NEW w \in [D -> Int],
         NEW S \in SUBSET D, \A x \in S : v[x] <= w[x]
  PROVE  SumOver(v, S) <= SumOver(w, S)
<1> DEFINE Bad == {T \in SUBSET S : ~(SumOver(v, T) <= SumOver(w, T))}
<1> SUFFICES ASSUME Bad # {} PROVE FALSE
  OBVIOUS
<1>1. PICK T \in Bad : \A U \in Bad : U \subseteq T => U = T
  <2>1. Bad \in SUBSET (SUBSET D)
    OBVIOUS
  <2> HIDE DEF Bad
  <2> QED
    BY <2>1, SmallestSet
<1>2. T \in SUBSET D /\ T \in SUBSET S /\ ~(SumOver(v, T) <= SumOver(w, T))
  BY <1>1
<1>3. T # {}
  <2>1. SumOver(v, {}) = 0 /\ SumOver(w, {}) = 0
    BY SumFacts
  <2>2. SumOver(v, {}) <= SumOver(w, {})
    BY <2>1
  <2> HIDE DEF Bad
  <2> QED
    BY <1>2, <2>2
<1>4. PICK x \in T : TRUE
  BY <1>3
<1>5. SumOver(v, T) = v[x] + SumOver(v, T \ {x}) /\ SumOver(w, T) = w[x] + SumOver(w, T \ {x})
  BY <1>2, SumFacts
<1>6. T \ {x} \in SUBSET D /\ T \ {x} \in SUBSET S /\ T \ {x} # T
  BY <1>2
<1>7. SumOver(v, T \ {x}) <= SumOver(w, T \ {x})
  BY <1>1, <1>6
<1>8. SumOver(v, T \ {x}) \in Int /\ SumOver(w, T \ {x}) \in Int
  BY <1>6, SumFacts
<1>9. v[x] \in Int /\ w[x] \in Int /\ v[x] <= w[x]
  BY <1>2
<1> QED
  BY <1>2, <1>5, <1>7, <1>8, <1>9

-----------------------------------------------------------------------------
(* What the parts took over, and the credits of the main account *)

Grosses(P) == [p \in Parts |-> P[p].gross]
Discs(P) == [p \in Parts |-> P[p].disc]

LEMMA PartSums ==
  ASSUME NEW P, NEW S \in SUBSET Parts
  PROVE  /\ MapThenSumSet(LAMBDA p : P[p].gross, S) = SumOver(Grosses(P), S)
         /\ MapThenSumSet(LAMBDA p : P[p].disc, S) = SumOver(Discs(P), S)
<1> DEFINE First(s) == CHOOSE x \in s : TRUE
           Gives(h, v) == h = [s \in SUBSET S |-> IF s = {} THEN 0 ELSE v[First(s)] + h[s \ {First(s)}]]
           GrossOf(h) == h = [s \in SUBSET S |-> IF s = {} THEN 0
                                                 ELSE P[First(s)].gross + h[s \ {First(s)}]]
           DiscOf(h) == h = [s \in SUBSET S |-> IF s = {} THEN 0
                                                ELSE P[First(s)].disc + h[s \ {First(s)}]]
<1>1. \A s \in SUBSET S : s # {} => First(s) \in Parts
  OBVIOUS
<1>2. \A h : GrossOf(h) <=> Gives(h, Grosses(P))
  BY <1>1 DEF Grosses
<1>3. \A h : DiscOf(h) <=> Gives(h, Discs(P))
  BY <1>1 DEF Discs
<1>4. SumOver(Grosses(P), S) = (CHOOSE h : Gives(h, Grosses(P)))[S]
  BY DEF SumOver, MapThenSumSet, MapThenFoldSet
<1>5. SumOver(Discs(P), S) = (CHOOSE h : Gives(h, Discs(P)))[S]
  BY DEF SumOver, MapThenSumSet, MapThenFoldSet
<1>6. MapThenSumSet(LAMBDA p : P[p].gross, S) = (CHOOSE h : GrossOf(h))[S]
  BY DEF MapThenSumSet, MapThenFoldSet
<1>7. MapThenSumSet(LAMBDA p : P[p].disc, S) = (CHOOSE h : DiscOf(h))[S]
  BY DEF MapThenSumSet, MapThenFoldSet
<1> HIDE DEF Gives, GrossOf, DiscOf
<1>8. (CHOOSE h : GrossOf(h)) = (CHOOSE h : Gives(h, Grosses(P)))
  BY <1>2
<1>9. (CHOOSE h : DiscOf(h)) = (CHOOSE h : Gives(h, Discs(P)))
  BY <1>3
<1> QED
  BY <1>4, <1>5, <1>6, <1>7, <1>8, <1>9

LEMMA LeastNatural ==
  ASSUME NEW C \in SUBSET Nat, C # {}
  PROVE  \E n \in C : \A m \in C : n <= m
<1>1. \E n \in C : \A m \in C : ~(<<m, n>> \in OpToRel(<, Nat))
  BY WFMin, NatLessThanWellFounded
<1>2. \A m, n \in Nat : m < n => <<m, n>> \in OpToRel(<, Nat)
  BY DEF OpToRel
<1>3. \E n \in C : \A m \in C : ~(m < n)
  BY <1>1, <1>2
<1> QED
  BY <1>3

LEMMA MaxIn ==
  ASSUME NEW n \in Nat, NEW s \in SUBSET (1..n), s # {}
  PROVE  Max(s) \in s /\ \A y \in s : Max(s) >= y
<1> DEFINE C == {n - i : i \in s}
<1>0. \A i \in s : i \in Nat /\ i <= n
  OBVIOUS
<1>1. C \in SUBSET Nat /\ C # {}
  <2>1. \A i \in s : n - i \in Nat
    BY <1>0
  <2> QED
    BY <2>1
<1>2. PICK m \in C : \A k \in C : m <= k
  <2> HIDE DEF C
  <2> QED
    BY <1>1, LeastNatural
<1>3. PICK i \in s : m = n - i
  BY <1>2
<1>4. \A y \in s : i >= y
  <2>1. \A y \in s : n - i <= n - y
    BY <1>2, <1>3
  <2> QED
    BY <1>0, <2>1
<1> QED
  BY <1>4 DEF Max

Worths(c) == [i \in 1..Len(c) |-> c[i].amount]
Credited(c) == SumOver(Worths(c), 1..Len(c))

LEMMA UnitsCounted ==
  /\ Cardinality(Units) \in Nat /\ Cardinality(Parts) \in Nat /\ Price \in Nat
  /\ Price * Cardinality(Units) \in Nat
  /\ \A a \in Amounts : a \in Nat
<1>1. Cardinality(Units) \in Nat /\ Cardinality(Parts) \in Nat /\ Price \in Nat
  BY SplitAssumption, FS_CardinalityType
<1>2. \A a \in Nat, b \in Nat : a * b \in Nat
  OBVIOUS
<1>3. Price * Cardinality(Units) \in Nat
  BY <1>1, <1>2
<1> QED
  BY <1>1, <1>3 DEF Amounts

LEMMA WorthsTyped ==
  ASSUME NEW c \in Seq(Credit)
  PROVE  /\ Worths(c) \in [1..Len(c) -> Nat] /\ Worths(c) \in [1..Len(c) -> Int]
         /\ Len(c) \in Nat /\ IsFiniteSet(1..Len(c))
         /\ \A i \in 1..Len(c) : c[i] \in Credit /\ c[i].amount \in Nat /\ c[i].name \in Names
<1>1. Len(c) \in Nat /\ \A i \in 1..Len(c) : c[i] \in Credit
  BY LenProperties, ElementOfSeq
<1>2. \A i \in 1..Len(c) : c[i].amount \in Nat /\ c[i].name \in Names
  BY <1>1, UnitsCounted DEF Credit
<1>3. IsFiniteSet(1..Len(c))
  BY <1>1, FS_Interval
<1> QED
  BY <1>1, <1>2, <1>3 DEF Worths

LEMMA CreditSumIs ==
  ASSUME NEW m, m.credits \in Seq(Credit)
  PROVE  CreditSum(m) = Credited(m.credits) /\ Credited(m.credits) \in Nat
<1> DEFINE c == m.credits
           D == 1..Len(c)
           Takes(h) == h = [s \in SUBSET DOMAIN c |-> IF s = {} THEN 0
                                                      ELSE h[s \ {Max(s)}] + c[Max(s)].amount]
<1>1. CreditSum(m) = (CHOOSE h : Takes(h))[DOMAIN c]
  BY DEF CreditSum, FoldLeft, MapThenFoldSet
<1>2. /\ DOMAIN c = D /\ Len(c) \in Nat /\ IsFiniteSet(D)
      /\ Worths(c) \in [D -> Int] /\ Worths(c) \in [D -> Nat]
      /\ \A i \in D : Worths(c)[i] = c[i].amount
  BY WorthsTyped, LenProperties DEF Worths
<1>3. PICK g : IsSum(g, D, Worths(c))
  BY <1>2, SumExists
<1>4. \A s \in SUBSET D : s # {} => Max(s) \in s
  BY <1>2, MaxIn
<1>5. \E h : Takes(h)
  <2> DEFINE h == [s \in SUBSET D |-> g[s]]
  <2> SUFFICES Takes(h)
    OBVIOUS
  <2> SUFFICES ASSUME NEW s \in SUBSET D
               PROVE  h[s] = IF s = {} THEN 0 ELSE h[s \ {Max(s)}] + c[Max(s)].amount
    BY <1>2
  <2>1. s = {} => h[s] = 0
    BY <1>3 DEF IsSum
  <2>2. CASE s # {}
    <3> DEFINE k == Max(s)
    <3>1. k \in s /\ k \in D /\ s \ {k} \in SUBSET D
      BY <1>4, <2>2
    <3> HIDE DEF k
    <3>2. g[s] = Worths(c)[k] + g[s \ {k}] /\ g[s \ {k}] \in Int
      BY <1>3, <3>1 DEF IsSum
    <3>3. Worths(c)[k] = c[k].amount /\ Worths(c)[k] \in Int
      BY <1>2, <3>1
    <3>4. h[s] = g[s] /\ h[s \ {k}] = g[s \ {k}]
      BY <3>1
    <3>5. h[s] = h[s \ {k}] + c[k].amount
      BY <3>2, <3>3, <3>4
    <3> QED
      BY <2>2, <3>5 DEF k
  <2> QED
    BY <2>1, <2>2
<1>6. ASSUME NEW h, Takes(h)
      PROVE  h[D] = g[D]
  <2>1. \A s \in SUBSET D : h[s] = IF s = {} THEN 0 ELSE h[s \ {Max(s)}] + c[Max(s)].amount
    BY <1>2, <1>6
  <2>2. h[{}] = 0
    BY <2>1
  <2>3. \A s \in SUBSET D : h[s] = g[s]
    <3> DEFINE Bad == {T \in SUBSET D : h[T] # g[T]}
    <3> SUFFICES ASSUME Bad # {} PROVE FALSE
      OBVIOUS
    <3>1. PICK T \in Bad : \A U \in Bad : U \subseteq T => U = T
      <4>1. Bad \in SUBSET (SUBSET D)
        OBVIOUS
      <4> HIDE DEF Bad, D
      <4> QED
        BY <1>2, <4>1, SmallestSet
    <3>2. T # {}
      BY <1>3, <2>2, <3>1 DEF IsSum
    <3> DEFINE k == Max(T)
    <3>3. k \in T /\ k \in D /\ T \ {k} \in SUBSET D /\ T \in SUBSET D
      BY <1>4, <3>1, <3>2
    <3>4. h[T] = h[T \ {k}] + c[k].amount
      BY <2>1, <3>2, <3>3
    <3> HIDE DEF k
    <3>5. h[T \ {k}] = g[T \ {k}]
      BY <3>1, <3>3
    <3>6. g[T] = c[k].amount + g[T \ {k}] /\ g[T \ {k}] \in Int /\ c[k].amount \in Int
      BY <1>2, <1>3, <3>3 DEF IsSum
    <3>7. h[T] = g[T]
      BY <3>4, <3>5, <3>6
    <3> QED
      BY <3>1, <3>7
  <2> QED
    BY <2>3
<1>7. Takes(CHOOSE h : Takes(h))
  BY <1>5
<1> HIDE DEF Takes
<1>8. CreditSum(m) = g[D]
  BY <1>1, <1>2, <1>6, <1>7
<1>9. Credited(c) = g[D] /\ Credited(c) \in Nat
  <2> HIDE DEF D
  <2>1. SumOver(Worths(c), D) = g[D] /\ SumOver(Worths(c), D) \in Nat
    BY <1>2, <1>3, SumIs, SumNatural
  <2> QED
    BY <2>1 DEF Credited, D
<1> QED
  BY <1>8, <1>9

LEMMA NoCredits == Credited(<<>>) = 0
<1>1. <<>> \in Seq(Credit) /\ 1..Len(<<>>) = {}
  BY EmptySeq
<1> QED
  BY <1>1, WorthsTyped, SumFacts DEF Credited

LEMMA CreditAppended ==
  ASSUME NEW c \in Seq(Credit), NEW x \in Credit
  PROVE  /\ Append(c, x) \in Seq(Credit) /\ Len(Append(c, x)) = Len(c) + 1
         /\ \A i \in 1..Len(c) : Append(c, x)[i] = c[i]
         /\ Append(c, x)[Len(c) + 1] = x
         /\ Credited(Append(c, x)) = Credited(c) + x.amount
<1> DEFINE n == Len(c)
           d == Append(c, x)
           D == 1..n
           E == 1..(n + 1)
           f == [i \in D |-> i]
<1>1. /\ d \in Seq(Credit) /\ Len(d) = n + 1
      /\ (\A i \in D : d[i] = c[i]) /\ d[n + 1] = x
  BY AppendProperties
<1>2. /\ Worths(c) \in [D -> Int] /\ IsFiniteSet(D) /\ n \in Nat
      /\ \A i \in D : Worths(c)[i] = c[i].amount
  BY WorthsTyped DEF Worths
<1>3. /\ Worths(d) \in [E -> Int] /\ IsFiniteSet(E)
      /\ \A i \in E : Worths(d)[i] = d[i].amount
  BY <1>1, WorthsTyped DEF Worths
<1> HIDE DEF d
<1>4. D \subseteq E /\ E \ {n + 1} = D /\ n + 1 \in E
  BY <1>2
<1>5. /\ f \in [D -> E] /\ {f[i] : i \in D} = D
      /\ (\A i, j \in D : f[i] = f[j] => i = j)
      /\ (\A i \in D : Worths(d)[f[i]] = Worths(c)[i])
  BY <1>1, <1>2, <1>3, <1>4
<1> HIDE DEF f, D, E
<1>6. SumOver(Worths(c), D) = SumOver(Worths(d), D)
  <2>1. Renumbers(f, D, E, Worths(c), Worths(d))
    BY <1>2, <1>3, <1>5 DEF Renumbers
  <2> QED
    BY <1>2, <1>3, <1>5, <2>1, SumRenumbered
<1>7. SumOver(Worths(d), E) = Worths(d)[n + 1] + SumOver(Worths(d), D)
  BY <1>3, <1>4, SumFacts
<1>8. Worths(d)[n + 1] = x.amount /\ x.amount \in Int /\ SumOver(Worths(c), D) \in Int
  BY <1>1, <1>2, <1>3, <1>4, SumFacts
<1>9. SumOver(Worths(d), E) = SumOver(Worths(c), D) + x.amount
  BY <1>6, <1>7, <1>8
<1> QED
  BY <1>1, <1>9 DEF Credited, d, D, E

LEMMA CreditRemoved ==
  ASSUME NEW c \in Seq(Credit), NEW i \in 1..Len(c)
  PROVE  /\ RemoveAt(c, i) \in Seq(Credit) /\ Len(RemoveAt(c, i)) = Len(c) - 1
         /\ \A j \in 1..(Len(c) - 1) : RemoveAt(c, i)[j] = IF j < i THEN c[j] ELSE c[j + 1]
         /\ Credited(RemoveAt(c, i)) = Credited(c) - c[i].amount
<1> DEFINE n == Len(c)
           d == RemoveAt(c, i)
           D == 1..(n - 1)
           E == 1..n
           f == [j \in D |-> IF j < i THEN j ELSE j + 1]
<1>1. n \in Nat /\ i \in Nat /\ 1 <= i /\ i <= n /\ \A j \in E : c[j] \in Credit
  BY WorthsTyped
<1>2. /\ SubSeq(c, 1, i - 1) \in Seq(Credit) /\ Len(SubSeq(c, 1, i - 1)) = i - 1
      /\ \A j \in 1..(i - 1) : SubSeq(c, 1, i - 1)[j] = c[j]
  <2>1. \A j \in 1..(i - 1) : c[j] \in Credit
    BY <1>1
  <2>2. /\ SubSeq(c, 1, i - 1) \in Seq(Credit)
        /\ Len(SubSeq(c, 1, i - 1)) = IF 1 <= i - 1 THEN i - 1 - 1 + 1 ELSE 0
        /\ \A j \in 1..(i - 1 - 1 + 1) : SubSeq(c, 1, i - 1)[j] = c[1 + j - 1]
    BY <1>1, <2>1, SubSeqProperties
  <2>3. i - 1 - 1 + 1 = i - 1 /\ (\A j \in 1..(i - 1) : 1 + j - 1 = j) /\ (~(1 <= i - 1) => i - 1 = 0)
    BY <1>1
  <2> QED
    BY <2>2, <2>3
<1>3. /\ SubSeq(c, i + 1, n) \in Seq(Credit) /\ Len(SubSeq(c, i + 1, n)) = n - i
      /\ \A j \in 1..(n - i) : SubSeq(c, i + 1, n)[j] = c[i + j]
  <2>1. \A j \in (i + 1)..n : c[j] \in Credit
    BY <1>1
  <2>2. /\ SubSeq(c, i + 1, n) \in Seq(Credit)
        /\ Len(SubSeq(c, i + 1, n)) = IF i + 1 <= n THEN n - (i + 1) + 1 ELSE 0
        /\ \A j \in 1..(n - (i + 1) + 1) : SubSeq(c, i + 1, n)[j] = c[(i + 1) + j - 1]
    BY <1>1, <2>1, SubSeqProperties
  <2> HIDE DEF n
  <2>3. /\ n - (i + 1) + 1 = n - i /\ (\A j \in 1..(n - i) : (i + 1) + j - 1 = i + j)
        /\ (~(i + 1 <= n) => n - i = 0)
    BY <1>1
  <2> QED
    BY <2>2, <2>3
<1>4. d = SubSeq(c, 1, i - 1) \o SubSeq(c, i + 1, n)
  BY DEF RemoveAt
<1> HIDE DEF d, n
<1>5. /\ d \in Seq(Credit) /\ Len(d) = (i - 1) + (n - i)
      /\ \A j \in 1..((i - 1) + (n - i)) :
           d[j] = IF j <= i - 1 THEN SubSeq(c, 1, i - 1)[j] ELSE SubSeq(c, i + 1, n)[j - (i - 1)]
  <2> DEFINE a == SubSeq(c, 1, i - 1)
             b == SubSeq(c, i + 1, n)
  <2>1. a \in Seq(Credit) /\ b \in Seq(Credit) /\ Len(a) = i - 1 /\ Len(b) = n - i /\ d = a \o b
    BY <1>2, <1>3, <1>4
  <2> HIDE DEF a, b
  <2>2. /\ a \o b \in Seq(Credit) /\ Len(a \o b) = Len(a) + Len(b)
        /\ \A j \in 1..(Len(a) + Len(b)) : (a \o b)[j] = IF j <= Len(a) THEN a[j] ELSE b[j - Len(a)]
    BY <2>1, ConcatProperties
  <2>3. /\ d \in Seq(Credit) /\ Len(d) = (i - 1) + (n - i)
        /\ \A j \in 1..((i - 1) + (n - i)) : d[j] = IF j <= i - 1 THEN a[j] ELSE b[j - (i - 1)]
    BY <2>1, <2>2
  <2> QED
    BY <2>3 DEF a, b
<1>6. (i - 1) + (n - i) = n - 1
  BY <1>1
<1>7. \A j \in 1..(n - 1) : d[j] = IF j < i THEN c[j] ELSE c[j + 1]
  <2> SUFFICES ASSUME NEW j \in 1..(n - 1)
               PROVE  d[j] = IF j < i THEN c[j] ELSE c[j + 1]
    OBVIOUS
  <2>1. CASE j < i
    <3>1. j <= i - 1 /\ j \in 1..(i - 1)
      BY <1>1, <2>1
    <3> QED
      BY <1>2, <1>5, <1>6, <2>1, <3>1
  <2>2. CASE ~(j < i)
    <3>1. ~(j <= i - 1) /\ j - (i - 1) \in 1..(n - i) /\ i + (j - (i - 1)) = j + 1
      BY <1>1, <2>2
    <3> QED
      BY <1>3, <1>5, <1>6, <2>2, <3>1
  <2> QED
    BY <2>1, <2>2
<1>8. /\ Worths(c) \in [E -> Int] /\ IsFiniteSet(E)
      /\ \A j \in E : Worths(c)[j] = c[j].amount
  BY WorthsTyped DEF Worths, n
<1>9. /\ Worths(d) \in [D -> Int] /\ IsFiniteSet(D)
      /\ \A j \in D : Worths(d)[j] = d[j].amount
  <2>1. Len(d) = n - 1
    BY <1>5, <1>6
  <2> QED
    BY <1>5, <2>1, WorthsTyped DEF Worths
<1>10. f \in [D -> E] /\ \A j \in D : f[j] # i
  BY <1>1
<1>11. \A j, k \in D : f[j] = f[k] => j = k
  BY <1>1
<1>12. \A j \in D : Worths(c)[f[j]] = Worths(d)[j]
  BY <1>7, <1>8, <1>9, <1>10
<1>13. {f[j] : j \in D} = E \ {i}
  <2>1. ASSUME NEW k \in E \ {i}
        PROVE  \E j \in D : f[j] = k
    <3>1. CASE k < i
      <4>1. k \in D
        BY <1>1, <3>1
      <4> QED
        BY <3>1, <4>1
    <3>2. CASE ~(k < i)
      <4>1. k - 1 \in D /\ ~(k - 1 < i) /\ k - 1 + 1 = k
        BY <1>1, <2>1, <3>2
      <4> QED
        BY <4>1
    <3> QED
      BY <3>1, <3>2
  <2> QED
    BY <1>10, <2>1
<1>14. i \in E /\ E \ {i} \in SUBSET E
  BY <1>1
<1> HIDE DEF f, D, E
<1>15. SumOver(Worths(d), D) = SumOver(Worths(c), E \ {i})
  <2>1. Renumbers(f, D, E, Worths(d), Worths(c))
    BY <1>8, <1>9, <1>10, <1>11, <1>12 DEF Renumbers
  <2> QED
    BY <1>8, <1>9, <1>13, <2>1, SumRenumbered
<1>16. /\ SumOver(Worths(c), E) = c[i].amount + SumOver(Worths(c), E \ {i})
       /\ SumOver(Worths(c), E \ {i}) \in Int /\ c[i].amount \in Int
  <2>1. c[i].amount = Worths(c)[i] /\ Worths(c)[i] \in Int
    BY <1>8, <1>14
  <2> DEFINE w == Worths(c)
  <2>2. w \in [E -> Int]
    BY <1>8
  <2> HIDE DEF w
  <2>3. SumOver(w, E) = w[i] + SumOver(w, E \ {i}) /\ SumOver(w, E \ {i}) \in Int
    BY <1>8, <1>14, <2>2, SumOfAll
  <2> QED
    BY <2>1, <2>3 DEF w
<1>17. SumOver(Worths(d), D) = SumOver(Worths(c), E) - c[i].amount
  BY <1>15, <1>16
<1> QED
  BY <1>5, <1>6, <1>7, <1>17 DEF Credited, d, n, D, E

-----------------------------------------------------------------------------
(* The inductive invariant *)

\* The rows with any discount: it stays within that of the coupon only under DiscountKept.
MainRow == [st: {"open", "settled", "invoiced", "cancelled"}, units: SUBSET Units,
            credits: Seq(Credit), disc: Nat, coupon: BOOLEAN, rec: BOOLEAN]
PartRow == [st: {"absent", "paid", "cancelled"}, mode: {"none", "items", "amount"},
            units: SUBSET Units, gross: Amounts, disc: Nat, name: Names,
            coupon: BOOLEAN, rec: BOOLEAN]

\* What a handler in flight holds.
SplitRequest == [main: MainRow, fresh: BOOLEAN, op: {"split"}, part: PartRow, left: MainRow]
VoidRequest == [main: MainRow, fresh: BOOLEAN, op: {"void", "restore"}, id: Parts, part: PartRow,
                restores: BOOLEAN]
EditRequest == [main: MainRow, fresh: BOOLEAN, op: {"edit"}, left: MainRow, list: SUBSET Units]
FinalRequest == [main: MainRow, fresh: BOOLEAN, op: {"finalize"}, left: MainRow]
CancelRequest == [main: MainRow, fresh: BOOLEAN, op: {"cancel"}]
Requests == {Idle} \cup SplitRequest \cup VoidRequest \cup EditRequest \cup FinalRequest
              \cup CancelRequest

\* The conjuncts of the invariant are about the values m of main, P of parts, n of uses and R
\* of req, so that a step is a relation of values.
PaidOf(P) == {p \in Parts : P[p].st = "paid"}
UsedOf(P) == {p \in Parts : P[p].st # "absent"}
IsLive(m) == m.st \in {"open", "settled"}

Typed(m, P, n, R) ==
  /\ m \in MainRow /\ Len(m.credits) <= Cardinality(UsedOf(P))
  /\ P \in [Parts -> PartRow]
  /\ n \in Nat /\ n <= Cardinality(UsedOf(P)) + IF m.rec THEN 1 ELSE 0
  /\ R \in [Handlers -> Requests]

\* Only an invoiced account has recorded a use itself; a part that has paid took items, or an
\* amount.
Rows(m, P) ==
  /\ m.rec => m.st \in {"invoiced", "cancelled"}
  /\ \A p \in Parts : /\ P[p].st = "paid" => P[p].mode # "none"
                      /\ P[p].mode = "amount" => P[p].units = {}
                      /\ P[p].st = "absent" => P[p] = NoPart

\* What a split computed from the main account that it read.
TakesItems(r) ==
  /\ r.part.mode = "items" /\ r.part.coupon /\ r.part.name = Table
  /\ r.part.units \subseteq r.main.units /\ r.main.credits = <<>>
  /\ r.part.gross = Price * Cardinality(r.part.units) /\ r.part.gross >= 1
  /\ r.left = ItemsLeft(r.main, r.part)
  /\ DiscountKept => r.part.disc <= r.main.disc

TakesAmount(r) ==
  /\ r.part.mode = "amount" /\ r.part.units = {} /\ r.part.disc = 0
  /\ r.part.gross \in 1..Total(r.main)
  /\ r.left = AmountLeft(r.main, r.part)
  /\ (CleanNames /\ Settles(r.main, r.part.gross) /\ r.part.gross < Total(r.main)) =>
       r.part.name # Table

SplitSound(r) ==
  r.op = "split" =>
    /\ r.main.st = "open" /\ r.part.st = "paid" /\ ~r.part.rec
    /\ DiscountKept => MostOff = 0 \/ r.main.disc > 0
    /\ TakesItems(r) \/ TakesAmount(r)

\* The part of a cancellation may have been cancelled since, or been given the use of the
\* coupon; a main account that was not to be restored stays closed.
SamePart(p, q) ==
  /\ p.mode = q.mode /\ p.units = q.units /\ p.gross = q.gross /\ p.disc = q.disc
  /\ p.name = q.name /\ p.coupon = q.coupon
  /\ p.rec => q.rec

VoidSound(r, m, P) ==
  r.op \in {"void", "restore"} =>
    /\ r.part.st = "paid" /\ r.part.mode # "none"
    /\ P[r.id].st \in {"paid", "cancelled"}
    /\ P[r.id].st = "paid" => SamePart(r.part, P[r.id])
    /\ r.op = "restore" => IF r.restores THEN IsLive(r.main) ELSE ~IsLive(m)

\* The list of an edit takes nothing from a part, as long as the account is what was read.
EditSound(r, P) ==
  r.op = "edit" =>
    /\ r.main.st = "open" /\ r.list = r.left.units
    /\ r.fresh => \A p \in PaidOf(P) : \A u \in P[p].units : u \notin r.left.units
    /\ r.left = [r.main EXCEPT !.units = r.left.units, !.disc = r.left.disc]
    /\ DiscountKept => r.left.disc <= r.main.disc

FinalizeSound(r) ==
  r.op = "finalize" =>
    /\ r.main.st = "open" /\ r.left.disc <= r.main.disc
    /\ r.left = [r.main EXCEPT !.st = "invoiced", !.coupon = r.left.coupon,
                   !.rec = r.left.coupon, !.disc = r.left.disc]

\* No part is paid of an account that is closed and being cancelled, nor will one be.
CancelSound(r, m, P) ==
  r.op = "cancel" =>
    /\ r.main.st # "cancelled" /\ (r.main.rec => r.main.st = "invoiced")
    /\ r.main.st # "open" => PaidOf(P) = {} /\ m.st # "open"
    /\ r.main.st = "invoiced" => m.st \in {"invoiced", "cancelled"} /\ m.rec = r.main.rec
    /\ Isolated => PaidOf(P) = {}

Sound(r, m, P) ==
  r # Idle => /\ r.fresh => r.main = m
              /\ SplitSound(r) /\ VoidSound(r, m, P) /\ EditSound(r, P) /\ FinalizeSound(r)
              /\ CancelSound(r, m, P)

\* Under Isolated the cancellation of an open account is alone.
Alone(R) ==
  Isolated => \A g, h \in Handlers :
    R[h].op = "cancel" /\ R[h].main.st = "open" /\ g # h => R[g] = Idle

\* UnitsConserved, unit by unit: apart, and together what was ordered.
UnitsApart(m, P) ==
  /\ \A p, q \in PaidOf(P) : p # q => \A u \in P[p].units : u \notin P[q].units
  /\ IsLive(m) => \A p \in PaidOf(P) : \A u \in P[p].units : u \notin m.units

Whole(m, P, o) ==
  /\ o \in SUBSET Units
  /\ IsLive(m) => \A u : u \in o <=> u \in m.units \/ \E p \in PaidOf(P) : u \in P[p].units

\* CouponCovered, part by part.
Covered(m, P, n) ==
  LET own == IF m.st = "invoiced" /\ m.rec THEN 1 ELSE 0
  IN n >= own /\ \A p \in PaidOf(P) : P[p].coupon => n >= 1 + own

\* Under DiscountKept no row has a larger discount than the coupon gives, nor have all.
Shared(m, P) == (IF m.st # "cancelled" THEN m.disc ELSE 0) + SumOver(Discs(P), PaidOf(P)) <= MostOff
Discounted(m, P) ==
  DiscountKept => m.disc <= MostOff /\ (\A p \in Parts : P[p].disc <= MostOff) /\ Shared(m, P)

NoneLeft(m, P) == Isolated => (m.st = "cancelled" => PaidOf(P) = {})

Rightful(m, P, n, R) ==
  /\ Typed(m, P, n, R) /\ Rows(m, P) /\ Alone(R)
  /\ \A h \in Handlers : Sound(R[h], m, P)
  /\ UnitsApart(m, P) /\ Covered(m, P, n) /\ NoneLeft(m, P) /\ Discounted(m, P)

SplitInv == Rightful(main, parts, uses, req)

\* What is on the bill is kept apart from the rest: only an edit looks at it.
ListedInv == SplitInv /\ Whole(main, parts, ordered)

-----------------------------------------------------------------------------
(* What the handlers compute *)

LEMMA OverrideIs ==
  ASSUME NEW d \in Int, NEW g \in Int
  PROVE  /\ Override(d, g) \in Nat /\ NotNegative(d) \in Nat /\ NotNegative(g) \in Nat
         /\ Override(d, g) <= NotNegative(d)
         /\ d <= NotNegative(d) /\ (d \in Nat => NotNegative(d) = d)
  BY DEF Override, AtMost, NotNegative

LEMMA Subsets ==
  ASSUME NEW s \in SUBSET Units
  PROVE  /\ Cardinality(s) \in Nat /\ Price * Cardinality(s) \in Nat
         /\ Price * Cardinality(s) <= Price * Cardinality(Units)
<1>1. Cardinality(s) \in Nat /\ Cardinality(s) <= Cardinality(Units)
  BY SplitAssumption, FS_Subset, FS_CardinalityType
<1>2. \A a \in Nat, b \in Nat, n \in Nat : a <= b => n * a \in Nat /\ n * a <= n * b
  OBVIOUS
<1> QED
  BY <1>1, <1>2, UnitsCounted

LEMMA FullIs ==
  ASSUME NEW s \in SUBSET Units
  PROVE  /\ FullDiscount(s) \in Nat /\ FullDiscount(s) <= MostOff /\ MostOff \in Nat
         /\ FullDiscount(s) = IF MostOff <= Price * Cardinality(s) THEN MostOff
                              ELSE Price * Cardinality(s)
<1>1. Price * Cardinality(s) \in Nat /\ MostOff \in Nat
  BY Subsets, SplitAssumption
<1>2. Coupon.kind = "amount" /\ Coupon.value = MostOff
  BY DEF Coupon, Rule
<1>3. FullDiscount(s) = AtMost(NotNegative(MostOff), Price * Cardinality(s))
  BY <1>2 DEF FullDiscount, Discount
<1> QED
  BY <1>1, <1>3 DEF AtMost, NotNegative

LEMMA GrossIs ==
  ASSUME NEW m, m.units \in SUBSET Units, m.credits \in Seq(Credit), m.disc \in Nat
  PROVE  /\ Gross(m) = Price * Cardinality(m.units) - Credited(m.credits) /\ Gross(m) \in Int
         /\ Gross(m) <= Price * Cardinality(Units)
         /\ Total(m) = NotNegative(Gross(m) - m.disc) /\ Total(m) \in Nat
         /\ Total(m) <= Price * Cardinality(Units)
<1>1. CreditSum(m) = Credited(m.credits) /\ Credited(m.credits) \in Nat
  BY CreditSumIs
<1>2. /\ Price * Cardinality(m.units) \in Nat /\ Price * Cardinality(Units) \in Nat
      /\ Price * Cardinality(m.units) <= Price * Cardinality(Units)
  BY Subsets, UnitsCounted
<1>3. Gross(m) = Price * Cardinality(m.units) - Credited(m.credits)
  BY <1>1 DEF Gross
<1>4. Gross(m) \in Int /\ Gross(m) <= Price * Cardinality(Units)
  BY <1>1, <1>2, <1>3
<1>5. Total(m) = NotNegative(Gross(m) - m.disc)
  BY DEF Total, Due
<1> QED
  BY <1>2, <1>3, <1>4, <1>5 DEF NotNegative

\* The discount for what is left is not more than what remains of it.
LEMMA AdjustedIs ==
  ASSUME NEW m, m.disc \in Nat, NEW left, left.units \in SUBSET Units,
         left.credits \in Seq(Credit), left.disc \in Nat, NEW pending \in Nat
  PROVE  /\ Adjusted(m, left, pending) \in Nat
         /\ Adjusted(m, left, pending) <= IF MostOff >= pending THEN MostOff ELSE pending
         /\ MostOff = 0 \/ m.disc > 0 => Adjusted(m, left, pending) <= pending
         /\ left.credits = <<>> => Adjusted(m, left, pending) <= Gross(left)
         /\ (/\ pending = m.disc /\ pending <= MostOff /\ (MostOff = 0 \/ m.disc > 0)
             /\ Gross(left) = pending)
              => Adjusted(m, left, pending) = pending
<1> DEFINE full == FullDiscount(left.units)
           worth == Price * Cardinality(left.units)
           over == Override(pending, Gross(left))
<1>1. Gross(left) = worth - Credited(left.credits) /\ Gross(left) \in Int
  BY GrossIs
<1>2. /\ full \in Nat /\ MostOff \in Nat /\ full = IF MostOff <= worth THEN MostOff ELSE worth
      /\ worth \in Nat
  BY FullIs, Subsets
<1>3. /\ over \in Nat /\ over <= pending /\ (Gross(left) >= 0 => over <= Gross(left))
      /\ Gross(left) = pending => over = pending
  BY <1>1 DEF Override, AtMost, NotNegative
<1>4. Adjusted(m, left, pending) = IF m.disc > 0 /\ pending < full THEN over ELSE full
  BY DEF Adjusted
<1>5. left.credits = <<>> => Gross(left) = worth
  BY <1>1, <1>2, NoCredits
<1>6. Credited(left.credits) \in Nat
  BY CreditSumIs
<1> HIDE DEF full, worth, over
<1>7. Gross(left) <= worth
  BY <1>1, <1>2, <1>6
<1>8. full <= MostOff /\ full <= worth
  BY <1>2
<1>9. left.credits = <<>> => Adjusted(m, left, pending) <= Gross(left)
  BY <1>2, <1>3, <1>4, <1>5, <1>8
<1>10. ASSUME pending = m.disc, pending <= MostOff, MostOff = 0 \/ m.disc > 0, Gross(left) = pending
       PROVE  Adjusted(m, left, pending) = pending
  <2>1. pending <= full
    BY <1>2, <1>7, <1>10
  <2> QED
    BY <1>2, <1>3, <1>4, <1>10, <2>1
<1> QED
  BY <1>2, <1>3, <1>4, <1>8, <1>9, <1>10

LEMMA ItemsLeftIs ==
  ASSUME NEW m \in MainRow, NEW p \in PartRow
  PROVE  /\ ItemsLeft(m, p) \in MainRow
         /\ ItemsLeft(m, p).units = m.units \ p.units
         /\ ItemsLeft(m, p).credits = m.credits
         /\ ItemsLeft(m, p).coupon = m.coupon /\ ItemsLeft(m, p).rec = m.rec
         /\ ItemsLeft(m, p).st = IF m.units \ p.units = {} THEN "settled" ELSE "open"
         /\ p.disc <= m.disc /\ (MostOff = 0 \/ m.disc > 0) =>
              ItemsLeft(m, p).disc + p.disc <= m.disc
         /\ m.credits = <<>> => ItemsLeft(m, p).disc <= Gross(ItemsLeft(m, p))
<1> DEFINE left == [m EXCEPT !.units = @ \ p.units]
           d == Adjusted(m, left, Remaining(m, p.disc))
           st == IF left.units = {} THEN "settled" ELSE "open"
<1>1. /\ left \in MainRow /\ left.units = m.units \ p.units /\ left.credits = m.credits
      /\ left.coupon = m.coupon /\ left.rec = m.rec /\ left.disc = m.disc
  BY DEF MainRow, PartRow
<1>2. ItemsLeft(m, p) = [left EXCEPT !.disc = d, !.st = st]
  BY DEF ItemsLeft
<1>3. m.disc \in Nat /\ p.disc \in Nat /\ left.units \in SUBSET Units /\ left.credits \in Seq(Credit)
  BY <1>1 DEF MainRow, PartRow
<1>4. Remaining(m, p.disc) \in Nat /\ (p.disc <= m.disc => Remaining(m, p.disc) = m.disc - p.disc)
  BY <1>3 DEF Remaining, NotNegative
<1> HIDE DEF left
<1>5. /\ d \in Nat /\ (MostOff = 0 \/ m.disc > 0 => d <= Remaining(m, p.disc))
      /\ m.credits = <<>> => d <= Gross(left)
  BY <1>1, <1>3, <1>4, AdjustedIs
<1>6. st \in {"open", "settled"}
  OBVIOUS
<1> HIDE DEF d
<1>7. /\ [left EXCEPT !.disc = d, !.st = st] \in MainRow
      /\ [left EXCEPT !.disc = d, !.st = st].disc = d
      /\ [left EXCEPT !.disc = d, !.st = st].st = st
      /\ [left EXCEPT !.disc = d, !.st = st].units = left.units
      /\ [left EXCEPT !.disc = d, !.st = st].credits = left.credits
      /\ [left EXCEPT !.disc = d, !.st = st].coupon = left.coupon
      /\ [left EXCEPT !.disc = d, !.st = st].rec = left.rec
  BY <1>1, <1>5, <1>6 DEF MainRow
<1>8. Gross(ItemsLeft(m, p)) = Gross(left)
  BY <1>2, <1>7 DEF Gross, CreditSum
<1> QED
  BY <1>1, <1>2, <1>3, <1>4, <1>5, <1>7, <1>8

\* A payment of the balance leaves a credit, of at least its amount.
LEMMA AmountLeftIs ==
  ASSUME NEW m \in MainRow, NEW p \in PartRow, p.gross \in 1..Total(m)
  PROVE  LET l == AmountLeft(m, p)
             c == [name |-> p.name, amount |-> IF Settles(m, p.gross) THEN NotNegative(Gross(m) - m.disc)
                                               ELSE p.gross]
         IN /\ l \in MainRow /\ c \in Credit
            /\ l.units = m.units /\ l.credits = Append(m.credits, c)
            /\ l.coupon = m.coupon /\ l.rec = m.rec
            /\ l.st = IF Settles(m, p.gross) THEN "settled" ELSE "open"
            /\ MostOff = 0 \/ m.disc > 0 => l.disc <= m.disc
            /\ Gross(l) = Gross(m) - c.amount
            /\ (m.disc <= MostOff /\ (MostOff = 0 \/ m.disc > 0) /\ Gross(l) = m.disc) =>
                 l.disc = m.disc
<1> DEFINE settles == Settles(m, p.gross)
           amount == IF settles THEN NotNegative(Gross(m) - m.disc) ELSE p.gross
           c == [name |-> p.name, amount |-> amount]
           left == [m EXCEPT !.credits = Append(@, c)]
           d == Adjusted(m, left, m.disc)
           st == IF settles THEN "settled" ELSE "open"
<1>0. m.disc \in Nat /\ m.units \in SUBSET Units /\ m.credits \in Seq(Credit) /\ p.name \in Names
  BY DEF MainRow, PartRow
<1>1. amount \in Amounts
  <2>1. /\ Total(m) = NotNegative(Gross(m) - m.disc) /\ Total(m) \in Nat
        /\ Total(m) <= Price * Cardinality(Units)
    BY <1>0, GrossIs
  <2>2. p.gross \in Amounts
    BY DEF PartRow
  <2> QED
    BY <2>1, <2>2, UnitsCounted DEF Amounts
<1>2. c \in Credit
  BY <1>0, <1>1 DEF Credit
<1> HIDE DEF c
<1>3. Append(m.credits, c) \in Seq(Credit)
  BY <1>0, <1>2, CreditAppended
<1>4. /\ left \in MainRow /\ left.units = m.units /\ left.credits = Append(m.credits, c)
      /\ left.coupon = m.coupon /\ left.rec = m.rec /\ left.disc = m.disc
  BY <1>3 DEF MainRow
<1>5. AmountLeft(m, p) = [left EXCEPT !.disc = d, !.st = st]
  BY DEF AmountLeft, c
<1> HIDE DEF left
<1>6. /\ d \in Nat /\ (MostOff = 0 \/ m.disc > 0 => d <= m.disc)
      /\ (m.disc <= MostOff /\ (MostOff = 0 \/ m.disc > 0) /\ Gross(left) = m.disc) => d = m.disc
  <2>1. left.units \in SUBSET Units /\ left.credits \in Seq(Credit) /\ left.disc \in Nat
    BY <1>4 DEF MainRow
  <2> QED
    BY <1>0, <2>1, AdjustedIs
<1>7. st \in {"open", "settled"}
  OBVIOUS
<1> HIDE DEF d, st
<1>8. /\ [left EXCEPT !.disc = d, !.st = st] \in MainRow
      /\ [left EXCEPT !.disc = d, !.st = st].disc = d
      /\ [left EXCEPT !.disc = d, !.st = st].st = st
      /\ [left EXCEPT !.disc = d, !.st = st].units = left.units
      /\ [left EXCEPT !.disc = d, !.st = st].credits = left.credits
      /\ [left EXCEPT !.disc = d, !.st = st].coupon = left.coupon
      /\ [left EXCEPT !.disc = d, !.st = st].rec = left.rec
  BY <1>4, <1>6, <1>7 DEF MainRow
<1>9. Gross(AmountLeft(m, p)) = Gross(left)
  BY <1>5, <1>8 DEF Gross, CreditSum
<1>10. Gross(left) = Gross(m) - c.amount
  <2>1. Credited(left.credits) = Credited(m.credits) + c.amount
    BY <1>0, <1>2, <1>4, CreditAppended
  <2>2. /\ Gross(m) = Price * Cardinality(m.units) - Credited(m.credits)
        /\ Gross(left) = Price * Cardinality(m.units) - Credited(left.credits)
    BY <1>0, <1>4, GrossIs DEF MainRow
  <2>3. /\ Price * Cardinality(m.units) \in Nat /\ Credited(m.credits) \in Nat /\ c.amount \in Nat
    BY <1>0, <1>2, Subsets, CreditSumIs, UnitsCounted DEF Credit
  <2> QED
    BY <2>1, <2>2, <2>3
<1> QED
  BY <1>2, <1>4, <1>5, <1>6, <1>8, <1>9, <1>10 DEF c, st

LEMMA CreditOfIs ==
  ASSUME NEW m \in MainRow, NEW p, CreditOf(m, p) > 0
  PROVE  /\ CreditOf(m, p) \in 1..Len(m.credits) /\ m.credits[CreditOf(m, p)].name = p.name
         /\ (\E i \in 1..Len(m.credits) : m.credits[i].name = p.name /\ m.credits[i].amount = p.gross)
              => m.credits[CreditOf(m, p)].amount = p.gross
<1>1. Len(m.credits) \in Nat
  BY WorthsTyped DEF MainRow
<1> DEFINE D == 1..Len(m.credits)
           exact == {i \in D : m.credits[i].name = p.name /\ m.credits[i].amount = p.gross}
           named == {i \in D : m.credits[i].name = p.name}
<1>2. CreditOf(m, p) = IF exact # {} /\ Max(exact) > 0 THEN Max(exact)
                       ELSE IF named # {} THEN Max(named) ELSE 0
  BY DEF CreditOf, SelectLastInSeq
<1>3. exact # {} => Max(exact) \in exact
  BY <1>1, MaxIn
<1>4. named # {} => Max(named) \in named
  BY <1>1, MaxIn
<1>5. \A i \in exact \cup named : i \in D /\ m.credits[i].name = p.name
  OBVIOUS
<1>6. /\ \A i \in D : i > 0
      /\ \A i \in exact : m.credits[i].amount = p.gross
      /\ (\E i \in D : m.credits[i].name = p.name /\ m.credits[i].amount = p.gross) => exact # {}
  BY <1>1
<1> HIDE DEF exact, named, D
<1>7. CASE exact # {}
  <2>1. Max(exact) > 0 /\ CreditOf(m, p) = Max(exact)
    BY <1>2, <1>3, <1>5, <1>6, <1>7
  <2> QED
    BY <1>3, <1>5, <1>6, <1>7, <2>1 DEF D
<1>8. CASE exact = {}
  <2>1. named # {} /\ CreditOf(m, p) = Max(named)
    BY <1>2, <1>8
  <2> QED
    BY <1>4, <1>5, <1>6, <1>8, <2>1 DEF D
<1> QED
  BY <1>7, <1>8

LEMMA RestoredIs ==
  ASSUME NEW m \in MainRow, NEW p \in PartRow, p.mode = "amount" => CreditOf(m, p) > 0,
         p.mode # "none"
  PROVE  LET l == Restored(m, p) IN
         /\ l \in MainRow /\ l.st = "open" /\ l.coupon = m.coupon /\ l.rec = m.rec
         /\ p.mode = "items" => /\ l.units = m.units \cup p.units /\ l.credits = m.credits
                                /\ l.disc <= m.disc + p.disc
                                /\ l.disc = Override(m.disc + p.disc, Gross(l))
         /\ p.mode = "amount" => /\ l.units = m.units /\ l.credits = RemoveAt(m.credits, CreditOf(m, p))
                                 /\ l.disc <= m.disc
                                 /\ l.disc = Override(m.disc, Gross(l))
<1> DEFINE taken == [m EXCEPT !.units = m.units \cup p.units, !.disc = m.disc + p.disc]
           paid == [m EXCEPT !.credits = RemoveAt(@, CreditOf(m, p))]
           back == IF p.mode = "items" THEN taken ELSE paid
           d == Override(back.disc, Gross(back))
<1>1. p.mode \in {"items", "amount"}
  BY DEF PartRow
<1>2. p.disc \in Nat /\ m.disc \in Nat /\ m.disc + p.disc \in Nat /\ p.units \in SUBSET Units
  BY DEF PartRow, MainRow
<1>3. /\ taken \in MainRow /\ taken.units = m.units \cup p.units /\ taken.credits = m.credits
      /\ taken.disc = m.disc + p.disc /\ taken.coupon = m.coupon /\ taken.rec = m.rec
  BY <1>2 DEF MainRow
<1>4. ASSUME p.mode = "amount"
      PROVE  /\ paid \in MainRow /\ paid.units = m.units /\ paid.disc = m.disc
             /\ paid.credits = RemoveAt(m.credits, CreditOf(m, p))
             /\ paid.coupon = m.coupon /\ paid.rec = m.rec
  <2>1. m.credits \in Seq(Credit) /\ CreditOf(m, p) \in 1..Len(m.credits)
    BY <1>4, CreditOfIs DEF MainRow
  <2>2. RemoveAt(m.credits, CreditOf(m, p)) \in Seq(Credit)
    BY <2>1, CreditRemoved
  <2> QED
    BY <2>2 DEF MainRow
<1>5. /\ back \in MainRow /\ back.coupon = m.coupon /\ back.rec = m.rec
      /\ p.mode = "items" => /\ back.units = m.units \cup p.units /\ back.credits = m.credits
                             /\ back.disc = m.disc + p.disc
      /\ p.mode = "amount" => /\ back.units = m.units /\ back.disc = m.disc
                              /\ back.credits = RemoveAt(m.credits, CreditOf(m, p))
  BY <1>1, <1>3, <1>4
<1>6. Restored(m, p) = [back EXCEPT !.st = "open", !.disc = d]
  BY DEF Restored, ItemsBack, DiscountBack
<1> HIDE DEF back
<1>7. d \in Nat /\ d <= back.disc
  <2>1. back.disc \in Nat /\ Gross(back) \in Int
    BY <1>5, GrossIs DEF MainRow
  <2> QED
    BY <2>1 DEF Override, AtMost, NotNegative
<1> HIDE DEF d
<1>8. /\ [back EXCEPT !.st = "open", !.disc = d] \in MainRow
      /\ [back EXCEPT !.st = "open", !.disc = d].st = "open"
      /\ [back EXCEPT !.st = "open", !.disc = d].disc = d
      /\ [back EXCEPT !.st = "open", !.disc = d].units = back.units
      /\ [back EXCEPT !.st = "open", !.disc = d].credits = back.credits
      /\ [back EXCEPT !.st = "open", !.disc = d].coupon = back.coupon
      /\ [back EXCEPT !.st = "open", !.disc = d].rec = back.rec
  BY <1>5, <1>7 DEF MainRow
<1>9. Gross(Restored(m, p)) = Gross(back) /\ Restored(m, p).disc = Override(back.disc, Gross(back))
  BY <1>6, <1>8 DEF Gross, CreditSum, d
<1> QED
  BY <1>2, <1>5, <1>6, <1>7, <1>8, <1>9

-----------------------------------------------------------------------------
(* Requests *)

\* What Begin builds.
LEMMA BegunSplit ==
  ASSUME NEW m \in MainRow, NEW part \in PartRow, NEW left \in MainRow
  PROVE  LET r == [op |-> "split", main |-> m, fresh |-> TRUE, part |-> part, left |-> left]
         IN r \in SplitRequest /\ r.main = m /\ r.op = "split" /\ r.part = part /\ r.left = left
  BY DEF SplitRequest

LEMMA BegunVoid ==
  ASSUME NEW m \in MainRow, NEW p \in Parts, NEW part \in PartRow
  PROVE  LET r == [op |-> "void", main |-> m, fresh |-> TRUE, id |-> p, part |-> part,
                 restores |-> FALSE]
         IN r \in VoidRequest /\ r.main = m /\ r.op = "void" /\ r.id = p /\ r.part = part
  BY DEF VoidRequest

LEMMA BegunEdit ==
  ASSUME NEW m \in MainRow, NEW list \in SUBSET Units, NEW left \in MainRow
  PROVE  LET r == [op |-> "edit", main |-> m, fresh |-> TRUE, list |-> list, left |-> left]
         IN r \in EditRequest /\ r.main = m /\ r.op = "edit" /\ r.left = left /\ r.list = list
  BY DEF EditRequest

LEMMA BegunFinal ==
  ASSUME NEW m \in MainRow, NEW left \in MainRow
  PROVE  LET r == [op |-> "finalize", main |-> m, fresh |-> TRUE, left |-> left]
         IN r \in FinalRequest /\ r.main = m /\ r.op = "finalize" /\ r.left = left
  BY DEF FinalRequest

LEMMA BegunCancel ==
  ASSUME NEW m \in MainRow
  PROVE  LET r == [op |-> "cancel", main |-> m, fresh |-> TRUE]
         IN r \in CancelRequest /\ r.main = m /\ r.op = "cancel"
  BY DEF CancelRequest

\* What a write to the main account leaves of another handler's request.
Stale(r) == [r EXCEPT !.fresh = FALSE]

LEMMA StaleIs ==
  ASSUME NEW r \in Requests, r # Idle
  PROVE  /\ Stale(r) \in Requests /\ Stale(r) # Idle /\ ~Stale(r).fresh
         /\ Stale(r).op = r.op /\ Stale(r).main = r.main
         /\ r.op = "split" => Stale(r).part = r.part /\ Stale(r).left = r.left
         /\ r.op \in {"void", "restore"} => /\ Stale(r).part = r.part /\ Stale(r).id = r.id
                                            /\ Stale(r).restores = r.restores
         /\ r.op \in {"edit", "finalize"} => Stale(r).left = r.left
         /\ r.op = "edit" => Stale(r).list = r.list
<1>0. Idle.op = "idle"
  BY DEF Idle
<1>1. CASE r \in SplitRequest
  BY <1>0, <1>1 DEF Requests, SplitRequest, Stale
<1>2. CASE r \in VoidRequest
  BY <1>0, <1>2 DEF Requests, VoidRequest, Stale
<1>3. CASE r \in EditRequest
  BY <1>0, <1>3 DEF Requests, EditRequest, Stale
<1>4. CASE r \in FinalRequest
  BY <1>0, <1>4 DEF Requests, FinalRequest, Stale
<1>5. CASE r \in CancelRequest
  BY <1>0, <1>5 DEF Requests, CancelRequest, Stale
<1> QED
  BY <1>1, <1>2, <1>3, <1>4, <1>5 DEF Requests

\* The kinds of requests have different operations.
LEMMA KindsOfRequests ==
  ASSUME NEW r \in Requests
  PROVE  /\ r = Idle \/ r.op \in {"split", "void", "restore", "edit", "finalize", "cancel"}
         /\ r # Idle => r.main \in MainRow /\ r.fresh \in BOOLEAN
         /\ r.op = "split" => r \in SplitRequest
         /\ r.op \in {"void", "restore"} => r \in VoidRequest
         /\ r.op = "edit" => r \in EditRequest
         /\ r.op = "finalize" => r \in FinalRequest
         /\ r.op = "cancel" => r \in CancelRequest
         /\ r.op # "idle" => r # Idle
<1>0. Idle.op = "idle"
  BY DEF Idle
<1>1. CASE r \in SplitRequest
  BY <1>0, <1>1 DEF SplitRequest
<1>2. CASE r \in VoidRequest
  BY <1>0, <1>2 DEF VoidRequest
<1>3. CASE r \in EditRequest
  BY <1>0, <1>3 DEF EditRequest
<1>4. CASE r \in FinalRequest
  BY <1>0, <1>4 DEF FinalRequest
<1>5. CASE r \in CancelRequest
  BY <1>0, <1>5 DEF CancelRequest
<1>6. CASE r = Idle
  BY <1>0, <1>6
<1> QED
  BY <1>1, <1>2, <1>3, <1>4, <1>5, <1>6 DEF Requests

\* A request stays sound when only what it is about is kept of the rows.
KeepsParts(P, Q) ==
  \A p \in Parts : P[p].st \in {"paid", "cancelled"} =>
    /\ Q[p].st \in {"paid", "cancelled"}
    /\ Q[p].st = "paid" => P[p].st = "paid" /\ SamePart(P[p], Q[p])

LEMMA StaleIsSound ==
  ASSUME NEW r \in Requests, r # Idle, NEW m, NEW P, Sound(r, m, P), NEW l, NEW Q,
         KeepsParts(P, Q), ~IsLive(m) => ~IsLive(l), CancelSound(r, l, Q)
  PROVE  Sound(Stale(r), l, Q)
<1> DEFINE s == Stale(r)
<1>1. /\ s \in Requests /\ s # Idle /\ ~s.fresh /\ s.op = r.op /\ s.main = r.main
      /\ r.op = "split" => s.part = r.part /\ s.left = r.left
      /\ r.op \in {"void", "restore"} => s.part = r.part /\ s.id = r.id /\ s.restores = r.restores
      /\ r.op \in {"edit", "finalize"} => s.left = r.left
      /\ r.op = "edit" => s.list = r.list
  BY StaleIs
<1> HIDE DEF s
<1>2. SplitSound(s)
  <2>1. SplitSound(r)
    BY DEF Sound
  <2> QED
    BY <1>1, <2>1 DEF SplitSound, TakesItems, TakesAmount
<1>3. VoidSound(s, l, Q)
  <2> SUFFICES ASSUME r.op \in {"void", "restore"}
               PROVE  VoidSound(s, l, Q)
    BY <1>1 DEF VoidSound
  <2>1. VoidSound(r, m, P)
    BY DEF Sound
  <2>2. r.id \in Parts
    BY KindsOfRequests DEF VoidRequest
  <2>3. Q[r.id].st \in {"paid", "cancelled"} /\ (Q[r.id].st = "paid" => SamePart(r.part, Q[r.id]))
    BY <2>1, <2>2 DEF VoidSound, KeepsParts, SamePart
  <2> QED
    BY <1>1, <2>1, <2>3 DEF VoidSound
<1>4. EditSound(s, Q)
  <2>1. EditSound(r, P)
    BY DEF Sound
  <2> QED
    BY <1>1, <2>1 DEF EditSound
<1>5. FinalizeSound(s)
  <2>1. FinalizeSound(r)
    BY DEF Sound
  <2> QED
    BY <1>1, <2>1 DEF FinalizeSound
<1>6. CancelSound(s, l, Q)
  BY <1>1 DEF CancelSound
<1> QED
  BY <1>1, <1>2, <1>3, <1>4, <1>5, <1>6 DEF Sound, s

\* The handlers after a step: each is done, or has been overtaken by a write, or goes on.
Passes(r, s, l, Q) ==
  \/ s = Idle
  \/ r # Idle /\ s = Stale(r) /\ CancelSound(r, l, Q)
  \/ s = r /\ Sound(r, l, Q)

LEMMA HandlersPass ==
  ASSUME NEW m, NEW P, NEW R \in [Handlers -> Requests], \A g \in Handlers : Sound(R[g], m, P),
         Alone(R), NEW l, NEW Q, KeepsParts(P, Q), ~IsLive(m) => ~IsLive(l),
         NEW S, S = [g \in Handlers |-> S[g]],
         \A g \in Handlers : Passes(R[g], S[g], l, Q)
  PROVE  S \in [Handlers -> Requests] /\ (\A g \in Handlers : Sound(S[g], l, Q)) /\ Alone(S)
<1>0. Idle \in Requests /\ Idle.op = "idle"
  BY DEF Requests, Idle
<1>1. ASSUME NEW g \in Handlers
      PROVE  /\ S[g] \in Requests /\ Sound(S[g], l, Q)
             /\ S[g] # Idle => R[g] # Idle /\ S[g].op = R[g].op /\ S[g].main = R[g].main
  <2>1. R[g] \in Requests /\ Sound(R[g], m, P)
    OBVIOUS
  <2>2. CASE S[g] = Idle
    BY <1>0, <2>2 DEF Sound
  <2>3. CASE R[g] # Idle /\ S[g] = Stale(R[g]) /\ CancelSound(R[g], l, Q)
    <3>1. Sound(Stale(R[g]), l, Q)
      BY <2>1, <2>3, StaleIsSound
    <3>2. Stale(R[g]) \in Requests /\ Stale(R[g]).op = R[g].op /\ Stale(R[g]).main = R[g].main
      BY <2>1, <2>3, StaleIs
    <3> QED
      BY <2>3, <3>1, <3>2
  <2>4. CASE S[g] = R[g] /\ Sound(R[g], l, Q)
    BY <2>1, <2>4
  <2> QED
    BY <2>2, <2>3, <2>4 DEF Passes
<1>2. S \in [Handlers -> Requests]
  BY <1>1
<1>3. Alone(S)
  <2> SUFFICES ASSUME Isolated, NEW g \in Handlers, NEW h \in Handlers,
                      S[h].op = "cancel", S[h].main.st = "open", g # h
               PROVE  S[g] = Idle
    BY DEF Alone
  <2>1. S[h] # Idle
    BY <1>0
  <2>2. R[h].op = "cancel" /\ R[h].main.st = "open"
    BY <1>1, <2>1
  <2>3. R[g] = Idle
    BY <2>2 DEF Alone
  <2> QED
    BY <1>1, <2>3
<1> QED
  BY <1>1, <1>2, <1>3

LEMMA OneBegins ==
  ASSUME NEW m, NEW P, NEW n, NEW R, Rightful(m, P, n, R), NEW h \in Handlers,
         NEW r \in Requests, Sound(r, m, P), Alone([R EXCEPT ![h] = r])
  PROVE  Rightful(m, P, n, [R EXCEPT ![h] = r])
<1>1. [R EXCEPT ![h] = r] \in [Handlers -> Requests]
  BY DEF Rightful, Typed
<1>2. \A g \in Handlers : Sound([R EXCEPT ![h] = r][g], m, P)
  BY DEF Rightful, Typed
<1> QED
  BY <1>1, <1>2 DEF Rightful, Typed

LEMMA StartsAlone ==
  ASSUME NEW R \in [Handlers -> Requests], NEW h \in Handlers, NEW r \in Requests,
         Isolated => \A g \in Handlers : R[g] # Idle =>
                       ~(R[g].op = "cancel" /\ R[g].main.st = "open"),
         Isolated /\ r.op = "cancel" /\ r.main.st = "open" => \A g \in Handlers : R[g] = Idle
  PROVE  Alone([R EXCEPT ![h] = r])
<1> DEFINE S == [R EXCEPT ![h] = r]
<1> SUFFICES ASSUME Isolated, NEW g \in Handlers, NEW k \in Handlers,
                    S[k].op = "cancel", S[k].main.st = "open", g # k
             PROVE  S[g] = Idle
  BY DEF Alone
<1>1. Idle.op = "idle"
  BY DEF Idle
<1>2. S[h] = r /\ \A i \in Handlers : i # h => S[i] = R[i]
  OBVIOUS
<1> HIDE DEF S
<1>3. k = h
  BY <1>1, <1>2
<1> QED
  BY <1>2, <1>3

LEMMA BeginKeeps ==
  ASSUME SplitInv, NEW h \in Handlers, NEW r \in Requests, Begin(h, r), Sound(r, main, parts),
         Isolated /\ r.op = "cancel" /\ r.main.st = "open" => \A g \in Handlers : req[g] = Idle
  PROVE  SplitInv'
<1>1. Rightful(main, parts, uses, req) /\ req \in [Handlers -> Requests]
  BY DEF SplitInv, Rightful, Typed
<1>2. req' = [req EXCEPT ![h] = r] /\ main' = main /\ parts' = parts /\ uses' = uses
  BY DEF Begin
<1>3. Alone([req EXCEPT ![h] = r])
  <2>1. Isolated => \A g \in Handlers : req[g] # Idle =>
                      ~(req[g].op = "cancel" /\ req[g].main.st = "open")
    BY DEF Begin
  <2> QED
    BY <1>1, <2>1, StartsAlone
<1>4. Rightful(main, parts, uses, [req EXCEPT ![h] = r])
  BY <1>1, <1>3, OneBegins
<1> QED
  BY <1>2, <1>4 DEF SplitInv

-----------------------------------------------------------------------------
(* A handler begins *)

LEMMA NoPartIs == NoPart \in PartRow /\ Table \in Names
<1>1. 0 \in Amounts
  BY UnitsCounted DEF Amounts
<1> QED
  BY <1>1 DEF NoPart, PartRow, Names

LEMMA ItemsPartIs ==
  ASSUME NEW m, NEW take \in SUBSET Units, NEW given \in Nat \cup {NotGiven}
  PROVE  LET p == ItemsPart(m, take, given, Table) IN
         /\ p \in PartRow /\ p.st = "paid" /\ p.mode = "items" /\ p.units = take
         /\ p.gross = Price * Cardinality(take) /\ p.name = Table /\ p.coupon /\ ~p.rec
         /\ p.disc = IF given = NotGiven THEN FullDiscount(take)
                     ELSE Override(given, Price * Cardinality(take))
         /\ given # NotGiven => p.disc <= given
<1> DEFINE gross == Price * Cardinality(take)
           disc == IF given = NotGiven THEN FullDiscount(take) ELSE Override(given, gross)
           p == [NoPart EXCEPT !.st = "paid", !.mode = "items", !.units = take, !.gross = gross,
                               !.disc = disc, !.name = Table, !.coupon = TRUE]
<1>1. gross \in Amounts /\ gross \in Nat
  BY Subsets, UnitsCounted DEF Amounts
<1>2. disc \in Nat /\ (given # NotGiven => disc <= given)
  <2>1. given # NotGiven => given \in Nat /\ given \in Int
    OBVIOUS
  <2>2. FullDiscount(take) \in Nat
    BY FullIs
  <2>3. given # NotGiven => Override(given, gross) \in Nat /\ Override(given, gross) <= given
    BY <1>1, <2>1 DEF Override, AtMost, NotNegative
  <2> QED
    BY <2>2, <2>3
<1>3. ItemsPart(m, take, given, Table) = p
  BY DEF ItemsPart
<1> HIDE DEF gross, disc
<1>4. /\ p \in PartRow /\ p.st = "paid" /\ p.mode = "items" /\ p.units = take
      /\ p.gross = gross /\ p.name = Table /\ p.coupon /\ ~p.rec /\ p.disc = disc
  BY <1>1, <1>2, NoPartIs DEF NoPart, PartRow
<1> QED
  BY <1>2, <1>3, <1>4 DEF gross, disc

LEMMA AmountPartIs ==
  ASSUME NEW m, NEW amount \in Amounts, NEW name \in Names
  PROVE  LET p == AmountPart(m, amount, name) IN
         /\ p \in PartRow /\ p.st = "paid" /\ p.mode = "amount" /\ p.units = {}
         /\ p.gross = amount /\ p.disc = 0 /\ p.name = name /\ ~p.rec
<1> DEFINE settles == Settles(m, amount)
           p == [NoPart EXCEPT !.st = "paid", !.mode = "amount", !.gross = amount, !.name = name,
                               !.coupon = settles]
<1>1. settles \in BOOLEAN
  BY DEF Settles
<1>2. AmountPart(m, amount, name) = p
  BY DEF AmountPart
<1> HIDE DEF settles
<1>3. /\ p \in PartRow /\ p.st = "paid" /\ p.mode = "amount" /\ p.units = {}
      /\ p.gross = amount /\ p.disc = 0 /\ p.name = name /\ ~p.rec
  BY <1>1, NoPartIs DEF NoPart, PartRow
<1> QED
  BY <1>2, <1>3

LEMMA SplitBegins ==
  ASSUME SplitInv, NEW h \in Handlers, NEW part \in PartRow, NEW left \in MainRow,
         BeginSplit(h, part, left), part.st = "paid", ~part.rec,
         LET r == [op |-> "split", main |-> main, fresh |-> TRUE, part |-> part, left |-> left]
         IN TakesItems(r) \/ TakesAmount(r)
  PROVE  SplitInv'
<1> DEFINE r == [op |-> "split", main |-> main, fresh |-> TRUE, part |-> part, left |-> left]
<1>1. main \in MainRow
  BY DEF SplitInv, Rightful, Typed
<1>2. r \in SplitRequest /\ r.main = main /\ r.op = "split" /\ r.part = part /\ r.left = left
  BY <1>1, BegunSplit
<1>3. Begin(h, r) /\ main.st = "open" /\ (DiscountKept => MostOff = 0 \/ main.disc > 0)
  BY DEF BeginSplit
<1> HIDE DEF r
<1>4. SplitSound(r)
  BY <1>2, <1>3 DEF SplitSound, r
<1>5. Sound(r, main, parts)
  BY <1>2, <1>4 DEF Sound, VoidSound, EditSound, FinalizeSound, CancelSound
<1>6. r \in Requests
  BY <1>2 DEF Requests
<1> QED
  BY <1>2, <1>3, <1>5, <1>6, BeginKeeps

LEMMA SplitItemsBegins ==
  ASSUME SplitInv, NEW h \in Handlers, BeginSplitItems(h)
  PROVE  SplitInv'
<1>1. main \in MainRow /\ main.units \in SUBSET Units /\ main.disc \in Nat
  BY DEF SplitInv, Rightful, Typed, MainRow
<1>2. PICK take \in (SUBSET main.units) \ {{}}, given \in 0..main.disc \cup {NotGiven} :
        LET part == ItemsPart(main, take, given, Table) IN
        /\ main.credits = <<>>
        /\ (DiscountKept /\ given = NotGiven) => part.disc <= main.disc
        /\ BeginSplit(h, part, ItemsLeft(main, part))
  BY DEF BeginSplitItems
<1> DEFINE part == ItemsPart(main, take, given, Table)
           left == ItemsLeft(main, part)
           r == [op |-> "split", main |-> main, fresh |-> TRUE, part |-> part, left |-> left]
<1>3. take \in SUBSET Units /\ given \in Nat \cup {NotGiven} /\ (given # NotGiven => given <= main.disc)
  BY <1>1
<1>4. /\ part \in PartRow /\ part.st = "paid" /\ part.mode = "items" /\ part.units = take
      /\ part.gross = Price * Cardinality(take) /\ part.name = Table /\ part.coupon /\ ~part.rec
      /\ given # NotGiven => part.disc <= given
  BY <1>3, ItemsPartIs
<1>5. BeginSplit(h, part, left) /\ main.credits = <<>>
  BY <1>2
<1>6. DiscountKept => part.disc <= main.disc
  <2>1. CASE given = NotGiven
    BY <1>2, <2>1
  <2>2. CASE given # NotGiven
    BY <1>1, <1>3, <1>4, <2>2 DEF PartRow
  <2> QED
    BY <2>1, <2>2
<1> HIDE DEF part
<1>7. left \in MainRow
  BY <1>1, <1>4, ItemsLeftIs
<1>8. part.gross >= 1
  <2>1. part.gross - part.disc > 0 /\ part.gross \in Nat /\ part.disc \in Nat
    BY <1>4, <1>5, UnitsCounted DEF BeginSplit, PartRow
  <2> QED
    BY <2>1
<1>9. TakesItems(r)
  BY <1>4, <1>5, <1>6, <1>8 DEF TakesItems
<1> HIDE DEF left
<1> QED
  BY <1>4, <1>5, <1>7, <1>9, SplitBegins

LEMMA SplitAmountBegins ==
  ASSUME SplitInv, NEW h \in Handlers, BeginSplitAmount(h)
  PROVE  SplitInv'
<1>1. main \in MainRow
  BY DEF SplitInv, Rightful, Typed
<1>2. PICK amount \in 1..Total(main), name \in Names :
        LET part == AmountPart(main, amount, name) IN
        /\ (CleanNames /\ Settles(main, amount) /\ amount < Total(main)) => name # Table
        /\ BeginSplit(h, part, AmountLeft(main, part))
  BY DEF BeginSplitAmount
<1> DEFINE part == AmountPart(main, amount, name)
           left == AmountLeft(main, part)
           r == [op |-> "split", main |-> main, fresh |-> TRUE, part |-> part, left |-> left]
<1>3. amount \in Amounts
  <2>1. Total(main) \in Nat /\ Total(main) <= Price * Cardinality(Units)
    BY <1>1, GrossIs DEF MainRow
  <2> QED
    BY <2>1, UnitsCounted DEF Amounts
<1>4. /\ part \in PartRow /\ part.st = "paid" /\ part.mode = "amount" /\ part.units = {}
      /\ part.gross = amount /\ part.disc = 0 /\ part.name = name /\ ~part.rec
  BY <1>3, AmountPartIs
<1>5. BeginSplit(h, part, left)
  BY <1>2
<1>6. (CleanNames /\ Settles(main, amount) /\ amount < Total(main)) => name # Table
  BY <1>2
<1> HIDE DEF part
<1>7. left \in MainRow
  BY <1>1, <1>4, AmountLeftIs
<1>8. TakesAmount(r)
  BY <1>4, <1>6 DEF TakesAmount
<1> HIDE DEF left
<1> QED
  BY <1>4, <1>5, <1>7, <1>8, SplitBegins

LEMMA VoidBegins ==
  ASSUME SplitInv, NEW h \in Handlers, NEW p \in Parts, BeginVoid(h, p)
  PROVE  SplitInv'
<1> DEFINE r == [op |-> "void", main |-> main, fresh |-> TRUE, id |-> p, part |-> parts[p],
                 restores |-> FALSE]
<1>1. main \in MainRow /\ parts[p] \in PartRow /\ parts[p].st = "paid" /\ parts[p].mode # "none"
  BY DEF SplitInv, Rightful, Typed, Rows, BeginVoid
<1>2. r \in VoidRequest /\ r.main = main /\ r.op = "void" /\ r.id = p /\ r.part = parts[p]
  BY <1>1, BegunVoid
<1>3. Begin(h, r)
  BY DEF BeginVoid
<1> HIDE DEF r
<1>4. VoidSound(r, main, parts)
  BY <1>1, <1>2 DEF VoidSound, SamePart
<1>5. Sound(r, main, parts)
  BY <1>2, <1>4 DEF Sound, SplitSound, EditSound, FinalizeSound, CancelSound
<1>6. r \in Requests
  BY <1>2 DEF Requests
<1> QED
  BY <1>2, <1>3, <1>5, <1>6, BeginKeeps

LEMMA EditBegins ==
  ASSUME ListedInv, NEW h \in Handlers, BeginEdit(h)
  PROVE  SplitInv'
<1>1. /\ main \in MainRow /\ main.units \in SUBSET Units /\ main.disc \in Nat
      /\ ordered \in SUBSET Units /\ SplitInv
  BY DEF ListedInv, Whole, SplitInv, Rightful, Typed, MainRow
<1>2. PICK kept \in SUBSET main.units, new \in SUBSET (Units \ ordered), keep \in BOOLEAN :
        LET listed == Listed(main, kept, new)
            full == FullDiscount(listed.units)
        IN
        /\ main.st = "open"
        /\ DiscountKept => keep
        /\ Begin(h, [op |-> "edit", main |-> main, fresh |-> TRUE, list |-> kept \cup new,
                     left |-> [listed EXCEPT !.disc =
                       IF keep /\ main.disc < full THEN Override(main.disc, Gross(listed))
                       ELSE full]])
  BY DEF BeginEdit
<1> DEFINE list == kept \cup new
           listed == Listed(main, kept, new)
           full == FullDiscount(listed.units)
           disc == IF keep /\ main.disc < full THEN Override(main.disc, Gross(listed)) ELSE full
           left == [listed EXCEPT !.disc = disc]
           r == [op |-> "edit", main |-> main, fresh |-> TRUE, list |-> list, left |-> left]
<1>3. Begin(h, r)
  BY <1>2
<1>4. list \in SUBSET Units /\ \A p \in PaidOf(parts) : \A u \in parts[p].units : u \notin list
  <2>1. UnitsApart(main, parts) /\ Whole(main, parts, ordered) /\ IsLive(main)
    BY <1>1, <1>2 DEF ListedInv, SplitInv, Rightful, IsLive
  <2> QED
    BY <1>1, <2>1 DEF UnitsApart, Whole
<1> HIDE DEF list
<1>5. /\ listed = [main EXCEPT !.units = list] /\ listed \in MainRow /\ listed.units = list
      /\ listed.disc = main.disc
  BY <1>1, <1>4 DEF MainRow, Listed, list
<1>6. disc \in Nat /\ (DiscountKept => disc <= main.disc)
  <2>1. Gross(listed) \in Int
    BY <1>5, GrossIs DEF MainRow
  <2>2. full \in Nat
    BY <1>4, <1>5, FullIs
  <2>3. Override(main.disc, Gross(listed)) \in Nat /\ Override(main.disc, Gross(listed)) <= main.disc
    BY <1>1, <2>1 DEF Override, AtMost, NotNegative
  <2>4. DiscountKept => keep
    BY <1>2
  <2> HIDE DEF full, listed
  <2> QED
    BY <1>1, <2>2, <2>3, <2>4
<1> HIDE DEF disc
<1>7. left = [main EXCEPT !.units = list, !.disc = disc]
  BY <1>1, <1>5 DEF MainRow
<1>8. left \in MainRow /\ left.disc = disc /\ left.units = list
  BY <1>1, <1>4, <1>6, <1>7 DEF MainRow
<1> HIDE DEF left, listed
<1>9. r \in EditRequest /\ r.main = main /\ r.op = "edit" /\ r.left = left /\ r.list = list
  BY <1>1, <1>4, <1>8, BegunEdit
<1> HIDE DEF r
<1>10. EditSound(r, parts)
  BY <1>2, <1>4, <1>6, <1>7, <1>8, <1>9 DEF EditSound
<1>11. Sound(r, main, parts)
  BY <1>9, <1>10 DEF Sound, SplitSound, VoidSound, FinalizeSound, CancelSound
<1>12. r \in Requests
  BY <1>9 DEF Requests
<1> QED
  BY <1>1, <1>3, <1>9, <1>11, <1>12, BeginKeeps

LEMMA FinalizeBegins ==
  ASSUME SplitInv, NEW h \in Handlers, BeginFinalize(h)
  PROVE  SplitInv'
<1>1. main \in MainRow /\ main.units \in SUBSET Units /\ main.disc \in Nat
  BY DEF SplitInv, Rightful, Typed, MainRow
<1>2. PICK coupon \in BOOLEAN :
        LET full == FullDiscount(main.units) IN
        /\ main.st = "open"
        /\ Begin(h, [op |-> "finalize", main |-> main, fresh |-> TRUE,
                     left |-> [main EXCEPT !.st = "invoiced", !.coupon = coupon,
                                 !.rec = coupon,
                                 !.disc = IF ~coupon \/ main.disc < full
                                            THEN Override(main.disc, Gross(main))
                                            ELSE full]])
  BY DEF BeginFinalize
<1> DEFINE full == FullDiscount(main.units)
           disc == IF ~coupon \/ main.disc < full THEN Override(main.disc, Gross(main)) ELSE full
           left == [main EXCEPT !.st = "invoiced", !.coupon = coupon, !.rec = coupon, !.disc = disc]
           r == [op |-> "finalize", main |-> main, fresh |-> TRUE, left |-> left]
<1>3. Begin(h, r)
  BY <1>2
<1>4. disc \in Nat /\ disc <= main.disc
  <2>1. Gross(main) \in Int
    BY <1>1, GrossIs DEF MainRow
  <2>2. full \in Nat
    BY <1>1, FullIs
  <2>3. Override(main.disc, Gross(main)) \in Nat /\ Override(main.disc, Gross(main)) <= main.disc
    BY <1>1, <2>1 DEF Override, AtMost, NotNegative
  <2> HIDE DEF full
  <2> QED
    BY <1>1, <2>2, <2>3
<1> HIDE DEF disc
<1>5. left \in MainRow /\ left.disc = disc /\ left.coupon = coupon
  BY <1>1, <1>4 DEF MainRow
<1>6. left = [main EXCEPT !.st = "invoiced", !.coupon = left.coupon, !.rec = left.coupon,
                          !.disc = left.disc]
  BY <1>5
<1> HIDE DEF left
<1>7. r \in FinalRequest /\ r.main = main /\ r.op = "finalize" /\ r.left = left
  BY <1>1, <1>5, BegunFinal
<1> HIDE DEF r
<1>8. FinalizeSound(r)
  BY <1>2, <1>4, <1>5, <1>6, <1>7 DEF FinalizeSound
<1>9. Sound(r, main, parts)
  BY <1>7, <1>8 DEF Sound, SplitSound, VoidSound, EditSound, CancelSound
<1>10. r \in Requests
  BY <1>7 DEF Requests
<1> QED
  BY <1>3, <1>7, <1>9, <1>10, BeginKeeps

LEMMA CancelBegins ==
  ASSUME SplitInv, NEW h \in Handlers, BeginCancel(h)
  PROVE  SplitInv'
<1> DEFINE r == [op |-> "cancel", main |-> main, fresh |-> TRUE]
<1>1. main \in MainRow /\ (main.rec => main.st \in {"invoiced", "cancelled"})
  BY DEF SplitInv, Rightful, Typed, Rows
<1>2. /\ main.st # "cancelled" /\ PaidOf(parts) = {} /\ Begin(h, r)
      /\ (Isolated /\ main.st = "open") => \A g \in Handlers : req[g] = Idle
  BY DEF BeginCancel, NoPaidPart, Paid, PaidOf
<1>3. r \in CancelRequest /\ r.main = main /\ r.op = "cancel"
  BY <1>1, BegunCancel
<1> HIDE DEF r
<1>4. CancelSound(r, main, parts)
  BY <1>1, <1>2, <1>3 DEF CancelSound
<1>5. Sound(r, main, parts)
  BY <1>3, <1>4 DEF Sound, SplitSound, VoidSound, EditSound, FinalizeSound
<1>6. r \in Requests
  BY <1>3 DEF Requests
<1> QED
  BY <1>2, <1>3, <1>5, <1>6, BeginKeeps

LEMMA ReadKeeps ==
  ASSUME SplitInv, NEW h \in Handlers, ReadMain(h)
  PROVE  SplitInv'
<1> DEFINE live == main.st \in {"open", "settled"}
           r == [req[h] EXCEPT !.op = "restore", !.main = main, !.fresh = TRUE, !.restores = live]
<1>1. Rightful(main, parts, uses, req) /\ req \in [Handlers -> Requests] /\ main \in MainRow
  BY DEF SplitInv, Rightful, Typed
<1>2. req[h] \in Requests /\ req[h].op = "void" /\ req[h] # Idle /\ req[h] \in VoidRequest
  BY <1>1, KindsOfRequests DEF ReadMain
<1>3. /\ r \in VoidRequest /\ r.op = "restore" /\ r.main = main /\ r.id = req[h].id
      /\ r.part = req[h].part /\ (r.restores <=> IsLive(main))
  <2>1. live \in BOOLEAN /\ (live <=> IsLive(main))
    BY DEF IsLive
  <2> HIDE DEF live
  <2>2. /\ r \in VoidRequest /\ r.op = "restore" /\ r.main = main /\ r.id = req[h].id
        /\ r.part = req[h].part /\ r.restores = live
    BY <1>1, <1>2, <2>1 DEF VoidRequest
  <2> QED
    BY <2>1, <2>2
<1>4. req' = [req EXCEPT ![h] = r] /\ main' = main /\ parts' = parts /\ uses' = uses
  BY <1>1 DEF ReadMain
<1> HIDE DEF r
<1>5. VoidSound(r, main, parts)
  <2>1. VoidSound(req[h], main, parts)
    BY <1>1, <1>2 DEF Rightful, Sound
  <2> QED
    BY <1>2, <1>3, <2>1 DEF VoidSound
<1>6. Sound(r, main, parts)
  BY <1>3, <1>5 DEF Sound, SplitSound, EditSound, FinalizeSound, CancelSound
<1>7. r \in Requests
  BY <1>3 DEF Requests
<1>8. Alone([req EXCEPT ![h] = r])
  <2>1. Alone(req)
    BY <1>1 DEF Rightful
  <2> QED
    BY <1>1, <1>2, <1>3, <2>1 DEF Alone
<1>9. Rightful(main, parts, uses, [req EXCEPT ![h] = r])
  BY <1>1, <1>6, <1>7, <1>8, OneBegins
<1> QED
  BY <1>4, <1>9 DEF SplitInv

-----------------------------------------------------------------------------
(* A handler ends *)

LEMMA PartsKept ==
  ASSUME NEW P
  PROVE  KeepsParts(P, P)
  BY DEF KeepsParts, SamePart

LEMMA RejectKeeps ==
  ASSUME SplitInv, NEW h \in Handlers, Reject(h)
  PROVE  SplitInv'
<1>1. Rightful(main, parts, uses, req) /\ req \in [Handlers -> Requests]
  BY DEF SplitInv, Rightful, Typed
<1>2. (\A g \in Handlers : Sound(req[g], main, parts)) /\ Alone(req)
  BY <1>1 DEF Rightful
<1>3. req' = [req EXCEPT ![h] = Idle] /\ main' = main /\ parts' = parts /\ uses' = uses
  BY DEF Reject
<1>4. req' = [g \in Handlers |-> req'[g]]
  BY <1>1, <1>3
<1>5. \A g \in Handlers : Passes(req[g], req'[g], main, parts)
  BY <1>1, <1>2, <1>3 DEF Passes
<1>6. /\ req' \in [Handlers -> Requests] /\ Alone(req')
      /\ \A g \in Handlers : Sound(req'[g], main, parts)
  BY <1>1, <1>2, <1>4, <1>5, PartsKept, HandlersPass
<1>7. Rightful(main, parts, uses, req')
  BY <1>1, <1>6 DEF Rightful, Typed
<1> QED
  BY <1>3, <1>7 DEF SplitInv

\* The handlers after h wrote l to the main account.
Written(R, h) == [g \in Handlers |-> IF g = h \/ R[g] = Idle THEN Idle ELSE Stale(R[g])]

LEMMA WritePasses ==
  ASSUME NEW m, NEW P, NEW n, NEW R, Rightful(m, P, n, R), NEW h \in Handlers, NEW l, NEW Q,
         KeepsParts(P, Q), ~IsLive(m) => ~IsLive(l),
         \A g \in Handlers : g # h /\ R[g] # Idle => CancelSound(R[g], l, Q)
  PROVE  /\ Written(R, h) \in [Handlers -> Requests] /\ Alone(Written(R, h))
         /\ \A g \in Handlers : Sound(Written(R, h)[g], l, Q)
<1> DEFINE S == Written(R, h)
<1>1. R \in [Handlers -> Requests] /\ Alone(R) /\ \A g \in Handlers : Sound(R[g], m, P)
  BY DEF Rightful, Typed
<1>2. S = [g \in Handlers |-> S[g]]
  BY DEF Written
<1>3. ASSUME NEW g \in Handlers
      PROVE  Passes(R[g], S[g], l, Q)
  <2>1. S[g] = IF g = h \/ R[g] = Idle THEN Idle ELSE Stale(R[g])
    BY DEF Written
  <2> HIDE DEF S
  <2> QED
    BY <2>1 DEF Passes
<1> HIDE DEF S
<1>4. S \in [Handlers -> Requests] /\ (\A g \in Handlers : Sound(S[g], l, Q)) /\ Alone(S)
  BY <1>1, <1>2, <1>3, HandlersPass
<1> QED
  BY <1>4 DEF S

\* A cancellation in flight when an open account is written had read it open.
LEMMA CancelOvertaken ==
  ASSUME NEW r, NEW m, NEW P, NEW l, NEW Q, CancelSound(r, m, P), m.st = "open",
         Isolated /\ r.op = "cancel" /\ r.main.st = "open" => PaidOf(Q) = {}
  PROVE  CancelSound(r, l, Q)
<1> SUFFICES ASSUME r.op = "cancel" PROVE CancelSound(r, l, Q)
  BY DEF CancelSound
<1>1. r.main.st = "open" /\ r.main.st # "cancelled" /\ (r.main.rec => r.main.st = "invoiced")
  BY DEF CancelSound
<1> QED
  BY <1>1 DEF CancelSound

LEMMA TouchKeeps ==
  ASSUME SplitInv, Touch
  PROVE  SplitInv'
<1>1. Rightful(main, parts, uses, req) /\ req \in [Handlers -> Requests]
  BY DEF SplitInv, Rightful, Typed
<1>2. (\A g \in Handlers : Sound(req[g], main, parts)) /\ Alone(req)
  BY <1>1 DEF Rightful
<1>3. /\ req' = [g \in Handlers |-> IF req[g] = Idle THEN Idle ELSE Stale(req[g])]
      /\ main' = main /\ parts' = parts /\ uses' = uses
  BY DEF Touch, Stale
<1>4. req' = [g \in Handlers |-> req'[g]]
  BY <1>3
<1>5. ASSUME NEW g \in Handlers
      PROVE  Passes(req[g], req'[g], main, parts)
  <2>1. req[g] # Idle => CancelSound(req[g], main, parts)
    BY <1>2 DEF Sound
  <2>2. req'[g] = IF req[g] = Idle THEN Idle ELSE Stale(req[g])
    BY <1>3
  <2> QED
    BY <2>1, <2>2 DEF Passes
<1>6. /\ req' \in [Handlers -> Requests] /\ Alone(req')
      /\ \A g \in Handlers : Sound(req'[g], main, parts)
  BY <1>1, <1>2, <1>4, <1>5, PartsKept, HandlersPass
<1>7. Rightful(main, parts, uses, req')
  BY <1>1, <1>6 DEF Rightful, Typed
<1> QED
  BY <1>3, <1>7 DEF SplitInv

\* A write of an open main account that leaves the parts alone, and its discount no larger.
LEMMA MainWritten ==
  ASSUME NEW m, NEW P, NEW n, NEW R, Rightful(m, P, n, R), NEW h \in Handlers, m.st = "open",
         NEW l \in MainRow, NEW k \in Nat, l.credits = m.credits,
         DiscountKept => l.disc <= m.disc,
         \/ l.st = "open" /\ l.rec = m.rec /\ k = n
         \/ l.st = "invoiced" /\ k = n + IF l.rec THEN 1 ELSE 0,
         UnitsApart(l, P)
  PROVE  Rightful(l, P, k, Written(R, h))
<1>1. /\ m \in MainRow /\ Len(m.credits) <= Cardinality(UsedOf(P)) /\ P \in [Parts -> PartRow]
      /\ n \in Nat /\ n <= Cardinality(UsedOf(P)) + IF m.rec THEN 1 ELSE 0
      /\ R \in [Handlers -> Requests]
  BY DEF Rightful, Typed
<1>2. Rows(m, P) /\ ~m.rec /\ (\A g \in Handlers : Sound(R[g], m, P))
  BY DEF Rightful, Rows
<1>3. ASSUME NEW g \in Handlers, g # h, R[g] # Idle
      PROVE  CancelSound(R[g], l, P)
  <2>1. CancelSound(R[g], m, P)
    BY <1>2, <1>3 DEF Sound
  <2>2. Isolated /\ R[g].op = "cancel" => PaidOf(P) = {}
    BY <2>1 DEF CancelSound
  <2> QED
    BY <2>1, <2>2, CancelOvertaken
<1>4. /\ Written(R, h) \in [Handlers -> Requests] /\ Alone(Written(R, h))
      /\ \A g \in Handlers : Sound(Written(R, h)[g], l, P)
  <2>1. ~IsLive(m) => ~IsLive(l)
    BY DEF IsLive
  <2> QED
    BY <1>3, <2>1, PartsKept, WritePasses
<1>5. Cardinality(UsedOf(P)) \in Nat
  BY SplitAssumption, FS_Subset, FS_CardinalityType DEF UsedOf
<1>6. Typed(l, P, k, Written(R, h))
  BY <1>1, <1>2, <1>4, <1>5 DEF Typed
<1>7. Rows(l, P)
  BY <1>2 DEF Rows
<1>8. Covered(l, P, k)
  <2>1. n >= 0 /\ \A p \in PaidOf(P) : P[p].coupon => n >= 1 + 0
    BY DEF Rightful, Covered
  <2>2. CASE l.st = "open" /\ k = n
    BY <2>1, <2>2 DEF Covered
  <2>3. CASE l.st = "invoiced" /\ k = n + IF l.rec THEN 1 ELSE 0
    BY <1>1, <2>1, <2>3 DEF Covered
  <2> QED
    BY <2>2, <2>3
<1>9. NoneLeft(l, P)
  BY DEF NoneLeft
<1>10. Discounted(l, P)
  <2> SUFFICES ASSUME DiscountKept PROVE Discounted(l, P)
    BY DEF Discounted
  <2>1. m.disc <= MostOff /\ (\A p \in Parts : P[p].disc <= MostOff) /\ Shared(m, P)
    BY DEF Rightful, Discounted
  <2>2. SumOver(Discs(P), PaidOf(P)) \in Nat
    <3>1. Discs(P) \in [Parts -> Nat] /\ IsFiniteSet(Parts) /\ PaidOf(P) \in SUBSET Parts
      BY <1>1, SplitAssumption DEF Discs, PartRow, PaidOf
    <3> QED
      BY <3>1, SumNatural
  <2>3. l.disc \in Nat /\ m.disc \in Nat /\ MostOff \in Nat /\ l.disc <= m.disc
    BY <1>1, SplitAssumption DEF MainRow
  <2>4. Shared(l, P)
    BY <2>1, <2>2, <2>3 DEF Shared
  <2> QED
    BY <2>1, <2>3, <2>4 DEF Discounted
<1> QED
  BY <1>4, <1>6, <1>7, <1>8, <1>9, <1>10 DEF Rightful

LEMMA Writes ==
  ASSUME NEW h, NEW m, WriteMain(h, m)
  PROVE  main' = m /\ req' = Written(req, h)
  BY DEF WriteMain, Written, Stale

LEMMA EditCommits ==
  ASSUME SplitInv, NEW h \in Handlers, CommitEdit(h)
  PROVE  /\ SplitInv'
         /\ Whole(main, parts, ordered) => Whole(main, parts, ordered)'
<1> DEFINE l == req[h].left
<1>1. /\ Rightful(main, parts, uses, req) /\ req[h] \in Requests /\ uses \in Nat
      /\ parts \in [Parts -> PartRow] /\ main \in MainRow
  BY DEF SplitInv, Rightful, Typed
<1>2. /\ req[h].op = "edit" /\ main.st = "open" /\ req[h].fresh /\ parts' = parts /\ uses' = uses
      /\ WriteMain(h, l) /\ ordered' = (ordered \ req[h].main.units) \cup req[h].list
  BY DEF CommitEdit, Unchanged
<1>3. main' = l /\ req' = Written(req, h)
  BY <1>2, Writes
<1>4. req[h] \in EditRequest /\ l \in MainRow /\ req[h].main = main /\ EditSound(req[h], parts)
  <2>1. req[h] \in EditRequest /\ req[h] # Idle
    BY <1>1, <1>2, KindsOfRequests
  <2>2. Sound(req[h], main, parts)
    BY <1>1 DEF Rightful
  <2> QED
    BY <1>2, <2>1, <2>2 DEF Sound, EditRequest
<1>5. /\ l = [main EXCEPT !.units = l.units, !.disc = l.disc] /\ req[h].list = l.units
      /\ \A p \in PaidOf(parts) : \A u \in parts[p].units : u \notin l.units
      /\ DiscountKept => l.disc <= main.disc
  BY <1>2, <1>4 DEF EditSound
<1>6. l.st = "open" /\ l.rec = main.rec /\ l.credits = main.credits
  BY <1>1, <1>2, <1>5 DEF MainRow
<1> HIDE DEF l
<1>7. UnitsApart(main, parts) /\ UnitsApart(l, parts) /\ IsLive(main)
  BY <1>1, <1>2, <1>5 DEF Rightful, IsLive, UnitsApart
<1> DEFINE k == uses
<1>8. k = uses /\ k \in Nat /\ (DiscountKept => l.disc <= main.disc)
  BY <1>1, <1>5
<1> HIDE DEF k
<1>9. Rightful(l, parts, k, Written(req, h))
  BY <1>1, <1>2, <1>4, <1>6, <1>7, <1>8, MainWritten
<1>10. ASSUME Whole(main, parts, ordered)
       PROVE  Whole(l, parts, ordered')
  <2>1. l.units \in SUBSET Units /\ ordered' = (ordered \ main.units) \cup l.units
    BY <1>2, <1>4, <1>5 DEF MainRow
  <2> QED
    BY <1>5, <1>7, <1>10, <2>1 DEF Whole, UnitsApart
<1> QED
  BY <1>2, <1>3, <1>8, <1>9, <1>10 DEF SplitInv

LEMMA FinalizeCommits ==
  ASSUME SplitInv, NEW h \in Handlers, CommitFinalize(h)
  PROVE  SplitInv'
<1> DEFINE l == req[h].left
<1>1. /\ Rightful(main, parts, uses, req) /\ req[h] \in Requests /\ uses \in Nat
      /\ parts \in [Parts -> PartRow] /\ main \in MainRow
  BY DEF SplitInv, Rightful, Typed
<1>2. /\ req[h].op = "finalize" /\ main.st = "open" /\ req[h].fresh /\ parts' = parts
      /\ uses' = IF l.coupon THEN uses + 1 ELSE uses
      /\ WriteMain(h, l)
  BY DEF CommitFinalize, Unchanged
<1>3. main' = l /\ req' = Written(req, h)
  BY <1>2, Writes
<1>4. l \in MainRow /\ req[h].main = main /\ FinalizeSound(req[h])
  <2>1. req[h] \in FinalRequest /\ req[h] # Idle
    BY <1>1, <1>2, KindsOfRequests
  <2>2. Sound(req[h], main, parts)
    BY <1>1 DEF Rightful
  <2> QED
    BY <1>2, <2>1, <2>2 DEF Sound, FinalRequest
<1>5. /\ l = [main EXCEPT !.st = "invoiced", !.coupon = l.coupon, !.rec = l.coupon, !.disc = l.disc]
      /\ l.disc <= main.disc
  BY <1>2, <1>4 DEF FinalizeSound
<1>6. /\ l.st = "invoiced" /\ l.rec = l.coupon /\ l.credits = main.credits
      /\ l.units = main.units
  BY <1>1, <1>2, <1>5 DEF MainRow
<1> HIDE DEF l
<1>7. UnitsApart(l, parts)
  <2>1. UnitsApart(main, parts)
    BY <1>1 DEF Rightful
  <2> QED
    BY <1>6, <2>1 DEF UnitsApart, IsLive
<1>8. uses' = (uses + IF l.rec THEN 1 ELSE 0) /\ uses' \in Nat
  BY <1>1, <1>2, <1>6
<1>9. Rightful(l, parts, uses', Written(req, h))
  BY <1>1, <1>2, <1>4, <1>5, <1>6, <1>7, <1>8, MainWritten
<1> QED
  BY <1>2, <1>3, <1>9 DEF SplitInv

LEMMA CancelCommits ==
  ASSUME SplitInv, NEW h \in Handlers, CommitCancel(h)
  PROVE  SplitInv'
<1> DEFINE l == [main EXCEPT !.st = "cancelled"]
           paid == PaidOf(parts)
<1>1. /\ Rightful(main, parts, uses, req) /\ req[h] \in Requests /\ uses \in Nat
      /\ parts \in [Parts -> PartRow] /\ main \in MainRow
      /\ \A g \in Handlers : Sound(req[g], main, parts)
  BY DEF SplitInv, Rightful, Typed
<1>2. /\ req[h].op = "cancel" /\ parts' = parts /\ WriteMain(h, l)
      /\ uses' = IF req[h].main.st # "open" /\ req[h].main.rec THEN NotNegative(uses - 1) ELSE uses
  BY DEF CommitCancel
<1>3. main' = l /\ req' = Written(req, h)
  BY <1>2, Writes
<1>4. /\ l \in MainRow /\ l.st = "cancelled" /\ l.rec = main.rec /\ l.credits = main.credits
      /\ l.disc = main.disc
  BY <1>1 DEF MainRow
<1> HIDE DEF l
<1>5. (req[h].main.st # "open" => paid = {}) /\ (Isolated => paid = {})
  <2>1. req[h] # Idle
    BY <1>1, <1>2, KindsOfRequests
  <2>2. CancelSound(req[h], main, parts)
    BY <1>1, <2>1 DEF Sound
  <2> QED
    BY <1>2, <2>2 DEF CancelSound
<1>6. uses' \in Nat /\ uses' <= uses /\ (paid # {} => uses' = uses)
  BY <1>1, <1>2, <1>5 DEF NotNegative
<1>7. /\ Written(req, h) \in [Handlers -> Requests] /\ Alone(Written(req, h))
      /\ \A g \in Handlers : Sound(Written(req, h)[g], l, parts)
  <2>1. ASSUME NEW g \in Handlers, req[g] # Idle
        PROVE  CancelSound(req[g], l, parts)
    <3>1. CancelSound(req[g], main, parts)
      BY <1>1, <2>1 DEF Sound
    <3> QED
      BY <1>4, <3>1 DEF CancelSound
  <2>2. ~IsLive(l)
    BY <1>4 DEF IsLive
  <2> QED
    BY <1>1, <2>1, <2>2, PartsKept, WritePasses
<1>8. Typed(l, parts, uses', Written(req, h))
  <2>1. /\ Len(main.credits) <= Cardinality(UsedOf(parts))
        /\ uses <= Cardinality(UsedOf(parts)) + IF main.rec THEN 1 ELSE 0
    BY <1>1 DEF Rightful, Typed
  <2>2. Cardinality(UsedOf(parts)) \in Nat
    BY SplitAssumption, FS_Subset, FS_CardinalityType DEF UsedOf
  <2> QED
    BY <1>1, <1>4, <1>6, <1>7, <2>1, <2>2 DEF Typed
<1>9. Rows(l, parts)
  BY <1>1, <1>4 DEF Rightful, Rows
<1>10. UnitsApart(l, parts)
  BY <1>1, <1>4 DEF Rightful, UnitsApart, IsLive
<1>11. Covered(l, parts, uses')
  <2>1. Covered(main, parts, uses)
    BY <1>1 DEF Rightful
  <2>2. \A p \in paid : parts[p].coupon => uses' >= 1
    BY <1>1, <1>6, <2>1 DEF Covered
  <2> QED
    BY <1>4, <1>6, <2>2 DEF Covered
<1>12. NoneLeft(l, parts)
  BY <1>5 DEF NoneLeft
<1>13. Discounted(l, parts)
  <2> SUFFICES ASSUME DiscountKept PROVE Discounted(l, parts)
    BY DEF Discounted
  <2>1. main.disc <= MostOff /\ (\A p \in Parts : parts[p].disc <= MostOff) /\ Shared(main, parts)
    BY <1>1 DEF Rightful, Discounted
  <2>2. SumOver(Discs(parts), paid) \in Nat
    <3>1. Discs(parts) \in [Parts -> Nat] /\ IsFiniteSet(Parts) /\ paid \in SUBSET Parts
      BY <1>1, SplitAssumption DEF Discs, PartRow, PaidOf
    <3> QED
      BY <3>1, SumNatural
  <2>3. main.disc \in Nat /\ MostOff \in Nat
    BY <1>1, SplitAssumption DEF MainRow
  <2>4. Shared(l, parts)
    BY <1>4, <2>1, <2>2, <2>3 DEF Shared
  <2> QED
    BY <1>4, <2>1, <2>4 DEF Discounted
<1>14. Rightful(l, parts, uses', Written(req, h))
  BY <1>7, <1>8, <1>9, <1>10, <1>11, <1>12, <1>13 DEF Rightful
<1> QED
  BY <1>2, <1>3, <1>14 DEF SplitInv

\* The parts after p was cancelled, and the use of the coupon passed to another part or not.
GivenBack(P, p, Q) ==
  /\ Q \in [Parts -> PartRow]
  /\ Q[p].st = "cancelled" /\ Q[p].mode = "none" /\ Q[p].units = {} /\ Q[p].disc = 0
  /\ \A x \in Parts \ {p} : Q[x].st = P[x].st /\ SamePart(P[x], Q[x])
                            /\ (P[x].st = "absent" => Q[x] = P[x])

LEMMA PartGivenBack ==
  ASSUME NEW P \in [Parts -> PartRow], NEW p \in Parts
  PROVE  LET cancelled == [P EXCEPT ![p] = CancelledPart] IN
         /\ GivenBack(P, p, cancelled)
         /\ \A q \in PaidOf(P) \ {p} : GivenBack(P, p, [cancelled EXCEPT ![q].rec = TRUE])
<1> DEFINE cancelled == [P EXCEPT ![p] = CancelledPart]
<1>1. /\ CancelledPart \in PartRow /\ CancelledPart.st = "cancelled"
      /\ CancelledPart.mode = "none" /\ CancelledPart.units = {} /\ CancelledPart.disc = 0
  BY NoPartIs DEF CancelledPart, NoPart, PartRow
<1>2. /\ cancelled \in [Parts -> PartRow] /\ cancelled[p] = CancelledPart
      /\ \A x \in Parts \ {p} : cancelled[x] = P[x]
  BY <1>1
<1> HIDE DEF cancelled
<1>3. GivenBack(P, p, cancelled)
  BY <1>1, <1>2 DEF GivenBack, SamePart
<1>4. ASSUME NEW q \in PaidOf(P) \ {p}
      PROVE  GivenBack(P, p, [cancelled EXCEPT ![q].rec = TRUE])
  <2> DEFINE row == [cancelled[q] EXCEPT !.rec = TRUE]
             Q == [cancelled EXCEPT ![q] = row]
  <2>1. q \in Parts /\ q # p /\ P[q].st = "paid" /\ cancelled[q] = P[q] /\ cancelled[q] \in PartRow
    BY <1>2 DEF PaidOf
  <2>2. row \in PartRow /\ row.st = P[q].st /\ SamePart(P[q], row)
    BY <2>1 DEF PartRow, SamePart
  <2> HIDE DEF row
  <2>3. /\ Q \in [Parts -> PartRow] /\ Q[q] = row /\ Q[p] = cancelled[p]
        /\ \A x \in Parts \ {p, q} : Q[x] = P[x]
    BY <1>2, <2>1, <2>2
  <2> HIDE DEF Q
  <2>4. GivenBack(P, p, Q)
    BY <1>1, <1>2, <2>1, <2>2, <2>3 DEF GivenBack, SamePart
  <2>5. Q = [cancelled EXCEPT ![q].rec = TRUE]
    BY DEF Q, row
  <2> QED
    BY <2>4, <2>5
<1> QED
  BY <1>3, <1>4 DEF cancelled

LEMMA GivenBackIs ==
  ASSUME NEW P \in [Parts -> PartRow], NEW p \in Parts, P[p].st = "paid", NEW Q, GivenBack(P, p, Q)
  PROVE  /\ KeepsParts(P, Q) /\ PaidOf(Q) = PaidOf(P) \ {p} /\ UsedOf(Q) = UsedOf(P)
         /\ \A x \in PaidOf(Q) : x \in PaidOf(P) /\ x # p /\ Q[x].units = P[x].units
         /\ SumOver(Discs(Q), PaidOf(Q)) + P[p].disc = SumOver(Discs(P), PaidOf(P))
         /\ SumOver(Discs(Q), PaidOf(Q)) \in Nat
<1>1. KeepsParts(P, Q)
  BY DEF GivenBack, KeepsParts
<1>2. PaidOf(Q) = PaidOf(P) \ {p} /\ UsedOf(Q) = UsedOf(P)
  BY DEF GivenBack, PaidOf, UsedOf
<1>3. \A x \in PaidOf(Q) : x \in PaidOf(P) /\ x # p /\ Q[x].units = P[x].units
  BY DEF GivenBack, SamePart, PaidOf
<1> DEFINE v == Discs(P)
           w == Discs(Q)
           S == PaidOf(P)
<1>4. /\ IsFiniteSet(Parts) /\ v \in [Parts -> Nat] /\ w \in [Parts -> Nat] /\ S \in SUBSET Parts
      /\ p \in S /\ \A x \in S \ {p} : v[x] = w[x]
  BY SplitAssumption DEF Discs, PartRow, PaidOf, GivenBack, SamePart
<1>5. v[p] = P[p].disc /\ S \ {p} \in SUBSET Parts /\ v \in [Parts -> Int] /\ w \in [Parts -> Int]
  BY <1>4 DEF Discs
<1> HIDE DEF v, w, S
<1>6. SumOver(v, S) = v[p] + SumOver(v, S \ {p})
  BY <1>4, <1>5, SumFacts
<1>7. SumOver(v, S \ {p}) = SumOver(w, S \ {p})
  BY <1>4, <1>5, SumSame
<1>8. SumOver(w, S \ {p}) \in Nat
  BY <1>4, <1>5, SumNatural
<1>9. v[p] \in Nat
  BY <1>4
<1>10. SumOver(w, S \ {p}) + v[p] = SumOver(v, S)
  BY <1>6, <1>7, <1>8, <1>9
<1> QED
  BY <1>1, <1>2, <1>3, <1>5, <1>8, <1>10 DEF v, w, S

\* The main account l after part p was given back.
TakesBack(m, P, p, l) ==
  \/ l = m /\ ~IsLive(m)
  \/ /\ IsLive(m) /\ l.st = "open" /\ l.rec = m.rec /\ l.units = m.units \cup P[p].units
     /\ Len(l.credits) <= Len(m.credits) /\ l.disc <= m.disc + P[p].disc

\* What then becomes of the n uses of the coupon.
UseGivenBack(P, p, n, k) ==
  \/ k = n
  \/ k = n - 1 /\ P[p].coupon /\ \A x \in PaidOf(P) \ {p} : ~P[x].coupon

LEMMA VoidLeaves ==
  ASSUME NEW m, NEW P, NEW n, NEW R, Rightful(m, P, n, R), NEW p \in Parts, P[p].st = "paid",
         NEW Q, GivenBack(P, p, Q), NEW l \in MainRow, TakesBack(m, P, p, l),
         NEW k \in Nat, UseGivenBack(P, p, n, k),
         NEW S \in [Handlers -> Requests], Alone(S), \A g \in Handlers : Sound(S[g], l, Q)
  PROVE  Rightful(l, Q, k, S)
<1>1. /\ m \in MainRow /\ Len(m.credits) <= Cardinality(UsedOf(P)) /\ P \in [Parts -> PartRow]
      /\ n \in Nat /\ n <= Cardinality(UsedOf(P)) + IF m.rec THEN 1 ELSE 0
      /\ Len(m.credits) \in Nat /\ Len(l.credits) \in Nat
  BY WorthsTyped DEF Rightful, Typed, MainRow
<1>2. Rows(m, P) /\ UnitsApart(m, P) /\ Covered(m, P, n) /\ NoneLeft(m, P) /\ Discounted(m, P)
  BY DEF Rightful
<1>3. /\ PaidOf(Q) = PaidOf(P) \ {p} /\ UsedOf(Q) = UsedOf(P)
      /\ \A x \in PaidOf(Q) : x \in PaidOf(P) /\ x # p /\ Q[x].units = P[x].units
      /\ SumOver(Discs(Q), PaidOf(Q)) + P[p].disc = SumOver(Discs(P), PaidOf(P))
      /\ SumOver(Discs(Q), PaidOf(Q)) \in Nat
  BY <1>1, GivenBackIs
<1>4. Q \in [Parts -> PartRow]
  BY DEF GivenBack
<1>5. l.rec = m.rec /\ Len(l.credits) <= Len(m.credits)
  BY <1>1 DEF TakesBack
<1>6. Cardinality(UsedOf(P)) \in Nat
  BY SplitAssumption, FS_Subset, FS_CardinalityType DEF UsedOf
<1>7. Typed(l, Q, k, S)
  BY <1>1, <1>3, <1>4, <1>5, <1>6 DEF Typed, UseGivenBack
<1>8. Rows(l, Q)
  <2>1. l.rec => l.st \in {"invoiced", "cancelled"}
    BY <1>2 DEF Rows, TakesBack, IsLive
  <2>2. ASSUME NEW x \in Parts
        PROVE  /\ Q[x].st = "paid" => Q[x].mode # "none"
               /\ Q[x].mode = "amount" => Q[x].units = {}
               /\ Q[x].st = "absent" => Q[x] = NoPart
    BY <1>2 DEF Rows, GivenBack, SamePart
  <2> QED
    BY <2>1, <2>2 DEF Rows
<1>9. UnitsApart(l, Q)
  <2>1. \A x, y \in PaidOf(Q) : x # y => \A u \in Q[x].units : u \notin Q[y].units
    BY <1>2, <1>3 DEF UnitsApart
  <2>2. ASSUME IsLive(l), NEW x \in PaidOf(Q)
        PROVE  \A u \in Q[x].units : u \notin l.units
    <3>1. IsLive(m) /\ l.units = m.units \cup P[p].units
      BY <2>2 DEF TakesBack
    <3>2. p \in PaidOf(P) /\ x \in PaidOf(P) /\ x # p /\ Q[x].units = P[x].units
      BY <1>3, <2>2 DEF PaidOf
    <3> QED
      BY <1>2, <3>1, <3>2 DEF UnitsApart
  <2> QED
    BY <2>1, <2>2 DEF UnitsApart
<1>10. Covered(l, Q, k)
  <2> DEFINE own == IF l.st = "invoiced" /\ l.rec THEN 1 ELSE 0
  <2>1. own = IF m.st = "invoiced" /\ m.rec THEN 1 ELSE 0
    BY DEF TakesBack, IsLive
  <2>2. own \in {0, 1}
    OBVIOUS
  <2> HIDE DEF own
  <2>3. n >= own /\ \A x \in PaidOf(P) : P[x].coupon => n >= 1 + own
    BY <1>2, <2>1 DEF Covered
  <2>4. p \in PaidOf(P)
    BY DEF PaidOf
  <2>5. k >= own
    BY <1>1, <2>2, <2>3, <2>4 DEF UseGivenBack
  <2>6. ASSUME NEW x \in PaidOf(Q), Q[x].coupon
        PROVE  k >= 1 + own
    <3>1. x \in PaidOf(P) \ {p} /\ P[x].coupon
      BY <1>3, <2>6 DEF GivenBack, SamePart, PaidOf
    <3> QED
      BY <2>3, <3>1 DEF UseGivenBack
  <2> QED
    BY <2>5, <2>6 DEF Covered, own
<1>11. NoneLeft(l, Q)
  BY <1>2, <1>3 DEF NoneLeft, TakesBack
<1>12. Discounted(l, Q)
  <2> SUFFICES ASSUME DiscountKept PROVE Discounted(l, Q)
    BY DEF Discounted
  <2>1. m.disc <= MostOff /\ (\A x \in Parts : P[x].disc <= MostOff) /\ Shared(m, P)
    BY <1>2 DEF Discounted
  <2>2. /\ m.disc \in Nat /\ l.disc \in Nat /\ P[p].disc \in Nat /\ MostOff \in Nat
        /\ \A x \in Parts : Q[x].disc <= MostOff
    <3>1. m.disc \in Nat /\ l.disc \in Nat /\ P[p].disc \in Nat /\ MostOff \in Nat
      BY <1>1, SplitAssumption DEF MainRow, PartRow
    <3>2. \A x \in Parts : Q[x].disc = IF x = p THEN 0 ELSE P[x].disc
      BY DEF GivenBack, SamePart
    <3> QED
      BY <2>1, <3>1, <3>2
  <2> DEFINE s == SumOver(Discs(Q), PaidOf(Q))
             t == SumOver(Discs(P), PaidOf(P))
  <2>3. s \in Nat /\ s + P[p].disc = t
    BY <1>3
  <2>4. (IF m.st # "cancelled" THEN m.disc ELSE 0) + t <= MostOff
    BY <2>1 DEF Shared
  <2> HIDE DEF s, t
  <2>5. (IF l.st # "cancelled" THEN l.disc ELSE 0) + s <= MostOff /\ l.disc <= MostOff
    <3>1. CASE l = m
      BY <2>1, <2>2, <2>3, <2>4, <3>1
    <3>2. CASE IsLive(m) /\ l.st = "open" /\ l.disc <= m.disc + P[p].disc
      BY <2>2, <2>3, <2>4, <3>2 DEF IsLive
    <3> QED
      BY <3>1, <3>2 DEF TakesBack
  <2> QED
    BY <2>2, <2>5 DEF Discounted, Shared, s
<1> QED
  BY <1>7, <1>8, <1>9, <1>10, <1>11, <1>12 DEF Rightful

LEMMA VoidLeavesWhole ==
  ASSUME NEW m, NEW P \in [Parts -> PartRow], NEW p \in Parts, P[p].st = "paid", NEW Q,
         GivenBack(P, p, Q), NEW l, TakesBack(m, P, p, l), NEW o, Whole(m, P, o)
  PROVE  Whole(l, Q, o)
<1>1. PaidOf(Q) = PaidOf(P) \ {p} /\ \A x \in PaidOf(Q) : Q[x].units = P[x].units
  BY GivenBackIs
<1>2. p \in PaidOf(P)
  BY DEF PaidOf
<1>3. IsLive(l) => IsLive(m) /\ l.units = m.units \cup P[p].units
  BY DEF TakesBack
<1> QED
  BY <1>1, <1>2, <1>3 DEF Whole

\* A request that is not about the part p, or that knows its units and its state.
LEMMA SoundAfterVoid ==
  ASSUME NEW r \in Requests, NEW m, NEW P, Sound(r, m, P), NEW Q, KeepsParts(P, Q),
         \A x \in PaidOf(Q) : x \in PaidOf(P) /\ Q[x].units = P[x].units,
         CancelSound(r, m, Q)
  PROVE  Sound(r, m, Q)
<1> SUFFICES ASSUME r # Idle PROVE Sound(r, m, Q)
  BY DEF Sound
<1>1. (r.fresh => r.main = m) /\ SplitSound(r) /\ FinalizeSound(r)
  BY DEF Sound
<1>2. VoidSound(r, m, Q)
  <2> SUFFICES ASSUME r.op \in {"void", "restore"} PROVE VoidSound(r, m, Q)
    BY DEF VoidSound
  <2>1. VoidSound(r, m, P)
    BY DEF Sound
  <2>2. r.id \in Parts
    BY KindsOfRequests DEF VoidRequest
  <2>3. Q[r.id].st \in {"paid", "cancelled"} /\ (Q[r.id].st = "paid" => SamePart(r.part, Q[r.id]))
    BY <2>1, <2>2 DEF VoidSound, KeepsParts, SamePart
  <2> QED
    BY <2>1, <2>3 DEF VoidSound
<1>3. EditSound(r, Q)
  <2>1. EditSound(r, P)
    BY DEF Sound
  <2> QED
    BY <2>1 DEF EditSound
<1> QED
  BY <1>1, <1>2, <1>3 DEF Sound

LEMMA VoidCommits ==
  ASSUME SplitInv, NEW h \in Handlers, CommitVoid(h)
  PROVE  /\ SplitInv'
         /\ Whole(main, parts, ordered) => Whole(main, parts, ordered)'
<1> DEFINE r == req[h]
           p == r.id
           cancelled == [parts EXCEPT ![p] = CancelledPart]
<1>1. /\ Rightful(main, parts, uses, req) /\ r \in Requests /\ uses \in Nat
      /\ parts \in [Parts -> PartRow] /\ main \in MainRow /\ req \in [Handlers -> Requests]
      /\ \A g \in Handlers : Sound(req[g], main, parts)
  BY DEF SplitInv, Rightful, Typed
<1>2. r.op = "restore" /\ parts[p].st = "paid"
  BY DEF CommitVoid
<1>3. r # Idle /\ r \in VoidRequest /\ p \in Parts /\ r.part \in PartRow
  BY <1>1, <1>2, KindsOfRequests DEF VoidRequest
<1>4. /\ r.part.mode # "none" /\ SamePart(r.part, parts[p])
      /\ IF r.restores THEN IsLive(r.main) ELSE ~IsLive(main)
      /\ r.fresh => r.main = main
  BY <1>1, <1>2, <1>3 DEF Sound, VoidSound
<1>5. p \in PaidOf(parts) /\ Covered(main, parts, uses) /\ Alone(req)
  BY <1>1, <1>2, <1>3 DEF PaidOf, Rightful
<1>6. /\ GivenBack(parts, p, parts') /\ uses' \in Nat
      /\ UseGivenBack(parts, p, uses, uses')
  <2>1. /\ GivenBack(parts, p, cancelled)
        /\ \A q \in PaidOf(parts) \ {p} : GivenBack(parts, p, [cancelled EXCEPT ![q].rec = TRUE])
    BY <1>1, <1>3, PartGivenBack
  <2>2. IF r.part.coupon /\ r.part.rec
          THEN \/ Sibling(p) = {} /\ uses' = NotNegative(uses - 1) /\ parts' = cancelled
               \/ \E q \in Sibling(p) : parts' = [cancelled EXCEPT ![q].rec = TRUE] /\ uses' = uses
          ELSE parts' = cancelled /\ uses' = uses
    BY DEF CommitVoid
  <2> HIDE DEF cancelled
  <2>3. \A q : q \in Sibling(p) <=> q \in PaidOf(parts) \ {p} /\ parts[q].coupon
    BY DEF Sibling, Paid, PaidOf
  <2>4. CASE parts' = cancelled /\ uses' = uses
    BY <1>1, <2>1, <2>4 DEF UseGivenBack
  <2>5. CASE \E q \in Sibling(p) : parts' = [cancelled EXCEPT ![q].rec = TRUE] /\ uses' = uses
    <3>1. PICK q \in PaidOf(parts) \ {p} : parts' = [cancelled EXCEPT ![q].rec = TRUE]
      BY <2>3, <2>5
    <3>2. GivenBack(parts, p, parts')
      BY <2>1, <3>1
    <3> QED
      BY <1>1, <2>5, <3>2 DEF UseGivenBack
  <2>6. CASE /\ r.part.coupon /\ r.part.rec
             /\ Sibling(p) = {} /\ uses' = NotNegative(uses - 1) /\ parts' = cancelled
    <3>1. parts[p].coupon /\ \A x \in PaidOf(parts) \ {p} : ~parts[x].coupon
      BY <1>4, <2>3, <2>6 DEF SamePart
    <3>2. uses >= 1
      BY <1>1, <1>5, <3>1 DEF Covered
    <3>3. uses' = uses - 1 /\ uses' \in Nat
      BY <1>1, <2>6, <3>2 DEF NotNegative
    <3> QED
      BY <2>1, <2>6, <3>1, <3>3 DEF UseGivenBack
  <2> QED
    BY <2>2, <2>4, <2>5, <2>6
<1>7. /\ KeepsParts(parts, parts')
      /\ \A x \in PaidOf(parts') : x \in PaidOf(parts) /\ parts'[x].units = parts[x].units
  BY <1>1, <1>2, <1>3, <1>6, GivenBackIs
<1>8. ASSUME NEW l, NEW Q, NEW g \in Handlers, req[g] # Idle
      PROVE  CancelSound(req[g], l, Q)
  <2>1. CancelSound(req[g], main, parts)
    BY <1>1, <1>8 DEF Sound
  <2> QED
    BY <1>5, <2>1 DEF CancelSound
<1>9. CASE r.restores
  <2> DEFINE l == Restored(main, r.part)
  <2>1. /\ WriteMain(h, Restored(r.main, r.part)) /\ r.fresh
        /\ r.part.mode = "amount" => CreditOf(r.main, r.part) > 0
    BY <1>9 DEF CommitVoid, Unchanged
  <2>2. r.main = main /\ IsLive(main) /\ main' = l /\ req' = Written(req, h)
    BY <1>4, <1>9, <2>1, Writes
  <2>3. /\ l \in MainRow /\ l.st = "open" /\ l.rec = main.rec
        /\ r.part.mode = "items" => /\ l.units = main.units \cup r.part.units
                                    /\ l.credits = main.credits
                                    /\ l.disc <= main.disc + r.part.disc
        /\ r.part.mode = "amount" => /\ l.units = main.units
                                     /\ l.credits = RemoveAt(main.credits, CreditOf(main, r.part))
                                     /\ l.disc <= main.disc
    BY <1>1, <1>3, <1>4, <2>1, <2>2, RestoredIs
  <2> HIDE DEF l
  <2>4. TakesBack(main, parts, p, l)
    <3>1. /\ r.part.units = parts[p].units /\ r.part.disc = parts[p].disc /\ r.part.mode = parts[p].mode
          /\ parts[p].disc \in Nat /\ main.disc \in Nat /\ l.disc \in Nat
          /\ main.credits \in Seq(Credit)
      BY <1>1, <1>3, <1>4, <2>3 DEF SamePart, MainRow, PartRow
    <3>2. Len(main.credits) \in Nat
      BY <3>1, WorthsTyped
    <3>3. CASE r.part.mode = "items"
      BY <2>2, <2>3, <3>1, <3>2, <3>3 DEF TakesBack
    <3>4. CASE r.part.mode = "amount"
      <4>1. parts[p].units = {}
        BY <1>1, <1>3, <3>1, <3>4 DEF Rightful, Rows
      <4>2. CreditOf(main, r.part) \in 1..Len(main.credits)
        BY <1>1, <2>1, <2>2, <3>4, CreditOfIs
      <4>3. Len(l.credits) = Len(main.credits) - 1
        BY <2>3, <3>1, <3>4, <4>2, CreditRemoved
      <4>4. l.disc <= main.disc + parts[p].disc /\ Len(l.credits) <= Len(main.credits)
        BY <2>3, <3>1, <3>2, <3>4, <4>3
      <4> QED
        BY <2>2, <2>3, <3>4, <4>1, <4>4 DEF TakesBack
    <3>5. r.part.mode \in {"items", "amount"}
      BY <1>3, <1>4 DEF PartRow
    <3> QED
      BY <3>3, <3>4, <3>5
  <2>5. /\ Written(req, h) \in [Handlers -> Requests] /\ Alone(Written(req, h))
        /\ \A g \in Handlers : Sound(Written(req, h)[g], l, parts')
    BY <1>1, <1>7, <1>8, <2>2, WritePasses
  <2>6. Rightful(l, parts', uses', Written(req, h))
    BY <1>1, <1>2, <1>3, <1>6, <2>3, <2>4, <2>5, VoidLeaves
  <2>7. ASSUME Whole(main, parts, ordered) PROVE Whole(l, parts', ordered)
    BY <1>1, <1>2, <1>3, <1>6, <2>4, <2>7, VoidLeavesWhole
  <2>8. ordered' = ordered
    BY DEF CommitVoid
  <2> QED
    BY <2>2, <2>6, <2>7, <2>8 DEF SplitInv
<1>10. CASE ~r.restores
  <2>1. main' = main /\ req' = [req EXCEPT ![h] = Idle] /\ ~IsLive(main)
    BY <1>4, <1>10 DEF CommitVoid
  <2>2. ASSUME NEW g \in Handlers
        PROVE  Passes(req[g], req'[g], main, parts')
    <3>1. CASE g = h
      BY <1>1, <2>1, <3>1 DEF Passes
    <3>2. CASE g # h
      <4>1. req'[g] = req[g] /\ req[g] \in Requests /\ Sound(req[g], main, parts)
        BY <1>1, <2>1, <3>2
      <4>2. Sound(req[g], main, parts')
        <5>1. CASE req[g] = Idle
          BY <5>1 DEF Sound
        <5>2. CASE req[g] # Idle
          <6>1. CancelSound(req[g], main, parts')
            BY <1>8, <5>2
          <6> QED
            BY <1>7, <4>1, <6>1, SoundAfterVoid
        <5> QED
          BY <5>1, <5>2
      <4> QED
        BY <4>1, <4>2 DEF Passes
    <3> QED
      BY <3>1, <3>2
  <2>3. req' = [g \in Handlers |-> req'[g]]
    BY <1>1, <2>1
  <2>4. /\ req' \in [Handlers -> Requests] /\ Alone(req')
        /\ \A g \in Handlers : Sound(req'[g], main, parts')
    <3>1. req \in [Handlers -> Requests] /\ \A g \in Handlers : Sound(req[g], main, parts)
      BY <1>1
    <3>2. Alone(req) /\ KeepsParts(parts, parts')
      BY <1>5, <1>7
    <3> DEFINE S == req'
               Q == parts'
    <3>3. /\ S = [g \in Handlers |-> S[g]] /\ KeepsParts(parts, Q)
          /\ \A g \in Handlers : Passes(req[g], S[g], main, Q)
      BY <2>2, <2>3, <3>2
    <3> HIDE DEF S, Q
    <3>4. S \in [Handlers -> Requests] /\ Alone(S) /\ \A g \in Handlers : Sound(S[g], main, Q)
      BY <2>1, <3>1, <3>2, <3>3, HandlersPass
    <3> QED
      BY <3>4 DEF S, Q
  <2>5. TakesBack(main, parts, p, main)
    BY <2>1 DEF TakesBack
  <2>6. Rightful(main, parts', uses', req')
    BY <1>1, <1>2, <1>3, <1>6, <2>4, <2>5, VoidLeaves
  <2>7. ASSUME Whole(main, parts, ordered) PROVE Whole(main, parts', ordered)
    BY <1>1, <1>2, <1>3, <1>6, <2>5, <2>7, VoidLeavesWhole
  <2>8. ordered' = ordered
    BY DEF CommitVoid
  <2> QED
    BY <2>1, <2>6, <2>7, <2>8 DEF SplitInv
<1> QED
  BY <1>9, <1>10

\* The main account l after a split took the part q of it.
Leaves(m, q, l) ==
  /\ l \in MainRow /\ IsLive(l) /\ l.rec = m.rec /\ Len(l.credits) <= Len(m.credits) + 1
  /\ q.units \subseteq m.units /\ l.units = m.units \ q.units
  /\ q.mode # "none" /\ (q.mode = "amount" => q.units = {})
  /\ DiscountKept => l.disc + q.disc <= m.disc

LEMMA SplitLeaves ==
  ASSUME NEW r \in SplitRequest, SplitSound(r)
  PROVE  Leaves(r.main, r.part, r.left)
<1> DEFINE m == r.main
           q == r.part
           l == r.left
<1>1. r.op = "split" /\ m \in MainRow /\ q \in PartRow /\ l \in MainRow
  BY DEF SplitRequest
<1>2. (DiscountKept => MostOff = 0 \/ m.disc > 0) /\ (TakesItems(r) \/ TakesAmount(r))
  BY <1>1 DEF SplitSound
<1>3. /\ Len(m.credits) \in Nat /\ m.credits \in Seq(Credit) /\ m.disc \in Nat /\ l.disc \in Nat
      /\ q.disc \in Nat
  BY <1>1, WorthsTyped DEF MainRow, PartRow
<1>4. CASE TakesItems(r)
  <2>1. /\ q.mode = "items" /\ q.units \subseteq m.units /\ l = ItemsLeft(m, q)
        /\ DiscountKept => q.disc <= m.disc
    BY <1>4 DEF TakesItems
  <2> HIDE DEF m, q, l
  <2>2. /\ l.units = m.units \ q.units /\ l.credits = m.credits /\ l.rec = m.rec
        /\ l.st = (IF m.units \ q.units = {} THEN "settled" ELSE "open")
        /\ q.disc <= m.disc /\ (MostOff = 0 \/ m.disc > 0) => l.disc + q.disc <= m.disc
    BY <1>1, <2>1, ItemsLeftIs
  <2>3. IsLive(l) /\ Len(l.credits) <= Len(m.credits) + 1
    BY <1>3, <2>2 DEF IsLive
  <2>4. Leaves(m, q, l)
    BY <1>1, <1>2, <2>1, <2>2, <2>3 DEF Leaves
  <2> QED
    BY <2>4 DEF m, q, l
<1>5. CASE TakesAmount(r)
  <2>1. /\ q.mode = "amount" /\ q.units = {} /\ q.disc = 0 /\ q.gross \in 1..Total(m)
        /\ l = AmountLeft(m, q)
    BY <1>5 DEF TakesAmount
  <2> HIDE DEF m, q, l
  <2> DEFINE c == [name |-> q.name, amount |-> IF Settles(m, q.gross) THEN NotNegative(Gross(m) - m.disc)
                                               ELSE q.gross]
  <2>2. /\ c \in Credit /\ l.units = m.units /\ l.credits = Append(m.credits, c) /\ l.rec = m.rec
        /\ l.st = (IF Settles(m, q.gross) THEN "settled" ELSE "open")
        /\ MostOff = 0 \/ m.disc > 0 => l.disc <= m.disc
    BY <1>1, <2>1, AmountLeftIs
  <2> HIDE DEF c
  <2>3. Len(l.credits) = Len(m.credits) + 1
    BY <1>3, <2>2, CreditAppended
  <2>4. IsLive(l) /\ Len(l.credits) <= Len(m.credits) + 1
    BY <1>3, <2>2, <2>3 DEF IsLive
  <2>5. DiscountKept => l.disc + q.disc <= m.disc
    BY <1>2, <1>3, <2>1, <2>2 DEF m, q, l
  <2>6. Leaves(m, q, l)
    BY <1>1, <2>1, <2>2, <2>4, <2>5 DEF Leaves
  <2> QED
    BY <2>6 DEF m, q, l
<1> QED
  BY <1>2, <1>4, <1>5

WithPart(P, p, q) == [P EXCEPT ![p] = q]

LEMMA PartAdded ==
  ASSUME NEW P \in [Parts -> PartRow], NEW p \in Parts, P[p].st = "absent",
         NEW row \in PartRow, row.st = "paid"
  PROVE  LET Q == WithPart(P, p, row) IN
         /\ Q \in [Parts -> PartRow] /\ Q[p] = row /\ \A x \in Parts \ {p} : Q[x] = P[x]
         /\ KeepsParts(P, Q) /\ PaidOf(Q) = PaidOf(P) \cup {p} /\ p \notin PaidOf(P)
         /\ Cardinality(UsedOf(P)) \in Nat
         /\ Cardinality(UsedOf(Q)) = Cardinality(UsedOf(P)) + 1
         /\ SumOver(Discs(Q), PaidOf(Q)) = SumOver(Discs(P), PaidOf(P)) + row.disc
         /\ SumOver(Discs(P), PaidOf(P)) \in Nat
<1> DEFINE Q == WithPart(P, p, row)
<1>1. Q \in [Parts -> PartRow] /\ Q[p] = row /\ \A x \in Parts \ {p} : Q[x] = P[x]
  BY DEF WithPart
<1> HIDE DEF Q
<1>2. KeepsParts(P, Q)
  BY <1>1 DEF KeepsParts, SamePart
<1>3. PaidOf(Q) = PaidOf(P) \cup {p} /\ p \notin PaidOf(P)
  BY <1>1 DEF PaidOf
<1>4. UsedOf(Q) = UsedOf(P) \cup {p} /\ p \notin UsedOf(P) /\ UsedOf(P) \in SUBSET Parts
  BY <1>1 DEF UsedOf
<1>5. /\ Cardinality(UsedOf(P)) \in Nat
      /\ Cardinality(UsedOf(Q)) = Cardinality(UsedOf(P)) + 1
  <2>1. IsFiniteSet(UsedOf(P))
    BY <1>4, SplitAssumption, FS_Subset
  <2> QED
    BY <1>4, <2>1, FS_AddElement, FS_CardinalityType
<1> DEFINE v == Discs(P)
           w == Discs(Q)
           S == PaidOf(P)
           T == PaidOf(Q)
<1>6. /\ IsFiniteSet(Parts) /\ v \in [Parts -> Nat] /\ w \in [Parts -> Nat] /\ S \in SUBSET Parts
      /\ T \in SUBSET Parts /\ p \in T /\ T \ {p} = S /\ w[p] = row.disc
      /\ \A x \in S : v[x] = w[x]
  BY <1>1, <1>3, SplitAssumption DEF Discs, PartRow, PaidOf
<1>7. v \in [Parts -> Int] /\ w \in [Parts -> Int]
  BY <1>6
<1> HIDE DEF Q, v, w, S, T
<1>8. SumOver(w, T) = w[p] + SumOver(w, S)
  BY <1>6, <1>7, SumFacts
<1>9. SumOver(v, S) = SumOver(w, S) /\ SumOver(v, S) \in Nat
  BY <1>6, <1>7, SumSame, SumNatural
<1>10. w[p] \in Nat
  BY <1>6
<1>11. SumOver(w, T) = SumOver(v, S) + row.disc
  BY <1>6, <1>8, <1>9, <1>10
<1> QED
  BY <1>1, <1>2, <1>3, <1>5, <1>9, <1>11 DEF Q, v, w, S, T

LEMMA SplitLeavesWhole ==
  ASSUME NEW m, NEW P \in [Parts -> PartRow], m.st = "open", NEW p \in Parts,
         P[p].st = "absent", NEW q \in PartRow, q.st = "paid", NEW l, Leaves(m, q, l),
         NEW o, Whole(m, P, o)
  PROVE  Whole(l, WithPart(P, p, q), o)
<1> DEFINE Q == WithPart(P, p, q)
<1>1. /\ Q[p] = q /\ (\A x \in Parts \ {p} : Q[x] = P[x])
      /\ PaidOf(Q) = PaidOf(P) \cup {p} /\ p \notin PaidOf(P)
  BY PartAdded
<1> HIDE DEF Q
<1>2. \A x \in PaidOf(P) : x \in Parts /\ x # p /\ Q[x] = P[x]
  BY <1>1 DEF PaidOf
<1>3. IsLive(m) /\ q.units \subseteq m.units /\ l.units = m.units \ q.units
  BY DEF Leaves, IsLive
<1>4. o \in SUBSET Units /\ \A u : u \in o <=> u \in m.units \/ \E x \in PaidOf(P) : u \in P[x].units
  BY <1>3 DEF Whole
<1>5. \A u : (\E x \in PaidOf(Q) : u \in Q[x].units)
             <=> u \in q.units \/ \E x \in PaidOf(P) : u \in P[x].units
  BY <1>1, <1>2
<1>6. \A u : u \in m.units <=> u \in l.units \/ u \in q.units
  BY <1>3
<1>7. Whole(l, Q, o)
  BY <1>4, <1>5, <1>6 DEF Whole
<1> QED
  BY <1>7 DEF Q

\* c: the part consumes a use of the coupon.
LEMMA SplitRightful ==
  ASSUME NEW m, NEW P, NEW n, NEW R, Rightful(m, P, n, R), m.st = "open", NEW p \in Parts,
         P[p].st = "absent", NEW q \in PartRow, q.st = "paid", NEW l, Leaves(m, q, l),
         NEW c \in BOOLEAN, c \/ ~q.coupon \/ \E x \in PaidOf(P) : P[x].coupon,
         NEW S \in [Handlers -> Requests], Alone(S),
         \A g \in Handlers : Sound(S[g], l, WithPart(P, p, q))
  PROVE  Rightful(l, WithPart(P, p, q), IF c THEN n + 1 ELSE n, S)
<1> DEFINE Q == WithPart(P, p, q)
           k == IF c THEN n + 1 ELSE n
<1>1. /\ m \in MainRow /\ Len(m.credits) <= Cardinality(UsedOf(P)) /\ P \in [Parts -> PartRow]
      /\ n \in Nat /\ n <= Cardinality(UsedOf(P)) + IF m.rec THEN 1 ELSE 0
  BY DEF Rightful, Typed
<1>2. Rows(m, P) /\ UnitsApart(m, P) /\ Covered(m, P, n) /\ Discounted(m, P) /\ IsLive(m)
  BY DEF Rightful, IsLive
<1>3. /\ Q \in [Parts -> PartRow] /\ Q[p] = q /\ \A x \in Parts \ {p} : Q[x] = P[x]
      /\ PaidOf(Q) = PaidOf(P) \cup {p} /\ p \notin PaidOf(P)
      /\ Cardinality(UsedOf(P)) \in Nat
      /\ Cardinality(UsedOf(Q)) = Cardinality(UsedOf(P)) + 1
      /\ SumOver(Discs(Q), PaidOf(Q)) = SumOver(Discs(P), PaidOf(P)) + q.disc
      /\ SumOver(Discs(P), PaidOf(P)) \in Nat
  <2>1. Q \in [Parts -> PartRow] /\ Q[p] = q /\ \A x \in Parts \ {p} : Q[x] = P[x]
    BY <1>1, PartAdded
  <2>2. /\ PaidOf(Q) = PaidOf(P) \cup {p} /\ p \notin PaidOf(P)
        /\ Cardinality(UsedOf(P)) \in Nat
        /\ Cardinality(UsedOf(Q)) = Cardinality(UsedOf(P)) + 1
    BY <1>1, PartAdded
  <2>3. /\ SumOver(Discs(Q), PaidOf(Q)) = SumOver(Discs(P), PaidOf(P)) + q.disc
        /\ SumOver(Discs(P), PaidOf(P)) \in Nat
    BY <1>1, PartAdded
  <2> QED
    BY <2>1, <2>2, <2>3
<1>4. \A g \in Handlers : Sound(S[g], l, Q)
  OBVIOUS
<1> HIDE DEF Q
<1>5. /\ l \in MainRow /\ IsLive(l) /\ l.rec = m.rec /\ Len(l.credits) <= Len(m.credits) + 1
      /\ ~m.rec /\ l.st # "invoiced" /\ l.st # "cancelled"
      /\ Len(m.credits) \in Nat /\ Len(l.credits) \in Nat
  BY <1>1, <1>2, WorthsTyped DEF Leaves, Rows, IsLive, MainRow
<1>6. k \in Nat /\ k >= n /\ k <= n + 1 /\ (c => k = n + 1)
  BY <1>1
<1> HIDE DEF Q, k
<1>7. Typed(l, Q, k, S)
  BY <1>1, <1>3, <1>5, <1>6 DEF Typed
<1>8. Rows(l, Q)
  <2>1. ASSUME NEW x \in Parts
        PROVE  /\ Q[x].st = "paid" => Q[x].mode # "none"
               /\ Q[x].mode = "amount" => Q[x].units = {}
               /\ Q[x].st = "absent" => Q[x] = NoPart
    <3>1. CASE x = p
      BY <1>3, <3>1 DEF Leaves
    <3>2. CASE x # p
      BY <1>2, <1>3, <3>2 DEF Rows
    <3> QED
      BY <3>1, <3>2
  <2> QED
    BY <1>5, <2>1 DEF Rows
<1>9. UnitsApart(l, Q)
  <2>0. /\ q.units \subseteq m.units /\ l.units = m.units \ q.units
        /\ \A x \in PaidOf(P) : x \in Parts /\ x # p /\ P[x].st = "paid" /\ Q[x] = P[x]
    BY <1>3 DEF Leaves, PaidOf
  <2>1. \A x \in PaidOf(P) : \A u \in P[x].units : u \notin m.units
    BY <1>2, <2>0 DEF UnitsApart
  <2>2. ASSUME NEW x \in PaidOf(Q), NEW y \in PaidOf(Q), x # y, NEW u \in Q[x].units
        PROVE  u \notin Q[y].units
    <3>1. CASE x = p
      BY <1>3, <2>0, <2>1, <2>2, <3>1
    <3>2. CASE y = p
      BY <1>3, <2>0, <2>1, <2>2, <3>2
    <3>3. CASE x # p /\ y # p
      <4>1. x \in PaidOf(P) /\ y \in PaidOf(P) /\ Q[x] = P[x] /\ Q[y] = P[y]
        BY <1>3, <2>0, <3>3
      <4> QED
        BY <1>2, <2>2, <4>1 DEF UnitsApart
    <3> QED
      BY <3>1, <3>2, <3>3
  <2>3. ASSUME NEW x \in PaidOf(Q), NEW u \in Q[x].units
        PROVE  u \notin l.units
    <3>1. CASE x = p
      BY <1>3, <2>0, <2>3, <3>1
    <3>2. CASE x # p
      BY <1>3, <2>0, <2>1, <2>3, <3>2
    <3> QED
      BY <3>1, <3>2
  <2> QED
    BY <2>2, <2>3 DEF UnitsApart
<1>10. Covered(l, Q, k)
  <2>1. \A x \in PaidOf(P) : P[x].coupon => n >= 1
    BY <1>1, <1>2 DEF Covered
  <2>2. ASSUME NEW x \in PaidOf(Q), Q[x].coupon
        PROVE  k >= 1
    <3>1. CASE x = p
      BY <1>1, <1>3, <1>6, <2>1, <2>2, <3>1
    <3>2. CASE x # p
      <4>1. x \in PaidOf(P) /\ Q[x] = P[x]
        BY <1>3, <3>2 DEF PaidOf
      <4> QED
        BY <1>1, <1>6, <2>1, <2>2, <4>1
    <3> QED
      BY <3>1, <3>2
  <2> QED
    BY <1>5, <1>6, <2>2 DEF Covered
<1>11. NoneLeft(l, Q)
  BY <1>5 DEF NoneLeft
<1>12. Discounted(l, Q)
  <2> SUFFICES ASSUME DiscountKept PROVE Discounted(l, Q)
    BY DEF Discounted
  <2>1. m.disc <= MostOff /\ (\A x \in Parts : P[x].disc <= MostOff) /\ Shared(m, P)
    BY <1>2 DEF Discounted
  <2>2. /\ m.disc \in Nat /\ l.disc \in Nat /\ q.disc \in Nat /\ MostOff \in Nat
        /\ l.disc + q.disc <= m.disc
    BY <1>1, <1>5, SplitAssumption DEF MainRow, PartRow, Leaves
  <2>3. l.disc <= MostOff /\ q.disc <= MostOff
    BY <2>1, <2>2
  <2>4. \A x \in Parts : Q[x].disc <= MostOff
    BY <1>3, <2>1, <2>3
  <2>5. m.disc + SumOver(Discs(P), PaidOf(P)) <= MostOff
    BY <2>1 DEF Shared
  <2>6. l.disc + SumOver(Discs(Q), PaidOf(Q)) <= MostOff
    BY <1>3, <2>2, <2>5
  <2> QED
    BY <1>5, <2>3, <2>4, <2>6 DEF Discounted, Shared
<1>13. Rightful(l, Q, k, S)
  BY <1>4, <1>7, <1>8, <1>9, <1>10, <1>11, <1>12 DEF Rightful
<1> QED
  BY <1>13 DEF Q, k

LEMMA SplitCommits ==
  ASSUME SplitInv, NEW h \in Handlers, NEW p \in Parts, CommitSplit(h, p)
  PROVE  /\ SplitInv'
         /\ Whole(main, parts, ordered) => Whole(main, parts, ordered)'
<1> DEFINE r == req[h]
           c == Consumed(r.part.coupon)
           q == [r.part EXCEPT !.rec = c]
           l == r.left
           Q == WithPart(parts, p, q)
<1>1. /\ Rightful(main, parts, uses, req) /\ r \in Requests /\ uses \in Nat
      /\ parts \in [Parts -> PartRow] /\ main \in MainRow /\ req \in [Handlers -> Requests]
      /\ \A g \in Handlers : Sound(req[g], main, parts)
  BY DEF SplitInv, Rightful, Typed
<1>2. /\ r.op = "split" /\ parts[p].st = "absent" /\ main.st = "open" /\ r.fresh
      /\ uses' = IF c THEN uses + 1 ELSE uses
      /\ parts' = Q /\ WriteMain(h, l) /\ ordered' = ordered
  BY DEF CommitSplit, Unchanged, WithPart
<1>3. r # Idle /\ r \in SplitRequest
  BY <1>1, <1>2, KindsOfRequests
<1>4. r.main = main /\ SplitSound(r) /\ r.part.st = "paid" /\ r.part \in PartRow
  BY <1>1, <1>2, <1>3 DEF Sound, SplitSound, SplitRequest
<1>5. c \in BOOLEAN /\ (c \/ ~r.part.coupon \/ \E x \in PaidOf(parts) : parts[x].coupon)
  BY DEF Consumed, Paid, PaidOf
<1>6. main' = l /\ req' = Written(req, h)
  BY <1>2, Writes
<1>7. Leaves(main, r.part, l)
  BY <1>3, <1>4, SplitLeaves
<1>8. Alone(req)
  BY <1>1 DEF Rightful
<1> HIDE DEF c
<1>9. /\ q \in PartRow /\ q.st = "paid" /\ q.coupon = r.part.coupon /\ q.units = r.part.units
      /\ q.mode = r.part.mode /\ q.disc = r.part.disc
  BY <1>4, <1>5 DEF PartRow
<1> HIDE DEF q, l
<1>10. Leaves(main, q, l)
  BY <1>7, <1>9 DEF Leaves
<1>11. Q = WithPart(parts, p, q)
  OBVIOUS
<1> HIDE DEF Q
<1>12. KeepsParts(parts, Q)
  BY <1>1, <1>2, <1>9, <1>11, PartAdded
<1>13. ASSUME NEW g \in Handlers, g # h, req[g] # Idle
       PROVE  CancelSound(req[g], l, Q)
  <2>1. CancelSound(req[g], main, parts)
    BY <1>1, <1>13 DEF Sound
  <2>2. ~(Isolated /\ req[g].op = "cancel" /\ req[g].main.st = "open")
    BY <1>3, <1>8, <1>13 DEF Alone
  <2> QED
    BY <1>2, <2>1, <2>2, CancelOvertaken
<1>14. /\ Written(req, h) \in [Handlers -> Requests] /\ Alone(Written(req, h))
       /\ \A g \in Handlers : Sound(Written(req, h)[g], l, Q)
  <2>1. IsLive(main) /\ IsLive(l)
    BY <1>2, <1>10 DEF Leaves, IsLive
  <2> QED
    BY <1>1, <1>12, <1>13, <2>1, WritePasses
<1> DEFINE S == Written(req, h)
<1>15. S \in [Handlers -> Requests] /\ Alone(S) /\ \A g \in Handlers : Sound(S[g], l, Q)
  BY <1>14
<1>16. c \/ ~q.coupon \/ \E x \in PaidOf(parts) : parts[x].coupon
  BY <1>5, <1>9
<1> HIDE DEF S
<1>17. Rightful(l, Q, IF c THEN uses + 1 ELSE uses, S)
  BY <1>1, <1>2, <1>5, <1>9, <1>10, <1>11, <1>15, <1>16, SplitRightful
<1>18. ASSUME Whole(main, parts, ordered) PROVE Whole(l, Q, ordered)
  BY <1>1, <1>2, <1>9, <1>10, <1>11, <1>18, SplitLeavesWhole
<1> QED
  BY <1>2, <1>6, <1>17, <1>18 DEF SplitInv, S

-----------------------------------------------------------------------------
(* The invariant holds *)

LEMMA SplitInvInit == Init => ListedInv
<1> SUFFICES ASSUME Init PROVE ListedInv
  OBVIOUS
<1>1. PICK units \in (SUBSET Units) \ {{}} :
        main = [st |-> "open", units |-> units, credits |-> <<>>,
                disc |-> FullDiscount(units), coupon |-> TRUE, rec |-> FALSE]
  BY DEF Init
<1>2. /\ parts = [p \in Parts |-> NoPart] /\ uses = 0 /\ req = [h \in Handlers |-> Idle]
      /\ ordered = main.units
  BY DEF Init
<1>3. FullDiscount(units) \in Nat /\ FullDiscount(units) <= MostOff
  BY FullIs
<1>4. <<>> \in Seq(Credit) /\ Len(<<>>) = 0
  OBVIOUS
<1>5. /\ main \in MainRow /\ main.st = "open" /\ ~main.rec /\ main.credits = <<>>
      /\ main.disc <= MostOff
  BY <1>1, <1>3, <1>4 DEF MainRow
<1>6. /\ parts \in [Parts -> PartRow] /\ req \in [Handlers -> Requests]
      /\ \A p \in Parts : parts[p] = NoPart
  BY <1>2, NoPartIs DEF Requests
<1>7. NoPart.st = "absent" /\ NoPart.units = {} /\ NoPart.disc = 0 /\ NoPart.mode = "none"
  BY DEF NoPart
<1>8. PaidOf(parts) = {} /\ UsedOf(parts) = {}
  BY <1>6, <1>7 DEF PaidOf, UsedOf
<1>9. Cardinality(UsedOf(parts)) \in Nat
  BY SplitAssumption, FS_Subset, FS_CardinalityType DEF UsedOf
<1>10. Typed(main, parts, uses, req)
  BY <1>2, <1>4, <1>5, <1>6, <1>9 DEF Typed
<1>11. Rows(main, parts) /\ UnitsApart(main, parts) /\ Covered(main, parts, uses)
       /\ NoneLeft(main, parts)
  BY <1>2, <1>5, <1>6, <1>7, <1>8 DEF Rows, UnitsApart, Covered, NoneLeft
<1>12. Discounted(main, parts)
  <2>1. SumOver(Discs(parts), {}) = 0
    <3>1. Discs(parts) \in [Parts -> Int] /\ {} \in SUBSET Parts
      BY <1>6 DEF Discs, PartRow
    <3> QED
      BY <3>1, SplitAssumption, SumFacts
  <2>2. main.disc \in Nat /\ MostOff \in Nat
    BY <1>5, SplitAssumption DEF MainRow
  <2> QED
    BY <1>5, <1>6, <1>7, <1>8, <2>1, <2>2 DEF Discounted, Shared
<1>13. Alone(req) /\ \A h \in Handlers : Sound(req[h], main, parts)
  BY <1>2 DEF Alone, Sound, Idle
<1>14. Whole(main, parts, ordered)
  BY <1>1, <1>2, <1>8 DEF Whole
<1> QED
  BY <1>10, <1>11, <1>12, <1>13, <1>14 DEF ListedInv, SplitInv, Rightful

LEMMA SplitInvStep == ListedInv /\ [Next]_vars => ListedInv'
<1> SUFFICES ASSUME ListedInv, [Next]_vars PROVE ListedInv'
  OBVIOUS
<1>0. SplitInv /\ Whole(main, parts, ordered)
  BY DEF ListedInv
<1>1. CASE UNCHANGED vars
  BY <1>0, <1>1 DEF vars, ListedInv, SplitInv
<1>2. CASE Touch
  <2>1. main' = main /\ parts' = parts /\ ordered' = ordered
    BY <1>2 DEF Touch
  <2> QED
    BY <1>0, <1>2, <2>1, TouchKeeps DEF ListedInv
<1>3. ASSUME NEW h \in Handlers,
             BeginSplitItems(h) \/ BeginSplitAmount(h) \/ BeginFinalize(h) \/ BeginCancel(h)
             \/ BeginEdit(h) \/ ReadMain(h) \/ Reject(h) \/ \E p \in Parts : BeginVoid(h, p)
      PROVE  ListedInv'
  <2>1. main' = main /\ parts' = parts /\ ordered' = ordered
    BY <1>3 DEF BeginSplitItems, BeginSplitAmount, BeginSplit, BeginFinalize, BeginCancel, BeginEdit,
                ReadMain, Reject, BeginVoid, Begin
  <2>2. SplitInv'
    BY <1>0, <1>3, SplitItemsBegins, SplitAmountBegins, FinalizeBegins, CancelBegins, EditBegins,
       ReadKeeps, RejectKeeps, VoidBegins
  <2> QED
    BY <1>0, <2>1, <2>2 DEF ListedInv
<1>4. ASSUME NEW h \in Handlers, CommitFinalize(h) \/ CommitCancel(h)
      PROVE  ListedInv'
  <2>1. main'.st \in {"invoiced", "cancelled"} /\ ordered' = ordered
    <3>1. CASE CommitFinalize(h)
      <4>1. /\ req[h] \in Requests /\ Sound(req[h], main, parts) /\ req[h].op = "finalize"
            /\ main' = req[h].left /\ ordered' = ordered
        BY <1>0, <3>1 DEF CommitFinalize, WriteMain, SplitInv, Rightful, Typed
      <4>2. FinalizeSound(req[h]) /\ req[h].main \in MainRow
        BY <4>1, KindsOfRequests DEF Sound
      <4> QED
        BY <4>1, <4>2 DEF FinalizeSound, MainRow
    <3>2. CASE CommitCancel(h)
      <4>1. main \in MainRow
        BY <1>0 DEF SplitInv, Rightful, Typed
      <4> QED
        BY <3>2, <4>1 DEF CommitCancel, WriteMain, MainRow
    <3> QED
      BY <1>4, <3>1, <3>2
  <2>2. SplitInv'
    BY <1>0, <1>4, FinalizeCommits, CancelCommits
  <2> QED
    BY <1>0, <2>1, <2>2 DEF ListedInv, Whole, IsLive
<1>5. ASSUME NEW h \in Handlers, CommitEdit(h) \/ CommitVoid(h) \/ \E p \in Parts : CommitSplit(h, p)
      PROVE  ListedInv'
  BY <1>0, <1>5, EditCommits, VoidCommits, SplitCommits DEF ListedInv
<1> QED
  BY <1>1, <1>2, <1>3, <1>4, <1>5 DEF Next, Collections, Cancellations

LEMMA SplitAlways == Spec => []ListedInv
<1> QED
  BY SplitInvInit, SplitInvStep, PTL DEF Spec

-----------------------------------------------------------------------------
(* What the refinement of Bill rests on *)

\* The value of what was ordered, and what the parts took over of it.
WorthOf(o) == Price * Cardinality(o)
TakenBy(P) == SumOver(Grosses(P), PaidOf(P))

\* A part takes over G[p]: the amount of its credit, of which a remainder may be forgiven.
Payers(P) == {p \in PaidOf(P) : P[p].mode = "amount"}
TakesOver(row, p, g) ==
  /\ row.gross >= 1 /\ row.name \in {Table, p}
  /\ row.gross <= g /\ g <= row.gross + Tolerance
  /\ row.mode = "items" => g = row.gross /\ g = Price * Cardinality(row.units)
  /\ (row.mode = "amount" /\ row.name = Table) => g = row.gross
Takes(P, G) == \A p \in PaidOf(P) : TakesOver(P[p], p, G[p])

\* Each credit of c is that of one part which paid an amount: b[p] is its place.
Entered(c, P, G, b) ==
  /\ \A p \in Payers(P) : b[p] \in 1..Len(c) /\ c[b[p]] = [name |-> P[p].name, amount |-> G[p]]
  /\ \A p, q \in Payers(P) : b[p] = b[q] => p = q
  /\ \A i \in 1..Len(c) : \E p \in Payers(P) : b[p] = i

\* What is due and what was taken over add up to what was ordered.
AddsUp(m, P, o, G) == Gross(m) + SumOver(G, PaidOf(P)) = WorthOf(o)

Kept(m, P, o, G, b) ==
  /\ Takes(P, G)
  /\ IsLive(m) => AddsUp(m, P, o, G) /\ Entered(m.credits, P, G, b)

Books(m, P, o) == \E G \in [Parts -> Nat], b \in [Parts -> Nat] : Kept(m, P, o, G, b)

-----------------------------------------------------------------------------
(* Facts about the books *)

LEMMA UnitsMoved ==
  ASSUME NEW s \in SUBSET Units, NEW t \in SUBSET s
  PROVE  Price * Cardinality(s \ t) = Price * Cardinality(s) - Price * Cardinality(t)
<1>1. IsFiniteSet(s) /\ s \cap t = t
  BY SplitAssumption, FS_Subset
<1>2. Cardinality(s \ t) = Cardinality(s) - Cardinality(t)
  BY <1>1, FS_Difference
<1>3. Cardinality(s) \in Nat /\ Cardinality(t) \in Nat /\ Price \in Nat
  BY Subsets, UnitsCounted
<1>4. \A a \in Nat, b \in Nat, n \in Nat : n * (a - b) = n * a - n * b
  OBVIOUS
<1> QED
  BY <1>2, <1>3, <1>4

LEMMA UnitsJoined ==
  ASSUME NEW s \in SUBSET Units, NEW t \in SUBSET Units, s \cap t = {}
  PROVE  WorthOf(s \cup t) = WorthOf(s) + WorthOf(t)
<1>1. s \cup t \in SUBSET Units /\ t \in SUBSET (s \cup t) /\ (s \cup t) \ t = s
  OBVIOUS
<1>2. Price * Cardinality((s \cup t) \ t) = Price * Cardinality(s \cup t) - Price * Cardinality(t)
  BY <1>1, UnitsMoved
<1>3. WorthOf(s \cup t) \in Nat /\ WorthOf(t) \in Nat /\ WorthOf(s) \in Nat
  BY <1>1, Subsets DEF WorthOf
<1>4. WorthOf(s) = WorthOf(s \cup t) - WorthOf(t)
  BY <1>1, <1>2 DEF WorthOf
<1> QED
  BY <1>3, <1>4

\* What the parts took is what their credits say, at most.
LEMMA TakenIs ==
  ASSUME NEW P \in [Parts -> PartRow], NEW G \in [Parts -> Nat], Takes(P, G)
  PROVE  /\ TakenBy(P) \in Nat /\ SumOver(G, PaidOf(P)) \in Nat
         /\ TakenBy(P) <= SumOver(G, PaidOf(P))
<1>1. PaidOf(P) \in SUBSET Parts /\ IsFiniteSet(Parts)
  BY SplitAssumption DEF PaidOf
<1>2. Grosses(P) \in [Parts -> Nat]
  BY UnitsCounted DEF Grosses, PartRow
<1>3. Grosses(P) \in [Parts -> Int] /\ G \in [Parts -> Int]
  BY <1>2
<1>4. \A p \in PaidOf(P) : Grosses(P)[p] <= G[p]
  BY <1>1 DEF Takes, TakesOver, Grosses
<1> QED
  BY <1>1, <1>2, <1>3, <1>4, SumAtMost, SumNatural DEF TakenBy

\* A part q is added that takes over g.
LEMMA PartTakes ==
  ASSUME NEW P \in [Parts -> PartRow], NEW p \in Parts, P[p].st = "absent",
         NEW q \in PartRow, q.st = "paid", NEW G \in [Parts -> Nat], Takes(P, G),
         NEW g \in Nat, TakesOver(q, p, g)
  PROVE  LET Q == WithPart(P, p, q)
             H == WithPart(G, p, g)
         IN /\ H \in [Parts -> Nat] /\ Takes(Q, H)
            /\ SumOver(H, PaidOf(Q)) = SumOver(G, PaidOf(P)) + g
            /\ TakenBy(Q) = TakenBy(P) + q.gross
<1> DEFINE Q == WithPart(P, p, q)
           H == WithPart(G, p, g)
           S == PaidOf(P)
           T == PaidOf(Q)
<1>1. H \in [Parts -> Nat] /\ H[p] = g /\ \A x \in Parts \ {p} : H[x] = G[x]
  BY DEF WithPart
<1>2. Q \in [Parts -> PartRow] /\ Q[p] = q /\ \A x \in Parts \ {p} : Q[x] = P[x]
  BY PartAdded
<1>3. T = S \cup {p} /\ p \notin S
  BY PartAdded
<1> HIDE DEF Q, H
<1>4. S \in SUBSET Parts /\ T \in SUBSET Parts /\ p \in T /\ T \ {p} = S /\ IsFiniteSet(Parts)
  BY <1>3, SplitAssumption DEF PaidOf
<1>5. Takes(Q, H)
  <2>1. ASSUME NEW x \in T
        PROVE  TakesOver(Q[x], x, H[x])
    <3>1. CASE x = p
      BY <1>1, <1>2, <3>1
    <3>2. CASE x # p
      <4>1. x \in S /\ x \in Parts \ {p}
        BY <1>3, <1>4, <3>2
      <4> QED
        BY <1>1, <1>2, <4>1 DEF Takes
    <3> QED
      BY <3>1, <3>2
  <2> QED
    BY <2>1 DEF Takes
<1> HIDE DEF S, T
<1>6. SumOver(H, T) = SumOver(G, S) + g
  <2>1. H \in [Parts -> Int] /\ G \in [Parts -> Int] /\ \A y \in T \ {p} : H[y] = G[y]
    BY <1>1, <1>4
  <2>2. SumOver(H, T) = H[p] + SumOver(G, T \ {p}) /\ SumOver(G, T \ {p}) \in Int
    BY <1>4, <2>1, SumTaken
  <2> QED
    BY <1>1, <1>4, <2>2
<1>7. TakenBy(Q) = TakenBy(P) + q.gross
  <2> DEFINE v == Grosses(Q)
             w == Grosses(P)
  <2>1. /\ v \in [Parts -> Int] /\ w \in [Parts -> Int] /\ v[p] = q.gross
        /\ \A y \in T \ {p} : v[y] = w[y]
    BY <1>2, <1>4, UnitsCounted DEF Grosses, PartRow
  <2>2. q.gross \in Nat
    BY UnitsCounted DEF PartRow
  <2>3. TakenBy(Q) = SumOver(v, T) /\ TakenBy(P) = SumOver(w, S)
    BY DEF TakenBy, S, T
  <2> HIDE DEF v, w
  <2>4. SumOver(v, T) = v[p] + SumOver(w, T \ {p}) /\ SumOver(w, T \ {p}) \in Int
    BY <1>4, <2>1, SumTaken
  <2>5. T \ {p} = S
    BY <1>4
  <2>6. SumOver(v, T) = v[p] + SumOver(w, S) /\ SumOver(w, S) \in Int
    BY <2>4, <2>5, Zenon
  <2> QED
    BY <2>1, <2>2, <2>3, <2>6
<1> QED
  BY <1>1, <1>5, <1>6, <1>7 DEF S, T, Q, H

\* A part that pays an amount enters its credit.
LEMMA CreditEntered ==
  ASSUME NEW P \in [Parts -> PartRow], NEW p \in Parts, P[p].st = "absent",
         NEW q \in PartRow, q.st = "paid", NEW c \in Seq(Credit), NEW G \in [Parts -> Nat],
         NEW b \in [Parts -> Nat], Entered(c, P, G, b), NEW x \in Credit, NEW d \in Seq(Credit),
         IF q.mode = "amount" THEN x.name = q.name /\ d = Append(c, x) ELSE d = c
  PROVE  Entered(d, WithPart(P, p, q), WithPart(G, p, x.amount), WithPart(b, p, Len(c) + 1))
<1> DEFINE Q == WithPart(P, p, q)
           H == WithPart(G, p, x.amount)
           n == Len(c) + 1
           e == WithPart(b, p, n)
<1>1. x.amount \in Nat /\ x = [name |-> x.name, amount |-> x.amount] /\ Len(c) \in Nat
  BY UnitsCounted, WorthsTyped DEF Credit
<1>2. /\ H[p] = x.amount /\ \A y \in Parts \ {p} : H[y] = G[y] /\ e[y] = b[y]
      /\ e[p] = n
  BY DEF WithPart
<1>3. Q \in [Parts -> PartRow] /\ Q[p] = q /\ \A y \in Parts \ {p} : Q[y] = P[y]
  BY DEF WithPart
<1> HIDE DEF Q, H, e
<1>4. \A y \in Payers(P) : y \in Parts \ {p}
  BY DEF Payers, PaidOf
<1>5. /\ \A y \in Payers(P) : b[y] \in 1..Len(c) /\ c[b[y]] = [name |-> P[y].name, amount |-> G[y]]
      /\ \A y, z \in Payers(P) : b[y] = b[z] => y = z
      /\ \A i \in 1..Len(c) : \E y \in Payers(P) : b[y] = i
  BY DEF Entered
<1>6. CASE q.mode = "amount"
  <2>1. Payers(Q) = Payers(P) \cup {p}
    BY <1>3, <1>6 DEF Payers, PaidOf
  <2>2. Len(d) = Len(c) + 1 /\ (\A i \in 1..Len(c) : d[i] = c[i]) /\ d[n] = x
    BY <1>6, CreditAppended DEF n
  <2>3. ASSUME NEW y \in Payers(Q)
        PROVE  e[y] \in 1..Len(d) /\ d[e[y]] = [name |-> Q[y].name, amount |-> H[y]]
    <3>1. CASE y = p
      BY <1>1, <1>2, <1>3, <1>6, <2>2, <3>1
    <3>2. CASE y # p
      BY <1>1, <1>2, <1>3, <1>4, <1>5, <2>1, <2>2, <3>2
    <3> QED
      BY <3>1, <3>2
  <2>4. ASSUME NEW y \in Payers(Q), NEW z \in Payers(Q), e[y] = e[z]
        PROVE  y = z
    <3>1. \A t \in Payers(P) : e[t] \in 1..Len(c) /\ e[t] # n
      <4>1. \A i \in 1..Len(c) : i # n
        BY <1>1
      <4>2. \A t \in Payers(P) : e[t] = b[t] /\ b[t] \in 1..Len(c)
        BY <1>2, <1>4, <1>5
      <4> HIDE DEF n
      <4> QED
        BY <4>1, <4>2
    <3>2. CASE y \in Payers(P) /\ z \in Payers(P)
      BY <1>2, <1>4, <1>5, <2>4, <3>2
    <3>3. CASE y = p \/ z = p
      BY <1>2, <2>1, <2>4, <3>1, <3>3
    <3> QED
      BY <2>1, <3>2, <3>3
  <2>5. ASSUME NEW i \in 1..Len(d)
        PROVE  \E y \in Payers(Q) : e[y] = i
    <3>1. CASE i = n
      BY <1>2, <2>1, <3>1
    <3>2. CASE i # n
      <4>1. i \in 1..Len(c)
        BY <1>1, <2>2, <3>2
      <4>2. PICK y \in Payers(P) : b[y] = i
        BY <1>5, <4>1
      <4> QED
        BY <1>2, <1>4, <2>1, <4>2
    <3> QED
      BY <3>1, <3>2
  <2>6. /\ \A y \in Payers(Q) : e[y] \in 1..Len(d) /\ d[e[y]] = [name |-> Q[y].name, amount |-> H[y]]
        /\ \A y, z \in Payers(Q) : e[y] = e[z] => y = z
        /\ \A i \in 1..Len(d) : \E y \in Payers(Q) : e[y] = i
    BY <2>3, <2>4, <2>5
  <2>7. Entered(d, Q, H, e)
    BY <2>6 DEF Entered
  <2> QED
    BY <2>7 DEF Q, H, e
<1>7. CASE q.mode # "amount"
  <2>1. Payers(Q) = Payers(P) /\ d = c
    BY <1>3, <1>7 DEF Payers, PaidOf
  <2>2. \A y \in Payers(Q) : Q[y] = P[y] /\ H[y] = G[y] /\ e[y] = b[y]
    BY <1>2, <1>3, <1>4, <2>1
  <2>3. /\ \A y \in Payers(Q) : e[y] \in 1..Len(d) /\ d[e[y]] = [name |-> Q[y].name, amount |-> H[y]]
        /\ \A y, z \in Payers(Q) : e[y] = e[z] => y = z
        /\ \A i \in 1..Len(d) : \E y \in Payers(Q) : e[y] = i
    <3>1. ASSUME NEW y \in Payers(P)
          PROVE  e[y] \in 1..Len(c) /\ c[e[y]] = [name |-> Q[y].name, amount |-> H[y]]
      BY <1>5, <2>1, <2>2
    <3>2. \A y, z \in Payers(P) : e[y] = e[z] => y = z
      BY <1>5, <2>1, <2>2
    <3>3. \A i \in 1..Len(c) : \E y \in Payers(P) : e[y] = i
      BY <1>5, <2>1, <2>2
    <3> QED
      BY <2>1, <3>1, <3>2, <3>3
  <2>4. Entered(d, Q, H, e)
    BY <2>3 DEF Entered
  <2> QED
    BY <2>4 DEF Q, H, e
<1> QED
  BY <1>6, <1>7
-----------------------------------------------------------------------------
(* Steps of the bill *)

TheMost == Price * Cardinality(Units)

DueOf(m) == IF IsLive(m) THEN Gross(m) ELSE 0
CollectedOf(m, P) == TakenBy(P) + IF m.st = "invoiced" THEN NotNegative(Gross(m)) ELSE 0

\* The bill in terms of the rows.
LEMMA BillIs ==
  /\ (IF Live THEN Gross(main) ELSE 0) = DueOf(main)
  /\ (IF Live THEN Gross(main) ELSE 0)' = DueOf(main')
  /\ PartSum(LAMBDA p : p.gross) + (IF main.st = "invoiced" THEN NotNegative(Gross(main)) ELSE 0)
       = CollectedOf(main, parts)
  /\ (PartSum(LAMBDA p : p.gross) + (IF main.st = "invoiced" THEN NotNegative(Gross(main)) ELSE 0))'
       = CollectedOf(main', parts')
  /\ Price * Cardinality(ordered) = WorthOf(ordered)
  /\ (Price * Cardinality(ordered))' = WorthOf(ordered')
  /\ Live = IsLive(main) /\ Live' = IsLive(main')
<1>1. PaidOf(parts) \in SUBSET Parts /\ PaidOf(parts') \in SUBSET Parts
  BY DEF PaidOf
<1>2. Paid = PaidOf(parts) /\ Paid' = PaidOf(parts')
  BY DEF Paid, PaidOf
<1>3. /\ MapThenSumSet(LAMBDA p : parts[p].gross, Paid) = TakenBy(parts)
      /\ MapThenSumSet(LAMBDA p : parts'[p].gross, Paid') = TakenBy(parts')
  BY <1>1, <1>2, PartSums DEF TakenBy
<1>4. PartSum(LAMBDA p : p.gross) = TakenBy(parts)
  BY <1>3 DEF PartSum
<1>5. PartSum(LAMBDA p : p.gross)' = MapThenSumSet(LAMBDA p : parts'[p].gross, Paid')
  BY DEF PartSum, MapThenSumSet, MapThenFoldSet
<1>6. PartSum(LAMBDA p : p.gross)' = TakenBy(parts')
  BY <1>3, <1>5
<1>7. /\ PartSum(LAMBDA p : p.gross) + (IF main.st = "invoiced" THEN NotNegative(Gross(main)) ELSE 0)
           = CollectedOf(main, parts)
      /\ (PartSum(LAMBDA p : p.gross) + (IF main.st = "invoiced" THEN NotNegative(Gross(main)) ELSE 0))'
           = CollectedOf(main', parts')
  BY <1>4, <1>6 DEF CollectedOf
<1>8. /\ Price * Cardinality(ordered) = WorthOf(ordered)
      /\ (Price * Cardinality(ordered))' = WorthOf(ordered')
  BY DEF WorthOf
<1>9. /\ (IF Live THEN Gross(main) ELSE 0) = DueOf(main)
      /\ (IF Live THEN Gross(main) ELSE 0)' = DueOf(main')
      /\ Live = IsLive(main) /\ Live' = IsLive(main')
  BY DEF Live, IsLive, DueOf
<1> QED
  BY <1>7, <1>8, <1>9

\* What a step of the program needs to be a step of the bill.
LEMMA OrderIs ==
  ASSUME IsLive(main), IsLive(main'), NEW n \in -TheMost..TheMost,
         DueOf(main') = DueOf(main) + n, CollectedOf(main', parts') = CollectedOf(main, parts),
         main'.disc \in 0..MostOff, WorthOf(ordered') = WorthOf(ordered) + n,
         WorthOf(ordered') >= 0
  PROVE  B!Next
<1>1. B!Order(n)
  BY BillIs DEF B!Order, B!Off
<1> QED
  BY <1>1 DEF B!Next, TheMost

LEMMA CollectIs ==
  ASSUME IsLive(main), IsLive(main'), NEW n \in 1..TheMost,
         DueOf(main') = DueOf(main) - n, CollectedOf(main', parts') = CollectedOf(main, parts) + n,
         main'.disc \in 0..main.disc, WorthOf(ordered') = WorthOf(ordered)
  PROVE  B!Next
<1>1. B!Collect(n)
  BY BillIs DEF B!Collect
<1> QED
  BY <1>1 DEF B!Next, TheMost

LEMMA SettleIs ==
  ASSUME IsLive(main), IsLive(main'), NEW n \in 1..TheMost,
         DueOf(main) - n - main'.disc \in 0..Tolerance, DueOf(main') = main'.disc,
         CollectedOf(main', parts') = CollectedOf(main, parts) + n,
         main'.disc \in 0..main.disc, WorthOf(ordered') = WorthOf(ordered)
  PROVE  B!Next
<1>1. B!Settle(n)
  BY BillIs DEF B!Settle
<1> QED
  BY <1>1 DEF B!Next, TheMost

LEMMA ReturnIs ==
  ASSUME IsLive(main), IsLive(main'), NEW n \in 1..TheMost, NEW f \in 0..Tolerance,
         DueOf(main') = DueOf(main) + n + f,
         CollectedOf(main', parts') = CollectedOf(main, parts) - n,
         main'.disc \in 0..MostOff, WorthOf(ordered') = WorthOf(ordered),
         CollectedOf(main', parts') >= 0,
         DueOf(main') + CollectedOf(main', parts') <= WorthOf(ordered')
  PROVE  B!Next
<1>1. B!Balanced'
  BY BillIs DEF B!Balanced
<1>2. B!Return(n)
  BY <1>1, BillIs DEF B!Return, B!Off
<1> QED
  BY <1>2 DEF B!Next, TheMost

LEMMA CloseIs ==
  ASSUME IsLive(main), ~IsLive(main'),
         DueOf(main') = 0, DueOf(main) \in Int,
         CollectedOf(main', parts') = CollectedOf(main, parts) + NotNegative(DueOf(main)),
         main'.disc \in 0..MostOff, WorthOf(ordered') = WorthOf(ordered)
  PROVE  B!Next
<1>0. NotNegative(DueOf(main)) = IF DueOf(main) > 0 THEN DueOf(main) ELSE 0
  BY DEF NotNegative
<1>1. B!Close
  BY <1>0, BillIs DEF B!Close, B!Off
<1> QED
  BY <1>1 DEF B!Next

LEMMA WriteOffIs ==
  ASSUME IsLive(main), ~IsLive(main'),
         DueOf(main') = 0, CollectedOf(main', parts') = CollectedOf(main, parts),
         main'.disc = main.disc, WorthOf(ordered') = WorthOf(ordered)
  PROVE  B!Next
<1>1. B!WriteOff
  BY BillIs DEF B!WriteOff
<1> QED
  BY <1>1 DEF B!Next

LEMMA RefundIs ==
  ASSUME ~IsLive(main), ~IsLive(main'), NEW n \in 1..TheMost,
         CollectedOf(main', parts') = CollectedOf(main, parts) - n, CollectedOf(main', parts') >= 0,
         main'.disc = main.disc, WorthOf(ordered') = WorthOf(ordered)
  PROVE  B!Next
<1>1. DueOf(main') = DueOf(main) /\ IsLive(main') = IsLive(main)
  BY DEF DueOf, IsLive
<1>2. B!Refund(n)
  BY <1>1, BillIs DEF B!Refund
<1> QED
  BY <1>2 DEF B!Next, TheMost

LEMMA StutterIs ==
  ASSUME IsLive(main') = IsLive(main), DueOf(main') = DueOf(main),
         CollectedOf(main', parts') = CollectedOf(main, parts),
         main'.disc = main.disc, WorthOf(ordered') = WorthOf(ordered)
  PROVE  UNCHANGED B!billVars
  BY BillIs DEF B!billVars

-----------------------------------------------------------------------------
(* The books after a step *)

\* What a split does to the money: the part q is paid at p, its credit is x.
SplitsOff(m, p, q, l, x) ==
  /\ x \in Credit /\ TakesOver(q, p, x.amount)
  /\ q.units \subseteq m.units /\ l.units = m.units \ q.units
  /\ IF q.mode = "amount" THEN x.name = q.name /\ l.credits = Append(m.credits, x)
                          ELSE l.credits = m.credits
  /\ Gross(l) = Gross(m) - x.amount
  /\ l.disc <= m.disc
  /\ \/ x.amount = q.gross
     \/ Gross(l) = l.disc /\ Gross(m) - q.gross - l.disc \in 0..Tolerance

LEMMA ItemsSplitOff ==
  ASSUME DiscountKept, NEW r \in SplitRequest, SplitSound(r), TakesItems(r),
         NEW p \in Parts
  PROVE  SplitsOff(r.main, p, r.part, r.left, [name |-> Table, amount |-> r.part.gross])
<1> DEFINE m == r.main
           q == r.part
           l == r.left
           x == [name |-> Table, amount |-> q.gross]
<1>1. r.op = "split" /\ m \in MainRow /\ q \in PartRow /\ l \in MainRow
  BY DEF SplitRequest
<1>2. /\ q.mode = "items" /\ q.name = Table /\ q.units \subseteq m.units /\ q.gross >= 1
      /\ q.gross = Price * Cardinality(q.units) /\ m.credits = <<>> /\ l = ItemsLeft(m, q)
      /\ q.disc <= m.disc /\ (MostOff = 0 \/ m.disc > 0)
  BY <1>1 DEF SplitSound, TakesItems
<1> HIDE DEF m, q, l
<1>3. /\ l.units = m.units \ q.units /\ l.credits = m.credits
      /\ l.disc + q.disc <= m.disc /\ l.disc <= Gross(l)
  BY <1>1, <1>2, ItemsLeftIs
<1>4. /\ l.disc \in Nat /\ q.disc \in Nat /\ m.disc \in Nat /\ q.gross \in Nat /\ q.gross \in Amounts
      /\ m.units \in SUBSET Units /\ l.units \in SUBSET Units /\ q.units \in SUBSET Units
      /\ m.credits \in Seq(Credit) /\ l.credits \in Seq(Credit)
  BY <1>1, UnitsCounted DEF MainRow, PartRow
<1>5. Gross(l) = Gross(m) - q.gross
  <2>1. /\ Gross(m) = Price * Cardinality(m.units) - Credited(m.credits)
        /\ Gross(l) = Price * Cardinality(l.units) - Credited(l.credits)
    BY <1>4, GrossIs
  <2>2. Price * Cardinality(l.units) = Price * Cardinality(m.units) - Price * Cardinality(q.units)
    BY <1>2, <1>3, <1>4, UnitsMoved
  <2>3. Credited(m.credits) = 0
    BY <1>2, NoCredits
  <2>4. Price * Cardinality(m.units) \in Nat /\ Price * Cardinality(q.units) \in Nat
    BY <1>4, Subsets
  <2> QED
    BY <1>2, <1>3, <2>1, <2>2, <2>3, <2>4
<1>6. x \in Credit /\ x.amount = q.gross
  BY <1>4 DEF Credit, Names
<1>7. TakesOver(q, p, x.amount)
  <2>1. Tolerance \in Nat
    BY SplitAssumption
  <2> QED
    BY <1>2, <1>4, <1>6, <2>1 DEF TakesOver
<1>8. l.disc <= m.disc
  BY <1>3, <1>4
<1> HIDE DEF x
<1>9. SplitsOff(m, p, q, l, x)
  BY <1>2, <1>3, <1>5, <1>6, <1>7, <1>8 DEF SplitsOff
<1> QED
  BY <1>9 DEF m, q, l, x

LEMMA AmountSplitOff ==
  ASSUME DiscountKept, CleanNames, NEW r \in SplitRequest, SplitSound(r), TakesAmount(r),
         r.main.disc <= MostOff, NEW p \in Parts,
         r.part.name \in {Table, p}
  PROVE  \E x : SplitsOff(r.main, p, r.part, r.left, x)
<1> DEFINE m == r.main
           q == r.part
           l == r.left
           settles == Settles(m, q.gross)
           x == [name |-> q.name, amount |-> IF settles THEN NotNegative(Gross(m) - m.disc)
                                              ELSE q.gross]
<1>1. r.op = "split" /\ m \in MainRow /\ q \in PartRow /\ l \in MainRow
  BY DEF SplitRequest
<1>2. /\ q.mode = "amount" /\ q.units = {} /\ q.gross \in 1..Total(m) /\ l = AmountLeft(m, q)
      /\ MostOff = 0 \/ m.disc > 0
      /\ settles /\ q.gross < Total(m) => q.name # Table
      /\ m.disc <= MostOff /\ q.name \in {Table, p}
  BY <1>1 DEF SplitSound, TakesAmount
<1> HIDE DEF m, q, l
<1>3. /\ l.units = m.units /\ l.credits = Append(m.credits, x) /\ x \in Credit
      /\ l.disc <= m.disc /\ Gross(l) = Gross(m) - x.amount
      /\ Gross(l) = m.disc => l.disc = m.disc
  BY <1>1, <1>2, AmountLeftIs
<1>4. /\ l.disc \in Nat /\ m.disc \in Nat /\ q.gross \in Nat /\ m.units \in SUBSET Units
      /\ m.credits \in Seq(Credit) /\ Tolerance \in Nat
  BY <1>1, UnitsCounted, SplitAssumption DEF MainRow, PartRow
<1>5. Gross(m) \in Int /\ Total(m) = NotNegative(Gross(m) - m.disc)
  BY <1>4, GrossIs
<1>6. Total(m) = Gross(m) - m.disc
  <2>1. Total(m) # 0
    BY <1>2, <1>4
  <2> QED
    BY <1>4, <1>5, <2>1 DEF NotNegative
<1>7. settles <=> Total(m) - q.gross <= Tolerance
  BY DEF Settles
<1>8. CASE settles
  <2>1. x.amount = Gross(m) - m.disc /\ x.name = q.name
    BY <1>5, <1>6, <1>8
  <2>2. Gross(l) = m.disc /\ l.disc = m.disc
    BY <1>3, <1>4, <1>5, <2>1
  <2>3. /\ q.gross >= 1 /\ q.gross <= x.amount /\ x.amount <= q.gross + Tolerance
        /\ Gross(m) - q.gross - l.disc \in 0..Tolerance
    BY <1>2, <1>4, <1>5, <1>6, <1>7, <1>8, <2>1, <2>2
  <2>4. q.name = Table => x.amount = q.gross
    BY <1>2, <1>4, <1>5, <1>6, <1>8, <2>1
  <2>5. TakesOver(q, p, x.amount)
    BY <1>2, <2>3, <2>4 DEF TakesOver
  <2>6. q.units \subseteq m.units /\ l.units = m.units \ q.units
    BY <1>2, <1>3, <1>4, <2>2
  <2> HIDE DEF x, settles
  <2> QED
    BY <1>2, <1>3, <2>1, <2>2, <2>3, <2>5, <2>6 DEF SplitsOff, m, q, l
<1>9. CASE ~settles
  <2>1. x.amount = q.gross /\ x.name = q.name
    BY <1>9
  <2>2. q.gross >= 1 /\ q.gross <= q.gross + Tolerance
    BY <1>2, <1>3, <1>4, <1>5, <1>6, <1>7, <1>9, <2>1
  <2>3. TakesOver(q, p, x.amount)
    BY <1>2, <1>4, <2>1, <2>2 DEF TakesOver
  <2>4. q.units \subseteq m.units /\ l.units = m.units \ q.units
    BY <1>2, <1>3
  <2> HIDE DEF x, settles
  <2> QED
    BY <1>2, <1>3, <2>1, <2>2, <2>3, <2>4 DEF SplitsOff, m, q, l
<1> QED
  BY <1>8, <1>9

LEMMA BooksAfterSplit ==
  ASSUME NEW m \in MainRow, IsLive(m), NEW P \in [Parts -> PartRow], NEW G \in [Parts -> Nat],
         NEW b \in [Parts -> Nat], NEW o, Kept(m, P, o, G, b), NEW p \in Parts, P[p] = NoPart,
         NEW q \in PartRow, q.st = "paid", NEW l \in MainRow, IsLive(l), NEW x,
         SplitsOff(m, p, q, l, x)
  PROVE  /\ Books(l, WithPart(P, p, q), o)
         /\ TakenBy(WithPart(P, p, q)) = TakenBy(P) + q.gross
<1> DEFINE Q == WithPart(P, p, q)
           g == x.amount
           H == WithPart(G, p, g)
           e == WithPart(b, p, Len(m.credits) + 1)
<1>1. P[p].st = "absent" /\ P[p].units = {}
  BY DEF NoPart
<1>2. x \in Credit /\ x.amount \in Nat /\ TakesOver(q, p, x.amount)
  BY UnitsCounted DEF SplitsOff, Credit
<1>3. /\ m.credits \in Seq(Credit) /\ l.credits \in Seq(Credit) /\ Len(m.credits) \in Nat
      /\ m.disc \in Nat /\ l.disc \in Nat /\ m.units \in SUBSET Units /\ l.units \in SUBSET Units
  BY WorthsTyped DEF MainRow
<1>4. Takes(P, G) /\ AddsUp(m, P, o, G) /\ Entered(m.credits, P, G, b)
  BY DEF Kept
<1>5. /\ H \in [Parts -> Nat] /\ Takes(Q, H)
      /\ SumOver(H, PaidOf(Q)) = SumOver(G, PaidOf(P)) + x.amount
      /\ TakenBy(Q) = TakenBy(P) + q.gross
  <2>1. g \in Nat /\ TakesOver(q, p, g) /\ g = x.amount
    BY <1>2
  <2> HIDE DEF g
  <2>2. /\ H \in [Parts -> Nat] /\ Takes(Q, H)
        /\ SumOver(H, PaidOf(Q)) = SumOver(G, PaidOf(P)) + g
        /\ TakenBy(Q) = TakenBy(P) + q.gross
    BY <1>1, <1>4, <2>1, PartTakes
  <2> QED
    BY <2>1, <2>2
<1>6. Entered(l.credits, Q, H, e)
  <2>1. IF q.mode = "amount" THEN x.name = q.name /\ l.credits = Append(m.credits, x)
                             ELSE l.credits = m.credits
    BY DEF SplitsOff
  <2> QED
    BY <1>1, <1>2, <1>3, <1>4, <2>1, CreditEntered
<1>7. e \in [Parts -> Nat]
  BY <1>3 DEF WithPart
<1> HIDE DEF Q, H, e
<1>8. AddsUp(l, Q, o, H)
  <2>1. Gross(m) + SumOver(G, PaidOf(P)) = WorthOf(o) /\ Gross(l) = Gross(m) - x.amount
    BY <1>4 DEF AddsUp, SplitsOff
  <2>2. Gross(m) \in Int /\ SumOver(G, PaidOf(P)) \in Nat
    BY <1>3, <1>4, GrossIs, TakenIs
  <2>3. Gross(l) + SumOver(H, PaidOf(Q)) = WorthOf(o)
    BY <1>2, <1>5, <2>1, <2>2
  <2> QED
    BY <2>3 DEF AddsUp
<1>9. Kept(l, Q, o, H, e)
  BY <1>5, <1>6, <1>8 DEF Kept
<1>10. Books(l, Q, o)
  BY <1>5, <1>7, <1>9 DEF Books
<1> QED
  BY <1>5, <1>10 DEF Q

\* Credit i of c is one that a cancellation of the part q may take out.
CreditFor(c, i, q) ==
  /\ i \in 1..Len(c) /\ c[i].name = q.name
  /\ (\E j \in 1..Len(c) : c[j].name = q.name /\ c[j].amount = q.gross) => c[i].amount = q.gross

\* The paid parts of Q are those of P without p.
Without(P, p, Q) ==
  /\ PaidOf(Q) = PaidOf(P) \ {p}
  /\ \A x \in Parts \ {p} : Q[x].mode = P[x].mode /\ Q[x].name = P[x].name

\* The credit of a cancelled part is taken out: it has the amount of the part, or another part
\* of the same name has the same credit and takes over its place.
LEMMA CreditTakenOut ==
  ASSUME NEW P \in [Parts -> PartRow], NEW G \in [Parts -> Nat], Takes(P, G),
         NEW b \in [Parts -> Nat], NEW c \in Seq(Credit), Entered(c, P, G, b),
         NEW p \in Payers(P), NEW i, CreditFor(c, i, P[p]), NEW Q, Without(P, p, Q)
  PROVE  c[i].amount = G[p] /\ \E e \in [Parts -> Nat] : Entered(RemoveAt(c, i), Q, G, e)
<1>0. /\ i \in 1..Len(c) /\ c[i].name = P[p].name
      /\ (\E j \in 1..Len(c) : c[j].name = P[p].name /\ c[j].amount = P[p].gross)
           => c[i].amount = P[p].gross
      /\ PaidOf(Q) = PaidOf(P) \ {p}
      /\ \A x \in Parts \ {p} : Q[x].mode = P[x].mode /\ Q[x].name = P[x].name
  BY DEF CreditFor, Without
<1>1. /\ \A y \in Payers(P) : b[y] \in 1..Len(c) /\ c[b[y]] = [name |-> P[y].name, amount |-> G[y]]
      /\ \A y, z \in Payers(P) : b[y] = b[z] => y = z
      /\ \A j \in 1..Len(c) : \E y \in Payers(P) : b[y] = j
  BY DEF Entered
<1>2. \A y \in Payers(P) : y \in Parts /\ y \in PaidOf(P) /\ P[y].mode = "amount"
                           /\ TakesOver(P[y], y, G[y])
  BY DEF Payers, PaidOf, Takes
<1>3. PICK q \in Payers(P) : b[q] = i
  BY <1>0, <1>1
<1>4. c[i] = [name |-> P[q].name, amount |-> G[q]] /\ P[q].name = P[p].name
  BY <1>0, <1>1, <1>3
<1>5. G[q] = G[p] /\ c[b[p]] = c[i]
  <2>1. CASE P[p].name = Table
    <3>1. G[p] = P[p].gross
      BY <1>2, <2>1 DEF TakesOver
    <3>2. c[b[p]].name = P[p].name /\ c[b[p]].amount = P[p].gross /\ b[p] \in 1..Len(c)
      <4>1. b[p] \in 1..Len(c) /\ c[b[p]] = [name |-> P[p].name, amount |-> G[p]]
        BY <1>1
      <4> QED
        BY <3>1, <4>1
    <3>3. c[i].amount = P[p].gross
      BY <1>0, <3>2
    <3> QED
      BY <1>1, <1>4, <3>1, <3>3
  <2>2. CASE P[p].name # Table
    <3>1. P[p].name = p /\ P[q].name = q
      BY <1>2, <1>4, <2>2 DEF TakesOver
    <3>2. p = q
      BY <1>4, <3>1
    <3> QED
      BY <1>3, <3>2
  <2> QED
    BY <2>1, <2>2
<1> DEFINE d == RemoveAt(c, i)
           n == Len(c)
           at(y) == IF y = q THEN b[p] ELSE b[y]
           e == [y \in Parts |-> IF y \in Payers(P) /\ at(y) >= i THEN at(y) - 1 ELSE at(y)]
<1>6. /\ Len(d) = n - 1 /\ n \in Nat /\ i \in 1..n
      /\ \A j \in 1..(n - 1) : d[j] = IF j < i THEN c[j] ELSE c[j + 1]
  BY <1>0, CreditRemoved, LenProperties
<1>7. Payers(Q) = Payers(P) \ {p}
  <2>1. \A y \in Payers(Q) : y \in PaidOf(Q) /\ Q[y].mode = "amount"
    BY DEF Payers
  <2>2. \A y \in PaidOf(P) \ {p} : y \in Parts \ {p}
    BY DEF PaidOf
  <2>3. \A y : y \in Payers(Q) <=> y \in PaidOf(Q) /\ Q[y].mode = "amount"
    BY DEF Payers
  <2>4. \A y : y \in Payers(P) <=> y \in PaidOf(P) /\ P[y].mode = "amount"
    BY DEF Payers
  <2> QED
    BY <1>0, <2>2, <2>3, <2>4
<1> HIDE DEF d, n
<1>8. ASSUME NEW y \in Payers(Q)
      PROVE  /\ at(y) \in 1..n /\ at(y) # i /\ c[at(y)] = [name |-> P[y].name, amount |-> G[y]]
             /\ y = q => at(y) = b[p]
             /\ y # q => at(y) = b[y]
  <2>1. y \in Payers(P) /\ y # p
    BY <1>7
  <2>2. CASE y = q
    <3>1. b[p] # i
      BY <1>1, <1>3, <2>1, <2>2
    <3> QED
      BY <1>1, <1>4, <1>5, <2>2, <3>1 DEF n
  <2>3. CASE y # q
    BY <1>1, <1>3, <2>1, <2>3 DEF n
  <2> QED
    BY <2>2, <2>3
<1>9. ASSUME NEW y \in Payers(Q), NEW z \in Payers(Q), at(y) = at(z)
      PROVE  y = z
  <2>1. y \in Payers(P) /\ y # p /\ z \in Payers(P) /\ z # p
    BY <1>7
  <2> QED
    BY <1>1, <1>8, <1>9, <2>1
<1>10. ASSUME NEW j \in 1..n, j # i
       PROVE  \E y \in Payers(Q) : at(y) = j
  <2>1. PICK y \in Payers(P) : b[y] = j
    BY <1>1 DEF n
  <2>2. y # q
    BY <1>3, <1>10, <2>1
  <2>3. CASE y = p
    <3>1. q \in Payers(Q)
      BY <1>7, <2>2, <2>3
    <3> QED
      BY <2>1, <2>3, <3>1
  <2>4. CASE y # p
    BY <1>7, <2>1, <2>2, <2>4
  <2> QED
    BY <2>3, <2>4
<1>11. e \in [Parts -> Nat]
  <2>1. \A y \in Parts : at(y) \in Nat /\ (at(y) >= i => at(y) - 1 \in Nat)
    BY <1>2, <1>6
  <2> HIDE DEF at
  <2> QED
    BY <2>1
<1>12. \A y \in Payers(Q) : e[y] = IF at(y) >= i THEN at(y) - 1 ELSE at(y)
  BY <1>2, <1>7
<1> HIDE DEF at, e
<1>13. ASSUME NEW y \in Payers(Q)
       PROVE  /\ e[y] \in 1..Len(d) /\ d[e[y]] = c[at(y)]
              /\ Q[y].name = P[y].name
  <2>1. at(y) \in 1..n /\ at(y) # i
    BY <1>8
  <2>2. y \in Parts \ {p}
    BY <1>2, <1>7
  <2>3. CASE at(y) > i
    <3>1. e[y] = at(y) - 1 /\ e[y] \in 1..(n - 1) /\ ~(e[y] < i) /\ e[y] + 1 = at(y)
      BY <1>6, <1>12, <2>1, <2>3
    <3> QED
      BY <1>0, <1>6, <2>2, <3>1
  <2>4. CASE at(y) < i
    <3>1. e[y] = at(y) /\ e[y] \in 1..(n - 1) /\ e[y] < i
      BY <1>6, <1>12, <2>1, <2>4
    <3> QED
      BY <1>0, <1>6, <2>2, <3>1
  <2> QED
    BY <1>6, <2>1, <2>3, <2>4
<1>14. ASSUME NEW y \in Payers(Q), NEW z \in Payers(Q), e[y] = e[z]
       PROVE  y = z
  <2>1. at(y) \in 1..n /\ at(y) # i /\ at(z) \in 1..n /\ at(z) # i
    BY <1>8
  <2>2. at(y) = at(z)
    BY <1>6, <1>12, <1>14, <2>1
  <2> QED
    BY <1>9, <2>2
<1>15. ASSUME NEW j \in 1..Len(d)
       PROVE  \E y \in Payers(Q) : e[y] = j
  <2> DEFINE k == IF j < i THEN j ELSE j + 1
  <2>1. k \in 1..n /\ k # i /\ j = IF k >= i THEN k - 1 ELSE k
    BY <1>6
  <2> HIDE DEF k
  <2>2. PICK y \in Payers(Q) : at(y) = k
    BY <1>10, <2>1
  <2> QED
    BY <1>12, <2>1, <2>2
<1>16. Entered(d, Q, G, e)
  <2>1. \A y \in Payers(Q) : /\ e[y] \in 1..Len(d)
                             /\ d[e[y]] = [name |-> Q[y].name, amount |-> G[y]]
    BY <1>8, <1>13
  <2> QED
    BY <1>14, <1>15, <2>1 DEF Entered
<1> QED
  BY <1>4, <1>5, <1>11, <1>16 DEF d

LEMMA TakenBack ==
  ASSUME NEW P \in [Parts -> PartRow], NEW p \in Parts, P[p].st = "paid", NEW Q, GivenBack(P, p, Q)
  PROVE  /\ TakenBy(Q) = TakenBy(P) - P[p].gross /\ TakenBy(Q) \in Nat /\ P[p].gross \in Nat
         /\ PaidOf(Q) = PaidOf(P) \ {p} /\ p \in PaidOf(P)
         /\ \A x \in PaidOf(Q) : x \in Parts \ {p} /\ x \in PaidOf(P)
         /\ \A x \in PaidOf(Q) : Q[x].units = P[x].units
         /\ \A x \in Parts \ {p} : /\ Q[x].mode = P[x].mode /\ Q[x].gross = P[x].gross
                                   /\ Q[x].name = P[x].name
<1> DEFINE S == PaidOf(P)
           v == Grosses(P)
           w == Grosses(Q)
<1>1. /\ PaidOf(Q) = S \ {p} /\ \A x \in PaidOf(Q) : Q[x].units = P[x].units
  BY GivenBackIs
<1>2. /\ Q \in [Parts -> PartRow]
      /\ \A x \in Parts \ {p} : /\ Q[x].mode = P[x].mode /\ Q[x].gross = P[x].gross
                                /\ Q[x].name = P[x].name
  BY DEF GivenBack, SamePart
<1>3. /\ IsFiniteSet(Parts) /\ v \in [Parts -> Nat] /\ w \in [Parts -> Nat] /\ S \in SUBSET Parts
      /\ p \in S /\ \A x \in S \ {p} : v[x] = w[x]
  BY <1>2, UnitsCounted, SplitAssumption DEF Grosses, PartRow, PaidOf
<1>4. /\ v[p] = P[p].gross /\ v \in [Parts -> Int] /\ w \in [Parts -> Int]
      /\ S \ {p} \in SUBSET Parts
  BY <1>3 DEF Grosses
<1>5. TakenBy(P) = SumOver(v, S) /\ TakenBy(Q) = SumOver(w, S \ {p})
  BY <1>1 DEF TakenBy
<1>6. P[p].gross \in Nat
  BY UnitsCounted DEF PartRow
<1>7. \A x \in PaidOf(Q) : x \in Parts \ {p} /\ x \in S
  BY <1>1, <1>3
<1> HIDE DEF S, v, w
<1>8. SumOver(v, S) = v[p] + SumOver(w, S \ {p})
  BY <1>3, <1>4, SumTaken
<1>9. SumOver(w, S \ {p}) \in Nat
  BY <1>3, <1>4, SumNatural
<1>10. TakenBy(Q) = TakenBy(P) - P[p].gross /\ TakenBy(Q) \in Nat
  BY <1>4, <1>5, <1>6, <1>8, <1>9
<1> QED
  BY <1>1, <1>2, <1>3, <1>6, <1>7, <1>10 DEF S

LEMMA TakesAfterVoid ==
  ASSUME NEW P \in [Parts -> PartRow], NEW p \in Parts, P[p].st = "paid", NEW Q,
         GivenBack(P, p, Q), NEW G, Takes(P, G)
  PROVE  Takes(Q, G)
<1>1. ASSUME NEW x \in PaidOf(Q)
      PROVE  TakesOver(Q[x], x, G[x])
  <2>1. x \in Parts \ {p} /\ x \in PaidOf(P)
    BY TakenBack
  <2>2. /\ Q[x].mode = P[x].mode /\ Q[x].gross = P[x].gross /\ Q[x].name = P[x].name
        /\ Q[x].units = P[x].units
    BY <2>1, TakenBack
  <2>3. TakesOver(P[x], x, G[x])
    BY <2>1 DEF Takes
  <2> QED
    BY <2>2, <2>3 DEF TakesOver
<1> QED
  BY <1>1 DEF Takes

\* What a cancellation that restores gives back of the part q.
GivesBack(m, q, l) ==
  \/ q.mode = "items" /\ l.units = m.units \cup q.units /\ l.credits = m.credits
  \/ /\ q.mode = "amount" /\ l.units = m.units
     /\ \E i : CreditFor(m.credits, i, q) /\ l.credits = RemoveAt(m.credits, i)

LEMMA BooksAfterVoid ==
  ASSUME NEW m \in MainRow, IsLive(m), NEW P \in [Parts -> PartRow], NEW G \in [Parts -> Nat],
         NEW b \in [Parts -> Nat], NEW o \in SUBSET Units, Kept(m, P, o, G, b),
         UnitsApart(m, P), Rows(m, P),
         NEW p \in Parts, P[p].st = "paid", NEW Q, GivenBack(P, p, Q),
         NEW l \in MainRow, IsLive(l), GivesBack(m, P[p], l)
  PROVE  /\ Books(l, Q, o)
         /\ \E f \in 0..Tolerance : Gross(l) = Gross(m) + P[p].gross + f
         /\ Gross(l) + TakenBy(Q) <= WorthOf(o)
<1> DEFINE q == P[p]
           c == m.credits
<1>1. /\ TakenBy(Q) = TakenBy(P) - q.gross /\ TakenBy(Q) \in Nat /\ q.gross \in Nat
      /\ PaidOf(Q) = PaidOf(P) \ {p} /\ p \in PaidOf(P)
      /\ \A x \in PaidOf(Q) : x \in Parts \ {p} /\ x \in PaidOf(P)
      /\ \A x \in PaidOf(Q) : Q[x].units = P[x].units
      /\ \A x \in Parts \ {p} : /\ Q[x].mode = P[x].mode /\ Q[x].gross = P[x].gross
                                /\ Q[x].name = P[x].name
  BY TakenBack
<1>2. Takes(P, G) /\ AddsUp(m, P, o, G) /\ Entered(c, P, G, b)
  BY DEF Kept
<1>3. /\ TakesOver(q, p, G[p]) /\ G[p] \in Nat /\ Tolerance \in Nat
      /\ c \in Seq(Credit) /\ l.credits \in Seq(Credit) /\ m.disc \in Nat /\ l.disc \in Nat
      /\ WorthOf(o) \in Nat /\ m.units \in SUBSET Units /\ l.units \in SUBSET Units /\ q.units \in SUBSET Units
  BY <1>1, <1>2, SplitAssumption, Subsets DEF Takes, MainRow, PartRow, WorthOf
<1>4. Takes(Q, G)
  BY <1>2, TakesAfterVoid
<1>5. Q \in [Parts -> PartRow]
  BY DEF GivenBack
<1> HIDE DEF c
<1>6. /\ Gross(l) = Gross(m) + G[p] /\ \E e \in [Parts -> Nat] : Entered(l.credits, Q, G, e)
  <2>0. /\ Gross(m) = Price * Cardinality(m.units) - Credited(c)
        /\ Gross(l) = Price * Cardinality(l.units) - Credited(l.credits)
        /\ Price * Cardinality(m.units) \in Nat /\ Price * Cardinality(l.units) \in Nat
        /\ Credited(c) \in Nat /\ Credited(l.credits) \in Nat
    BY <1>3, GrossIs, CreditSumIs, Subsets DEF c
  <2>1. CASE q.mode = "items"
    <3>1. /\ l.units = m.units \cup q.units /\ l.credits = c
          /\ G[p] = Price * Cardinality(q.units)
      BY <1>3, <2>1 DEF GivesBack, TakesOver, c
    <3>2. l.units \ q.units = m.units
      <4>1. \A u \in q.units : u \notin m.units
        BY <1>1 DEF UnitsApart
      <4> QED
        BY <3>1, <4>1
    <3>3. Price * Cardinality(m.units) = Price * Cardinality(l.units) - Price * Cardinality(q.units)
      BY <1>3, <3>1, <3>2, UnitsMoved
    <3>4. Gross(l) = Gross(m) + G[p]
      BY <1>3, <2>0, <3>1, <3>3
    <3>5. Payers(Q) = Payers(P)
      <4>1. \A x : x \in Payers(Q) <=> x \in PaidOf(Q) /\ Q[x].mode = "amount"
        BY DEF Payers
      <4>2. \A x : x \in Payers(P) <=> x \in PaidOf(P) /\ P[x].mode = "amount"
        BY DEF Payers
      <4>3. \A x \in PaidOf(P) : x \in Parts
        BY DEF PaidOf
      <4> QED
        BY <1>1, <2>1, <4>1, <4>2, <4>3
    <3>6. \A x \in Payers(P) : Q[x].name = P[x].name
      <4>1. \A x \in Payers(Q) : x \in PaidOf(Q)
        BY DEF Payers
      <4> QED
        BY <1>1, <3>5, <4>1
    <3>7. Entered(l.credits, Q, G, b)
      <4>1. /\ \A x \in Payers(P) : b[x] \in 1..Len(c) /\ c[b[x]] = [name |-> P[x].name, amount |-> G[x]]
            /\ \A x, y \in Payers(P) : b[x] = b[y] => x = y
            /\ \A i \in 1..Len(c) : \E x \in Payers(P) : b[x] = i
        BY <1>2 DEF Entered
      <4>2. Entered(c, Q, G, b)
        BY <3>5, <3>6, <4>1 DEF Entered
      <4> QED
        BY <3>1, <4>2
    <3> QED
      BY <3>4, <3>7
  <2>2. CASE q.mode = "amount"
    <3>1. PICK i : CreditFor(c, i, q) /\ l.credits = RemoveAt(c, i)
      BY <2>2 DEF GivesBack, c
    <3>2. l.units = m.units /\ p \in Payers(P)
      BY <1>1, <2>2 DEF GivesBack, Payers
    <3>3. c[i].amount = G[p] /\ \E e \in [Parts -> Nat] : Entered(RemoveAt(c, i), Q, G, e)
      <4>1. Without(P, p, Q)
        BY <1>1 DEF Without
      <4> QED
        BY <1>2, <1>3, <3>1, <3>2, <4>1, CreditTakenOut
    <3>4. Credited(l.credits) = Credited(c) - G[p]
      <4>1. i \in 1..Len(c)
        BY <3>1 DEF CreditFor
      <4> QED
        BY <1>3, <3>1, <3>3, <4>1, CreditRemoved
    <3>5. Gross(l) = Gross(m) + G[p]
      BY <1>3, <2>0, <3>2, <3>4
    <3> QED
      BY <3>1, <3>3, <3>5
  <2> QED
    BY <2>1, <2>2 DEF GivesBack
<1>8. /\ Gross(m) \in Int /\ Gross(l) \in Int
      /\ TakenBy(Q) <= SumOver(G, PaidOf(Q)) /\ SumOver(G, PaidOf(Q)) \in Nat
      /\ SumOver(G, PaidOf(P)) \in Nat
  <2>1. Gross(m) \in Int /\ Gross(l) \in Int
    BY <1>3, GrossIs DEF c
  <2>2. SumOver(G, PaidOf(P)) \in Nat
    BY <1>2, TakenIs
  <2>3. TakenBy(Q) <= SumOver(G, PaidOf(Q)) /\ SumOver(G, PaidOf(Q)) \in Nat
    BY <1>4, <1>5, TakenIs
  <2> QED
    BY <2>1, <2>2, <2>3
<1>9. SumOver(G, PaidOf(P)) = G[p] + SumOver(G, PaidOf(Q))
  <2>1. G \in [Parts -> Int] /\ PaidOf(P) \in SUBSET Parts /\ IsFiniteSet(Parts)
    BY SplitAssumption DEF PaidOf
  <2>2. SumOver(G, PaidOf(P)) = G[p] + SumOver(G, PaidOf(P) \ {p})
    BY <1>1, <2>1, SumFacts
  <2> QED
    BY <1>1, <2>2
<1>10. Gross(m) + SumOver(G, PaidOf(P)) = WorthOf(o)
  BY <1>2 DEF AddsUp
<1>11. Gross(l) + SumOver(G, PaidOf(Q)) = WorthOf(o)
  BY <1>3, <1>6, <1>8, <1>9, <1>10
<1>12. Books(l, Q, o)
  <2>1. PICK e \in [Parts -> Nat] : Entered(l.credits, Q, G, e)
    BY <1>6
  <2>2. Kept(l, Q, o, G, e)
    BY <1>4, <1>11, <2>1 DEF Kept, AddsUp
  <2> QED
    BY <2>2 DEF Books
<1>13. \E f \in 0..Tolerance : Gross(l) = Gross(m) + q.gross + f
  <2>1. G[p] - q.gross \in 0..Tolerance
    BY <1>1, <1>3 DEF TakesOver
  <2>2. Gross(l) = Gross(m) + q.gross + (G[p] - q.gross)
    BY <1>1, <1>3, <1>6, <1>8
  <2> QED
    BY <2>1, <2>2
<1>14. Gross(l) + TakenBy(Q) <= WorthOf(o)
  BY <1>1, <1>3, <1>8, <1>11
<1> QED
  BY <1>12, <1>13, <1>14

-----------------------------------------------------------------------------
(* A step of the program is a step of the bill *)

LEMMA BillOfOpen ==
  ASSUME NEW m \in MainRow, NEW P \in [Parts -> PartRow]
  PROVE  /\ TakenBy(P) \in Nat /\ Gross(m) \in Int /\ m.disc \in Nat
         /\ IsLive(m) => DueOf(m) = Gross(m) /\ CollectedOf(m, P) = TakenBy(P)
<1>1. TakenBy(P) \in Nat
  <2>1. Grosses(P) \in [Parts -> Nat] /\ PaidOf(P) \in SUBSET Parts
    BY UnitsCounted DEF Grosses, PartRow, PaidOf
  <2> QED
    BY <2>1, SplitAssumption, SumNatural DEF TakenBy
<1>2. m.units \in SUBSET Units /\ m.credits \in Seq(Credit) /\ m.disc \in Nat
  BY DEF MainRow
<1>3. Gross(m) \in Int
  BY <1>2, GrossIs
<1> QED
  BY <1>1, <1>2, <1>3 DEF DueOf, CollectedOf, IsLive

LEMMA SplitIsBilled ==
  ASSUME DiscountKept, CleanNames, SplitInv, Books(main, parts, ordered),
         NEW h \in Handlers, NEW p \in Parts, CommitSplit(h, p)
  PROVE  Books(main', parts', ordered') /\ B!Next
<1> DEFINE r == req[h]
           c == Consumed(r.part.coupon)
           q == [r.part EXCEPT !.rec = c]
           l == r.left
           Q == WithPart(parts, p, q)
<1>1. /\ Rightful(main, parts, uses, req) /\ r \in Requests /\ parts \in [Parts -> PartRow]
      /\ main \in MainRow /\ Sound(r, main, parts) /\ main.disc <= MostOff
  BY DEF SplitInv, Rightful, Typed, Discounted
<1>2. /\ r.op = "split" /\ parts[p].st = "absent" /\ main.st = "open" /\ r.fresh
      /\ r.part.name \in {Table, p} /\ parts' = Q /\ main' = l /\ ordered' = ordered
  BY DEF CommitSplit, Unchanged, WithPart, WriteMain
<1>3. r # Idle /\ r \in SplitRequest
  BY <1>1, <1>2, KindsOfRequests
<1>4. r.main = main /\ SplitSound(r) /\ r.part.st = "paid" /\ r.part \in PartRow /\ l \in MainRow
  BY <1>1, <1>2, <1>3 DEF Sound, SplitSound, SplitRequest
<1>5. PICK G \in [Parts -> Nat], b \in [Parts -> Nat] : Kept(main, parts, ordered, G, b)
  BY DEF Books
<1>6. IsLive(main) /\ parts[p] = NoPart
  BY <1>1, <1>2 DEF IsLive, Rightful, Rows
<1>7. PICK x : SplitsOff(main, p, r.part, l, x)
  <2>1. TakesItems(r) \/ TakesAmount(r)
    BY <1>2, <1>4 DEF SplitSound
  <2>2. CASE TakesItems(r)
    BY <1>3, <1>4, <2>2, ItemsSplitOff
  <2>3. CASE TakesAmount(r)
    BY <1>1, <1>2, <1>3, <1>4, <2>3, AmountSplitOff
  <2> QED
    BY <2>1, <2>2, <2>3
<1>8. Leaves(main, r.part, l)
  BY <1>3, <1>4, SplitLeaves
<1>9. c \in BOOLEAN
  BY DEF Consumed
<1> HIDE DEF c
<1>10. /\ q \in PartRow /\ q.st = "paid" /\ q.units = r.part.units /\ q.gross = r.part.gross
       /\ q.mode = r.part.mode /\ q.name = r.part.name
  BY <1>4, <1>9 DEF PartRow
<1> HIDE DEF q, l
<1>11. SplitsOff(main, p, q, l, x)
  BY <1>7, <1>10 DEF SplitsOff, TakesOver
<1>12. IsLive(l)
  BY <1>8 DEF Leaves
<1>13. Books(l, Q, ordered) /\ TakenBy(Q) = TakenBy(parts) + q.gross
  BY <1>1, <1>4, <1>5, <1>6, <1>10, <1>11, <1>12, BooksAfterSplit
<1>14. Q \in [Parts -> PartRow]
  BY <1>1, <1>10 DEF WithPart
<1> HIDE DEF Q
<1>15. /\ DueOf(main) = Gross(main) /\ CollectedOf(main, parts) = TakenBy(parts)
       /\ DueOf(l) = Gross(l) /\ CollectedOf(l, Q) = TakenBy(Q)
       /\ TakenBy(parts) \in Nat /\ Gross(main) \in Int /\ Gross(l) \in Int
       /\ main.disc \in Nat /\ l.disc \in Nat
  BY <1>1, <1>4, <1>6, <1>12, <1>14, BillOfOpen
<1>16. q.gross \in 1..TheMost /\ l.disc \in 0..main.disc
  <2>1. q.gross >= 1 /\ l.disc <= main.disc
    BY <1>11 DEF SplitsOff, TakesOver
  <2>2. q.gross \in 0..TheMost /\ q.gross \in Nat /\ TheMost \in Nat
    BY <1>10, UnitsCounted DEF PartRow, Amounts, TheMost
  <2> QED
    BY <1>15, <2>1, <2>2
<1>17. B!Next
  <2>1. CASE x.amount = q.gross
    <3>1. Gross(l) = Gross(main) - q.gross
      BY <1>11, <2>1 DEF SplitsOff
    <3>2. DueOf(l) = DueOf(main) - q.gross /\ CollectedOf(l, Q) = CollectedOf(main, parts) + q.gross
      BY <1>13, <1>15, <3>1
    <3> QED
      BY <1>2, <1>6, <1>12, <1>16, <3>2, CollectIs
  <2>2. CASE Gross(l) = l.disc /\ Gross(main) - q.gross - l.disc \in 0..Tolerance
    <3>1. /\ DueOf(l) = l.disc /\ DueOf(main) - q.gross - l.disc \in 0..Tolerance
          /\ CollectedOf(l, Q) = CollectedOf(main, parts) + q.gross
      BY <1>13, <1>15, <2>2
    <3> QED
      BY <1>2, <1>6, <1>12, <1>16, <3>1, SettleIs
  <2> QED
    BY <1>11, <2>1, <2>2 DEF SplitsOff
<1> QED
  BY <1>2, <1>13, <1>17

LEMMA VoidIsBilled ==
  ASSUME DiscountKept, ListedInv, Books(main, parts, ordered), NEW h \in Handlers, CommitVoid(h)
  PROVE  Books(main', parts', ordered') /\ B!Next
<1> DEFINE r == req[h]
           p == r.id
           Q == parts'
<1>1. /\ Rightful(main, parts, uses, req) /\ r \in Requests /\ Sound(r, main, parts)
      /\ parts \in [Parts -> PartRow] /\ main \in MainRow
      /\ UnitsApart(main, parts) /\ Rows(main, parts) /\ ordered \in SUBSET Units
  BY DEF ListedInv, Whole, SplitInv, Rightful, Typed
<1>2. SplitInv' /\ ordered' = ordered
  BY VoidCommits DEF ListedInv, CommitVoid
<1>3. main' \in MainRow /\ Q \in [Parts -> PartRow] /\ main'.disc <= MostOff
  BY <1>2 DEF SplitInv, Rightful, Typed, Discounted
<1>4. r.op = "restore" /\ parts[p].st = "paid"
  BY DEF CommitVoid
<1>5. r # Idle /\ r \in VoidRequest /\ p \in Parts /\ r.part \in PartRow
  BY <1>1, <1>4, KindsOfRequests DEF VoidRequest
<1>6. /\ r.part.mode # "none" /\ SamePart(r.part, parts[p])
      /\ IF r.restores THEN IsLive(r.main) ELSE ~IsLive(main)
      /\ r.fresh => r.main = main
  BY <1>1, <1>4, <1>5 DEF Sound, VoidSound
<1>7. GivenBack(parts, p, Q)
  <2> DEFINE cancelled == [parts EXCEPT ![p] = CancelledPart]
  <2>1. \/ Q = cancelled
        \/ \E q \in Sibling(p) : Q = [cancelled EXCEPT ![q].rec = TRUE]
    BY DEF CommitVoid
  <2>2. /\ GivenBack(parts, p, cancelled)
        /\ \A q \in PaidOf(parts) \ {p} : GivenBack(parts, p, [cancelled EXCEPT ![q].rec = TRUE])
    BY <1>1, <1>5, PartGivenBack
  <2>3. \A q \in Sibling(p) : q \in PaidOf(parts) \ {p}
    BY DEF Sibling, Paid, PaidOf
  <2> HIDE DEF cancelled, Q, p
  <2> QED
    BY <2>1, <2>2, <2>3
<1>8. PICK G \in [Parts -> Nat], b \in [Parts -> Nat] : Kept(main, parts, ordered, G, b)
  BY DEF Books
<1>9. /\ TakenBy(Q) = TakenBy(parts) - parts[p].gross /\ TakenBy(Q) \in Nat
      /\ parts[p].gross \in Nat /\ p \in PaidOf(parts)
  BY <1>1, <1>4, <1>5, <1>7, TakenBack
<1>10. TakesOver(parts[p], p, G[p]) /\ Takes(Q, G)
  BY <1>1, <1>4, <1>5, <1>7, <1>8, <1>9, TakesAfterVoid DEF Kept, Takes
<1>11. parts[p].gross \in 1..TheMost
  <2>1. parts[p].gross \in 0..TheMost
    BY <1>1, <1>5 DEF PartRow, Amounts, TheMost
  <2> QED
    BY <1>10, <2>1 DEF TakesOver
<1>12. CASE r.restores
  <2> DEFINE l == Restored(main, r.part)
             i == CreditOf(main, r.part)
  <2>1. /\ WriteMain(h, Restored(r.main, r.part)) /\ r.fresh
        /\ r.part.mode = "amount" => CreditOf(r.main, r.part) > 0
    BY <1>12 DEF CommitVoid, Unchanged
  <2>2. IsLive(main) /\ main' = l /\ (r.part.mode = "amount" => i > 0)
    BY <1>6, <1>12, <2>1 DEF WriteMain
  <2>3. /\ r.part.mode = parts[p].mode /\ r.part.units = parts[p].units
        /\ r.part.gross = parts[p].gross /\ r.part.name = parts[p].name
        /\ r.part.disc \in Nat /\ main.disc \in Nat /\ r.part.mode \in {"items", "amount"}
    BY <1>1, <1>5, <1>6 DEF SamePart, PartRow, MainRow
  <2>4. /\ l \in MainRow /\ l.st = "open"
        /\ r.part.mode = "items" => /\ l.units = main.units \cup r.part.units
                                    /\ l.credits = main.credits
        /\ r.part.mode = "amount" => /\ l.units = main.units
                                     /\ l.credits = RemoveAt(main.credits, i)
    BY <1>1, <1>5, <1>6, <2>2, RestoredIs
  <2> HIDE DEF l, i
  <2>5. r.part.mode = "amount" => CreditFor(main.credits, i, parts[p])
    BY <1>1, <2>2, <2>3, CreditOfIs DEF CreditFor, i
  <2>6. GivesBack(main, parts[p], l)
    BY <2>3, <2>4, <2>5 DEF GivesBack
  <2>7. IsLive(l)
    BY <2>4 DEF IsLive
  <2>8. /\ Books(l, Q, ordered)
        /\ \E f \in 0..Tolerance : Gross(l) = Gross(main) + parts[p].gross + f
        /\ Gross(l) + TakenBy(Q) <= WorthOf(ordered)
    BY <1>1, <1>4, <1>5, <1>7, <1>8, <2>2, <2>4, <2>6, <2>7, BooksAfterVoid
  <2>9. /\ DueOf(main) = Gross(main) /\ CollectedOf(main, parts) = TakenBy(parts)
        /\ DueOf(l) = Gross(l) /\ CollectedOf(l, Q) = TakenBy(Q)
        /\ TakenBy(parts) \in Nat /\ Gross(main) \in Int /\ Gross(l) \in Int
        /\ main.disc \in Nat /\ l.disc \in Nat
    BY <1>1, <1>3, <2>2, <2>4, <2>7, BillOfOpen
  <2>10. PICK f \in 0..Tolerance : Gross(l) = Gross(main) + parts[p].gross + f
    BY <2>8
  <2>11. l.disc \in 0..MostOff
    BY <1>3, <2>2, <2>9, SplitAssumption
  <2>12. B!Next
    <3>1. /\ DueOf(l) = DueOf(main) + parts[p].gross + f
          /\ CollectedOf(l, Q) = CollectedOf(main, parts) - parts[p].gross
          /\ CollectedOf(l, Q) >= 0 /\ DueOf(l) + CollectedOf(l, Q) <= WorthOf(ordered)
      BY <1>9, <2>8, <2>9, <2>10
    <3> QED
      BY <1>2, <1>11, <2>2, <2>7, <2>11, <3>1, ReturnIs
  <2> QED
    BY <1>2, <2>2, <2>8, <2>12
<1>13. CASE ~r.restores
  <2>1. main' = main /\ ~IsLive(main)
    BY <1>6, <1>13 DEF CommitVoid
  <2>2. NotNegative(Gross(main)) \in Nat
    BY <1>1, BillOfOpen DEF NotNegative
  <2>3. TakenBy(parts) \in Nat
    BY <1>1, BillOfOpen
  <2>4. /\ CollectedOf(main, Q) = CollectedOf(main, parts) - parts[p].gross
        /\ CollectedOf(main, Q) >= 0
    BY <1>9, <2>2, <2>3 DEF CollectedOf
  <2>5. Kept(main, Q, ordered, G, b)
    BY <1>10, <2>1 DEF Kept
  <2>6. Books(main, Q, ordered)
    BY <2>5 DEF Books
  <2>7. B!Next
    BY <1>2, <1>11, <2>1, <2>4, RefundIs
  <2> QED
    BY <1>2, <2>1, <2>6, <2>7
<1> QED
  BY <1>12, <1>13

LEMMA EditIsBilled ==
  ASSUME DiscountKept, ListedInv, Books(main, parts, ordered), NEW h \in Handlers, CommitEdit(h)
  PROVE  Books(main', parts', ordered') /\ B!Next
<1> DEFINE l == req[h].left
           n == Price * Cardinality(l.units) - Price * Cardinality(main.units)
<1>1. /\ Rightful(main, parts, uses, req) /\ req[h] \in Requests
      /\ parts \in [Parts -> PartRow] /\ main \in MainRow /\ main.disc <= MostOff
      /\ Whole(main, parts, ordered)
  BY DEF ListedInv, SplitInv, Rightful, Typed, Discounted
<1>2. /\ req[h].op = "edit" /\ main.st = "open" /\ req[h].fresh /\ parts' = parts /\ main' = l
      /\ ordered' = (ordered \ req[h].main.units) \cup req[h].list
  BY DEF CommitEdit, Unchanged, WriteMain
<1>3. l \in MainRow /\ req[h].main = main /\ EditSound(req[h], parts)
  <2>1. req[h] \in EditRequest /\ req[h] # Idle
    BY <1>1, <1>2, KindsOfRequests
  <2>2. Sound(req[h], main, parts)
    BY <1>1 DEF Rightful
  <2> QED
    BY <1>2, <2>1, <2>2 DEF Sound, EditRequest
<1>4. /\ l = [main EXCEPT !.units = l.units, !.disc = l.disc] /\ l.disc <= main.disc
      /\ \A p \in PaidOf(parts) : \A u \in parts[p].units : u \notin l.units
      /\ req[h].list = l.units
  BY <1>2, <1>3 DEF EditSound
<1>5. l.st = "open" /\ l.credits = main.credits
  BY <1>1, <1>2, <1>4 DEF MainRow
<1>6. PICK G \in [Parts -> Nat], b \in [Parts -> Nat] : Kept(main, parts, ordered, G, b)
  BY DEF Books
<1>7. IsLive(main) /\ IsLive(l)
  BY <1>2, <1>5 DEF IsLive
<1>8. /\ DueOf(main) = Gross(main) /\ CollectedOf(main, parts) = TakenBy(parts)
      /\ DueOf(l) = Gross(l) /\ CollectedOf(l, parts) = TakenBy(parts)
      /\ TakenBy(parts) \in Nat /\ Gross(main) \in Int /\ Gross(l) \in Int
      /\ main.disc \in Nat /\ l.disc \in Nat
  BY <1>1, <1>3, <1>7, BillOfOpen
<1>9. /\ main.units \in SUBSET Units /\ l.units \in SUBSET Units
      /\ main.credits \in Seq(Credit) /\ l.credits \in Seq(Credit)
  BY <1>1, <1>3 DEF MainRow
<1> HIDE DEF l
<1>10. /\ WorthOf(main.units) \in 0..TheMost /\ WorthOf(l.units) \in 0..TheMost
       /\ n = WorthOf(l.units) - WorthOf(main.units) /\ TheMost \in Nat
  BY <1>9, Subsets, UnitsCounted DEF WorthOf, TheMost
<1> HIDE DEF n
<1>11. n \in -TheMost..TheMost
  BY <1>10
<1>12. Gross(l) = Gross(main) + n
  <2>1. /\ Gross(main) = WorthOf(main.units) - Credited(main.credits)
        /\ Gross(l) = WorthOf(l.units) - Credited(main.credits)
        /\ Credited(main.credits) \in Nat
    BY <1>5, <1>8, <1>9, GrossIs, CreditSumIs DEF WorthOf
  <2> QED
    BY <1>10, <2>1
<1>13. WorthOf(ordered') = WorthOf(ordered) + n /\ WorthOf(ordered) \in Nat /\ WorthOf(ordered') \in Nat
  <2> DEFINE rest == ordered \ main.units
  <2>1. /\ ordered \in SUBSET Units /\ main.units \in SUBSET ordered
        /\ \A u \in rest : \E p \in PaidOf(parts) : u \in parts[p].units
    BY <1>1, <1>7 DEF Whole
  <2>2. rest \in SUBSET Units /\ rest \cap l.units = {} /\ ordered' = rest \cup l.units
    BY <1>2, <1>3, <1>4, <2>1
  <2>3. WorthOf(rest) = WorthOf(ordered) - WorthOf(main.units)
    BY <2>1, UnitsMoved DEF WorthOf
  <2> HIDE DEF rest
  <2>4. WorthOf(ordered') = WorthOf(rest) + WorthOf(l.units)
    BY <1>9, <2>2, UnitsJoined
  <2>5. WorthOf(ordered) \in Nat /\ WorthOf(rest) \in Nat
    BY <2>1, <2>2, Subsets DEF WorthOf
  <2> QED
    BY <1>10, <2>3, <2>4, <2>5
<1>14. Kept(l, parts, ordered', G, b)
  <2>1. /\ Gross(main) + SumOver(G, PaidOf(parts)) = WorthOf(ordered)
        /\ Takes(parts, G) /\ Entered(main.credits, parts, G, b)
    BY <1>6, <1>7 DEF Kept, AddsUp
  <2>2. SumOver(G, PaidOf(parts)) \in Nat
    BY <1>1, <2>1, TakenIs
  <2>3. Gross(l) + SumOver(G, PaidOf(parts)) = WorthOf(ordered')
    BY <1>8, <1>11, <1>12, <1>13, <2>1, <2>2
  <2> QED
    BY <1>5, <2>1, <2>3 DEF Kept, AddsUp
<1>15. l.disc \in 0..MostOff
  BY <1>1, <1>4, <1>8, SplitAssumption
<1>16. DueOf(l) = DueOf(main) + n /\ CollectedOf(l, parts) = CollectedOf(main, parts)
  BY <1>8, <1>12
<1>17. B!Next
  <2>1. main' = l /\ parts' = parts
    BY <1>2
  <2>2. /\ IsLive(main') /\ main'.disc \in 0..MostOff
        /\ DueOf(main') = DueOf(main) + n
        /\ CollectedOf(main', parts') = CollectedOf(main, parts)
    BY <2>1, <1>7, <1>15, <1>16
  <2>3. WorthOf(ordered') = WorthOf(ordered) + n /\ WorthOf(ordered') >= 0
    BY <1>13
  <2> QED
    BY <1>7, <1>11, <2>2, <2>3, OrderIs
<1> QED
  BY <1>2, <1>14, <1>17 DEF Books

LEMMA FinalizeIsBilled ==
  ASSUME DiscountKept, SplitInv, Books(main, parts, ordered), NEW h \in Handlers, CommitFinalize(h)
  PROVE  Books(main', parts', ordered') /\ B!Next
<1> DEFINE l == req[h].left
<1>1. /\ Rightful(main, parts, uses, req) /\ req[h] \in Requests
      /\ parts \in [Parts -> PartRow] /\ main \in MainRow /\ main.disc <= MostOff
  BY DEF SplitInv, Rightful, Typed, Discounted
<1>2. /\ req[h].op = "finalize" /\ main.st = "open" /\ req[h].fresh /\ parts' = parts /\ main' = l
      /\ ordered' = ordered
  BY DEF CommitFinalize, Unchanged, WriteMain
<1>3. l \in MainRow /\ req[h].main = main /\ FinalizeSound(req[h])
  <2>1. req[h] \in FinalRequest /\ req[h] # Idle
    BY <1>1, <1>2, KindsOfRequests
  <2>2. Sound(req[h], main, parts)
    BY <1>1 DEF Rightful
  <2> QED
    BY <1>2, <2>1, <2>2 DEF Sound, FinalRequest
<1>4. /\ l = [main EXCEPT !.st = "invoiced", !.coupon = l.coupon, !.rec = l.coupon, !.disc = l.disc]
      /\ l.disc <= main.disc
  BY <1>2, <1>3 DEF FinalizeSound
<1>5. l.st = "invoiced" /\ l.credits = main.credits /\ l.units = main.units
  BY <1>1, <1>2, <1>4 DEF MainRow
<1>6. PICK G \in [Parts -> Nat], b \in [Parts -> Nat] : Kept(main, parts, ordered, G, b)
  BY DEF Books
<1> HIDE DEF l
<1>7. IsLive(main) /\ ~IsLive(l)
  BY <1>2, <1>5 DEF IsLive
<1>8. /\ DueOf(main) = Gross(main) /\ CollectedOf(main, parts) = TakenBy(parts)
      /\ TakenBy(parts) \in Nat /\ Gross(main) \in Int /\ main.disc \in Nat /\ l.disc \in Nat
  BY <1>1, <1>3, <1>7, BillOfOpen
<1>9. Gross(l) = Gross(main)
  BY <1>5 DEF Gross, CreditSum
<1>10. DueOf(l) = 0 /\ CollectedOf(l, parts) = CollectedOf(main, parts) + NotNegative(DueOf(main))
  BY <1>5, <1>7, <1>8, <1>9 DEF DueOf, CollectedOf
<1>11. Kept(l, parts, ordered, G, b)
  BY <1>6, <1>7 DEF Kept
<1>12. l.disc \in 0..MostOff
  BY <1>1, <1>4, <1>8, SplitAssumption
<1>13. B!Next
  BY <1>2, <1>7, <1>8, <1>10, <1>12, CloseIs
<1> QED
  BY <1>2, <1>11, <1>13 DEF Books

LEMMA CancelIsBilled ==
  ASSUME SplitInv, Books(main, parts, ordered), NEW h \in Handlers, CommitCancel(h)
  PROVE  Books(main', parts', ordered') /\ (B!Next \/ UNCHANGED B!billVars)
<1> DEFINE l == [main EXCEPT !.st = "cancelled"]
<1>1. parts \in [Parts -> PartRow] /\ main \in MainRow
  BY DEF SplitInv, Rightful, Typed
<1>2. parts' = parts /\ main' = l /\ ordered' = ordered
  BY DEF CommitCancel, WriteMain
<1>3. /\ l \in MainRow /\ l.st = "cancelled" /\ l.credits = main.credits /\ l.units = main.units
      /\ l.disc = main.disc
  BY <1>1 DEF MainRow
<1> HIDE DEF l
<1>4. PICK G \in [Parts -> Nat], b \in [Parts -> Nat] : Kept(main, parts, ordered, G, b)
  BY DEF Books
<1>5. ~IsLive(l)
  BY <1>3 DEF IsLive
<1>6. Books(l, parts, ordered)
  <2>1. Kept(l, parts, ordered, G, b)
    BY <1>4, <1>5 DEF Kept
  <2> QED
    BY <2>1 DEF Books
<1> DEFINE left == NotNegative(Gross(main))
<1>7. TakenBy(parts) \in Nat /\ Gross(main) \in Int /\ left \in Nat /\ (left # 0 => left = Gross(main))
  BY <1>1, BillOfOpen DEF NotNegative
<1>8. DueOf(l) = 0 /\ CollectedOf(l, parts) = TakenBy(parts)
  BY <1>3, <1>5, <1>7 DEF DueOf, CollectedOf
<1>9. CASE IsLive(main)
  <2>1. CollectedOf(main, parts) = TakenBy(parts)
    BY <1>1, <1>9, BillOfOpen
  <2>2. B!Next
    BY <1>2, <1>3, <1>5, <1>8, <1>9, <2>1, WriteOffIs
  <2> QED
    BY <1>2, <1>6, <2>2
<1>10. CASE ~IsLive(main) /\ main.st = "invoiced" /\ left # 0
  <2>1. CollectedOf(main, parts) = TakenBy(parts) + left
    BY <1>10 DEF CollectedOf
  <2>2. left \in 1..TheMost
    <3>1. Gross(main) <= TheMost /\ TheMost \in Nat
      BY <1>1, GrossIs, UnitsCounted DEF MainRow, TheMost
    <3> QED
      BY <1>7, <1>10, <3>1
  <2> HIDE DEF left
  <2>3. CollectedOf(l, parts) = CollectedOf(main, parts) - left /\ CollectedOf(l, parts) >= 0
    BY <1>7, <1>8, <2>1
  <2>4. B!Next
    BY <1>2, <1>3, <1>5, <1>10, <2>2, <2>3, RefundIs
  <2> QED
    BY <1>2, <1>6, <2>4
<1>11. CASE ~IsLive(main) /\ (main.st # "invoiced" \/ left = 0)
  <2>1. CollectedOf(main, parts) = TakenBy(parts) /\ DueOf(main) = 0
    BY <1>7, <1>11 DEF CollectedOf, DueOf
  <2>2. IsLive(l) = IsLive(main)
    BY <1>5, <1>11 DEF IsLive
  <2>3. UNCHANGED B!billVars
    BY <1>2, <1>3, <1>8, <2>1, <2>2, StutterIs
  <2> QED
    BY <1>2, <1>6, <2>3
<1> QED
  BY <1>9, <1>10, <1>11

\* The other steps of a handler leave the rows alone.
LEMMA OthersAreNotBilled ==
  ASSUME Books(main, parts, ordered), main' = main, parts' = parts, ordered' = ordered
  PROVE  Books(main', parts', ordered') /\ UNCHANGED B!billVars
<1>1. UNCHANGED B!billVars
  BY StutterIs
<1> QED
  BY <1>1

LEMMA BilledStep ==
  ASSUME DiscountKept, CleanNames, ListedInv, Books(main, parts, ordered), [Next]_vars
  PROVE  Books(main', parts', ordered') /\ [B!Next]_B!billVars
<1>0. SplitInv
  BY DEF ListedInv
<1>1. ASSUME NEW h \in Handlers, Collections(h)
      PROVE  Books(main', parts', ordered') /\ [B!Next]_B!billVars
  <2>1. CASE BeginSplitItems(h) \/ BeginSplitAmount(h) \/ BeginFinalize(h)
    <3>1. main' = main /\ parts' = parts /\ ordered' = ordered
      BY <2>1 DEF BeginSplitItems, BeginSplitAmount, BeginFinalize, BeginSplit, Begin
    <3> QED
      BY <3>1, OthersAreNotBilled
  <2>2. ASSUME NEW p \in Parts, CommitSplit(h, p)
        PROVE  Books(main', parts', ordered') /\ [B!Next]_B!billVars
    BY <1>0, <2>2, SplitIsBilled
  <2>3. CASE CommitFinalize(h)
    BY <1>0, <2>3, FinalizeIsBilled
  <2> QED
    BY <1>1, <2>1, <2>2, <2>3 DEF Collections
<1>2. ASSUME NEW h \in Handlers, Cancellations(h)
      PROVE  Books(main', parts', ordered') /\ [B!Next]_B!billVars
  <2>1. CASE (\E p \in Parts : BeginVoid(h, p)) \/ ReadMain(h) \/ BeginCancel(h)
    <3>1. main' = main /\ parts' = parts /\ ordered' = ordered
      BY <2>1 DEF BeginVoid, ReadMain, BeginCancel, Begin
    <3> QED
      BY <3>1, OthersAreNotBilled
  <2>2. CASE CommitVoid(h)
    BY <2>2, VoidIsBilled
  <2>3. CASE CommitCancel(h)
    BY <1>0, <2>3, CancelIsBilled
  <2> QED
    BY <1>2, <2>1, <2>2, <2>3 DEF Cancellations
<1>3. ASSUME NEW h \in Handlers, BeginEdit(h) \/ Reject(h)
      PROVE  Books(main', parts', ordered') /\ [B!Next]_B!billVars
  <2>1. main' = main /\ parts' = parts /\ ordered' = ordered
    BY <1>3 DEF BeginEdit, Reject, Begin
  <2> QED
    BY <2>1, OthersAreNotBilled
<1>4. ASSUME NEW h \in Handlers, CommitEdit(h)
      PROVE  Books(main', parts', ordered') /\ [B!Next]_B!billVars
  BY <1>4, EditIsBilled
<1>5. CASE Touch \/ UNCHANGED vars
  <2>1. main' = main /\ parts' = parts /\ ordered' = ordered
    BY <1>5 DEF Touch, vars
  <2> QED
    BY <2>1, OthersAreNotBilled
<1> QED
  BY <1>1, <1>2, <1>3, <1>4, <1>5 DEF Next

LEMMA BilledInit ==
  ASSUME Init
  PROVE  Books(main, parts, ordered) /\ B!Init
<1>0. SplitInv
  BY SplitInvInit DEF ListedInv
<1>1. main \in MainRow /\ parts \in [Parts -> PartRow]
  BY <1>0 DEF SplitInv, Rightful, Typed
<1>2. PICK units \in (SUBSET Units) \ {{}} :
        main = [st |-> "open", units |-> units, credits |-> <<>>,
                disc |-> FullDiscount(units), coupon |-> TRUE, rec |-> FALSE]
  BY DEF Init
<1>3. /\ main.st = "open" /\ main.units = units /\ main.credits = <<>>
      /\ main.disc = FullDiscount(units) /\ units \in SUBSET Units
  BY <1>2
<1>4. \A p \in Parts : parts[p] = NoPart
  BY DEF Init
<1>5. NoPart.st = "absent" /\ NoPart.units = {}
  BY DEF NoPart
<1>6. IsLive(main) /\ PaidOf(parts) = {} /\ Payers(parts) = {}
  BY <1>3, <1>4, <1>5 DEF IsLive, PaidOf, Payers
<1>7. Gross(main) = Price * Cardinality(units)
  <2>1. Gross(main) = Price * Cardinality(main.units) - Credited(main.credits)
    BY <1>1, GrossIs DEF MainRow
  <2>2. Price * Cardinality(units) \in Nat
    BY <1>3, Subsets
  <2> QED
    BY <1>3, <2>1, <2>2, NoCredits
<1>8. /\ Price * Cardinality(units) \in 0..TheMost
      /\ FullDiscount(units) \in Nat /\ FullDiscount(units) <= MostOff /\ MostOff \in Nat
      /\ FullDiscount(units) <= Price * Cardinality(units)
  <2>1. /\ Price * Cardinality(units) \in Nat /\ TheMost \in Nat
        /\ Price * Cardinality(units) <= TheMost
    BY <1>3, Subsets, UnitsCounted DEF TheMost
  <2>2. /\ FullDiscount(units) \in Nat /\ FullDiscount(units) <= MostOff /\ MostOff \in Nat
        /\ FullDiscount(units) = IF MostOff <= Price * Cardinality(units) THEN MostOff
                                 ELSE Price * Cardinality(units)
    BY <1>3, FullIs
  <2> QED
    BY <2>1, <2>2
<1>9. WorthOf(ordered) = Price * Cardinality(units)
  BY <1>3 DEF WorthOf, Init
<1> DEFINE none == [p \in Parts |-> 0]
<1>10. none \in [Parts -> Nat] /\ SumOver(none, {}) = 0 /\ SumOver(Grosses(parts), {}) = 0
  <2>1. none \in [Parts -> Nat] /\ none \in [Parts -> Int] /\ {} \in SUBSET Parts
    OBVIOUS
  <2>2. Grosses(parts) \in [Parts -> Int]
    BY <1>1, UnitsCounted DEF Grosses, PartRow
  <2> HIDE DEF none
  <2> QED
    BY <2>1, <2>2, SplitAssumption, SumFacts
<1> HIDE DEF none
<1>11. Kept(main, parts, ordered, none, none)
  <2>1. Takes(parts, none) /\ Entered(main.credits, parts, none, none)
    BY <1>3, <1>6 DEF Takes, Entered
  <2>2. AddsUp(main, parts, ordered, none)
    BY <1>6, <1>7, <1>8, <1>9, <1>10 DEF AddsUp
  <2> QED
    BY <2>1, <2>2 DEF Kept
<1>12. TakenBy(parts) = 0
  BY <1>6, <1>10 DEF TakenBy
<1>13. DueOf(main) = Gross(main) /\ CollectedOf(main, parts) = 0
  BY <1>1, <1>6, <1>12, BillOfOpen
<1>14. B!Init
  BY <1>3, <1>6, <1>7, <1>8, <1>9, <1>13, BillIs DEF B!Init, B!Off, TheMost
<1> QED
  BY <1>10, <1>11, <1>14 DEF Books

-----------------------------------------------------------------------------
(* Theorems *)

\* The rows and the counter stay within their bounds when clients send the discount of every
\* edit: discountAmount, currentUses, and a credit for each part at most (splitCheckout).
THEOREM SplitTyped ==
  ASSUME DiscountKept
  PROVE  Spec => []TypeOK
<1>1. ListedInv => TypeOK
  <2> SUFFICES ASSUME ListedInv PROVE TypeOK
    OBVIOUS
  <2>1. /\ main \in MainRow /\ Len(main.credits) <= Cardinality(UsedOf(parts))
        /\ parts \in [Parts -> PartRow]
        /\ uses \in Nat /\ uses <= Cardinality(UsedOf(parts)) + IF main.rec THEN 1 ELSE 0
        /\ req \in [Handlers -> Requests] /\ ordered \in SUBSET Units
    BY DEF ListedInv, Whole, SplitInv, Rightful, Typed
  <2>2. main.disc <= MostOff /\ \A p \in Parts : parts[p].disc <= MostOff
    BY DEF ListedInv, SplitInv, Rightful, Discounted
  <2>3. MostOff \in Nat /\ IsFiniteSet(Parts)
    BY SplitAssumption
  <2>4. /\ Cardinality(UsedOf(parts)) \in Nat /\ Cardinality(Parts) \in Nat
        /\ Cardinality(UsedOf(parts)) <= Cardinality(Parts)
    BY <2>3, FS_Subset, FS_CardinalityType DEF UsedOf
  <2>5. main \in Main
    BY <2>1, <2>2, <2>3 DEF MainRow, Main, Discounts
  <2>6. parts \in [Parts -> Part]
    BY <2>1, <2>2, <2>3 DEF PartRow, Part, Discounts
  <2>7. Len(main.credits) \in Nat
    BY <2>1, WorthsTyped DEF MainRow
  <2>8. Len(main.credits) <= Cardinality(Parts) /\ uses \in 0..(Cardinality(Parts) + 1)
    BY <2>1, <2>4, <2>7
  <2> QED
    BY <2>1, <2>5, <2>6, <2>8 DEF TypeOK
<1> QED
  BY <1>1, SplitAlways, PTL

\* Whatever is split, edited and cancelled by handlers in flight together, a unit that was
\* ordered, and not withdrawn by an edit since, is on the main account or on one part that has
\* paid, as long as the main account can be paid; and nothing else is (subtractSubAccountItems,
\* updateItems, prepareSplitCancellationRestore).
THEOREM UnitsAreConserved == Spec => []UnitsConserved
<1>1. ListedInv => UnitsConserved
  <2> SUFFICES ASSUME ListedInv PROVE UnitsConserved
    OBVIOUS
  <2>1. UnitsApart(main, parts) /\ Whole(main, parts, ordered)
    BY DEF ListedInv, SplitInv, Rightful
  <2>2. Paid = PaidOf(parts) /\ (Live <=> IsLive(main))
    BY DEF Paid, PaidOf, Live, IsLive
  <2>3. \A p, q \in Paid : p # q => parts[p].units \cap parts[q].units = {}
    BY <2>1, <2>2 DEF UnitsApart
  <2>4. ASSUME Live
        PROVE  /\ \A p \in Paid : parts[p].units \cap main.units = {}
               /\ main.units \cup UNION {parts[p].units : p \in Paid} = ordered
    <3>1. \A p \in Paid : parts[p].units \cap main.units = {}
      BY <2>1, <2>2, <2>4 DEF UnitsApart
    <3>2. \A u : u \in ordered <=> u \in main.units \/ \E p \in Paid : u \in parts[p].units
      BY <2>1, <2>2, <2>4 DEF Whole
    <3> QED
      BY <3>1, <3>2
  <2> QED
    BY <2>3, <2>4 DEF UnitsConserved
<1> QED
  BY <1>1, SplitAlways, PTL

\* A use of the coupon is counted as long as a part has paid with it, and another for the
\* invoice of the rest (registerUsage, the passing on of couponConsumptionRecorded).
THEOREM CouponIsCovered == Spec => []CouponCovered
<1>1. ListedInv => CouponCovered
  BY DEF ListedInv, SplitInv, Rightful, Covered, CouponCovered, Paid, PaidOf, Typed
<1> QED
  BY <1>1, SplitAlways, PTL

\* When the cancellation of an open account overlaps nothing, no part of a cancelled account
\* is paid (the look for paid parts before a cancellation).
THEOREM NoPaidPartLeft ==
  ASSUME Isolated
  PROVE  Spec => []NoPaidPartOfCancelled
<1>1. ListedInv => NoPaidPartOfCancelled
  BY DEF ListedInv, SplitInv, Rightful, NoneLeft, NoPaidPartOfCancelled, Paid, PaidOf
<1> QED
  BY <1>1, SplitAlways, PTL

\* When clients send the discount of every edit, the parts and the main account never share out
\* more than the coupon gives (buildSplitDiscount, the adjustment of the main account).
THEOREM DiscountStaysWithin ==
  ASSUME DiscountKept
  PROVE  Spec => []DiscountWithin
<1>1. ListedInv => DiscountWithin
  <2> SUFFICES ASSUME ListedInv PROVE DiscountWithin
    OBVIOUS
  <2>1. Shared(main, parts)
    BY DEF ListedInv, SplitInv, Rightful, Discounted
  <2>2. Paid = PaidOf(parts) /\ Paid \in SUBSET Parts
    BY DEF Paid, PaidOf
  <2>3. MapThenSumSet(LAMBDA p : parts[p].disc, Paid) = SumOver(Discs(parts), PaidOf(parts))
    BY <2>2, PartSums
  <2> QED
    BY <2>1, <2>3 DEF Shared, DiscountWithin, PartSum
<1> QED
  BY <1>1, SplitAlways, PTL

\* The money of a bill is accounted for.  However a bill is split, edited, finalized and
\* cancelled by handlers in flight together, what is ordered is due, was collected or was
\* forgiven as a remainder, and what is due falls below nothing only by what an edit withdraws:
\* every write of the rows is a step of Bill (splitCheckout, updateItems, finalize,
\* prepareSplitCancellationRestore), when clients send the discount of every edit, and a part
\* that settles with a remainder has its own name.
THEOREM BillIsImplemented ==
  ASSUME DiscountKept, CleanNames
  PROVE  Spec => ImplementsBill
<1> DEFINE Inv == ListedInv /\ Books(main, parts, ordered)
<1>1. Init => Inv /\ B!Init
  BY SplitInvInit, BilledInit
<1>2. Inv /\ [Next]_vars => Inv' /\ [B!Next]_B!billVars
  <2> SUFFICES ASSUME Inv, [Next]_vars
               PROVE  Inv' /\ [B!Next]_B!billVars
    OBVIOUS
  <2>1. ListedInv'
    BY SplitInvStep
  <2>2. Books(main', parts', ordered') /\ [B!Next]_B!billVars
    BY BilledStep
  <2> QED
    BY <2>1, <2>2
<1> QED
  BY <1>1, <1>2, PTL DEF Spec, ImplementsBill, B!Spec
=============================================================================
