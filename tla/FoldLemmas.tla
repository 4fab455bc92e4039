----------------------------- MODULE FoldLemmas -----------------------------
(***************************************************************************)
(* What the proofs of several components need about numbers and sums: the  *)
(* natural numbers have induction and minima, and a sum over a finite      *)
(* function, which the Functions module defines by recursion over sets,    *)
(* changes as its summands do.                                             *)
(***************************************************************************)
EXTENDS Integers, FiniteSets, Functions, FiniteSetTheorems, WellFoundedInduction, TLAPS

-----------------------------------------------------------------------------
(* Natural numbers.                                                        *)

(* A set of natural numbers has a least one.                               *)
LEMMA LeastNatural ==
  ASSUME NEW S \in SUBSET Nat, S # {}
  PROVE  \E n \in S : \A k \in S : n <= k
<1> DEFINE R == {ss \in Nat \X Nat : ss[1] < ss[2]}
<1>1. IsWellFoundedOn(R, Nat)
  BY NatLessThanWellFounded DEF OpToRel
<1>2. PICK n \in S : \A k \in S : ~(<<k, n>> \in R)
  BY <1>1, WFMin
<1>3. ASSUME NEW k \in S
      PROVE  n <= k
  <2>1. <<k, n>> \in Nat \X Nat
    OBVIOUS
  <2>2. ~(k < n)
    BY <1>2, <2>1
  <2> QED
    BY <2>2
<1> QED
  BY <1>3

(* A bounded set of natural numbers has a largest one.                     *)
LEMMA LargestNatural ==
  ASSUME NEW S \in SUBSET Nat, S # {}, NEW b \in Nat, \A x \in S : x <= b
  PROVE  \E n \in S : \A k \in S : k <= n
<1> DEFINE T == {b - n : n \in S}
<1>1. T \in SUBSET Nat /\ T # {}
  <2>1. \A n \in S : b - n \in Nat
    OBVIOUS
  <2> QED
    BY <2>1
<1>2. PICK t \in T : \A k \in T : t <= k
  BY <1>1, LeastNatural
<1>3. PICK n \in S : t = b - n
  BY <1>2
<1>4. ASSUME NEW k \in S
      PROVE  k <= n
  <2>1. b - k \in T
    OBVIOUS
  <2>2. b - n <= b - k
    BY <1>2, <1>3, <2>1
  <2>3. n \in Nat /\ k \in Nat
    OBVIOUS
  <2> QED
    BY <2>2, <2>3
<1> QED
  BY <1>4

(* Induction, over a set instead of a predicate.                           *)
LEMMA NaturalInduction ==
  ASSUME NEW S, 0 \in S, \A n \in Nat : n \in S => n + 1 \in S
  PROVE  \A n \in Nat : n \in S
<1> DEFINE Others == {n \in Nat : n \notin S}
<1>1. ASSUME Others # {}
      PROVE  FALSE
  <2>1. PICK n \in Others : \A k \in Others : n <= k
    BY <1>1, LeastNatural
  <2>2. n # 0 /\ n - 1 \in Nat /\ ~(n <= n - 1)
    BY <2>1
  <2>3. n - 1 \in S
    BY <2>1, <2>2
  <2> QED
    BY <2>1, <2>2, <2>3
<1> QED
  BY <1>1

-----------------------------------------------------------------------------
(* Sums.                                                                   *)

(* How the library adds up: an element that CHOOSE picks, then the rest.   *)
Picked(s) == CHOOSE x \in s : TRUE

LEMMA PickedIsIn ==
  ASSUME NEW S, IsFiniteSet(S), NEW s \in SUBSET S, s # {}
  PROVE  /\ Picked(s) \in s
         /\ s \ {Picked(s)} \in SUBSET S
         /\ Cardinality(s \ {Picked(s)}) = Cardinality(s) - 1
<1>1. IsFiniteSet(s)
  BY FS_Subset
<1>2. Picked(s) \in s
  BY DEF Picked
<1> QED
  BY <1>1, <1>2, FS_RemoveElement

AddsUp(g, f, S) ==
  g = [s \in SUBSET S |-> IF s = {} THEN 0 ELSE f[Picked(s)] + g[s \ {Picked(s)}]]

(* There is a function that adds up, built for larger and larger sets.     *)
LEMMA AddsUpExists ==
  ASSUME NEW S, IsFiniteSet(S), NEW f
  PROVE  \E g : AddsUp(g, f, S)
<1> DEFINE Small(n) == {s \in SUBSET S : Cardinality(s) <= n}
           Adds(g, n) == g = [s \in Small(n) |->
                                IF s = {} THEN 0 ELSE f[Picked(s)] + g[s \ {Picked(s)}]]
           Good == {n \in Nat : \E g : Adds(g, n)}
<1>1. \A s \in SUBSET S : IsFiniteSet(s) /\ Cardinality(s) \in Nat
                          /\ (Cardinality(s) = 0 => s = {})
  BY FS_Subset, FS_CardinalityType, FS_EmptySet
<1>2. \A s \in SUBSET S : s # {} =>
        /\ s \ {Picked(s)} \in SUBSET S
        /\ Cardinality(s \ {Picked(s)}) = Cardinality(s) - 1
  BY PickedIsIn
<1>3. 0 \in Good
  <2> DEFINE g == [s \in Small(0) |-> 0]
  <2>1. \A s \in Small(0) : s = {}
    BY <1>1
  <2>2. Adds(g, 0)
    BY <2>1
  <2> QED
    BY <2>2
<1>4. ASSUME NEW n \in Nat, n \in Good
      PROVE  n + 1 \in Good
  <2>1. PICK g : Adds(g, n)
    BY <1>4
  <2> DEFINE h == [s \in Small(n + 1) |->
                     IF s = {} THEN 0 ELSE f[Picked(s)] + g[s \ {Picked(s)}]]
  <2>2. \A s \in Small(n) : s \in Small(n + 1) /\ h[s] = g[s]
    <3>1. \A s \in Small(n) : s \in Small(n + 1)
      BY <1>1
    <3>2. \A s \in Small(n) : g[s] = IF s = {} THEN 0
                                     ELSE f[Picked(s)] + g[s \ {Picked(s)}]
      <4> HIDE DEF Small
      <4> QED
        BY <2>1
    <3> QED
      BY <3>1, <3>2
  <2>3. \A s \in Small(n + 1) : s # {} => s \ {Picked(s)} \in Small(n)
    BY <1>1, <1>2
  <2>4. \A s \in Small(n + 1) : h[s] = IF s = {} THEN 0
                                      ELSE f[Picked(s)] + h[s \ {Picked(s)}]
    BY <2>2, <2>3
  <2>5. Adds(h, n + 1)
    BY <2>4
  <2>6. \E k : Adds(k, n + 1)
    <3> HIDE DEF h, Adds
    <3> QED
      BY <2>5
  <2>7. n + 1 \in Nat
    OBVIOUS
  <2> QED
    <3> HIDE DEF Adds
    <3> QED
      BY <2>6, <2>7
<1>5. Cardinality(S) \in Good
  <2> HIDE DEF Good
  <2> QED
    BY <1>1, <1>3, <1>4, NaturalInduction
<1>6. Small(Cardinality(S)) = SUBSET S
  BY <1>1, FS_Subset
<1> QED
  BY <1>5, <1>6 DEF AddsUp

(* The library's sum is the last of such sums.                             *)
LEMMA SumAddsUp ==
  ASSUME NEW S, IsFiniteSet(S), NEW f
  PROVE  \E g : AddsUp(g, f, S) /\ SumFunctionOnSet(f, S) = g[S]
<1> DEFINE g == CHOOSE g : AddsUp(g, f, S)
<1>1. AddsUp(g, f, S)
  BY AddsUpExists
<1>2. SumFunctionOnSet(f, S) = g[S]
  BY DEF SumFunctionOnSet, FoldFunctionOnSet, MapThenFoldSet, AddsUp, Picked
<1> QED
  BY <1>1, <1>2

(* Integers add up to one.                                                 *)
LEMMA IntegersAddUp ==
  ASSUME NEW S, IsFiniteSet(S), NEW f \in [S -> Int], NEW g, AddsUp(g, f, S)
  PROVE  g[S] \in Int
<1> DEFINE Good == {n \in Nat : \A s \in SUBSET S : Cardinality(s) = n => g[s] \in Int}
<1>1. \A s \in SUBSET S : IsFiniteSet(s) /\ Cardinality(s) \in Nat
                          /\ (Cardinality(s) = 0 => s = {})
  BY FS_Subset, FS_CardinalityType, FS_EmptySet
<1>2. 0 \in Good
  BY <1>1 DEF AddsUp
<1>3. ASSUME NEW n \in Nat, n \in Good
      PROVE  n + 1 \in Good
  <2>1. ASSUME NEW s \in SUBSET S, Cardinality(s) = n + 1
        PROVE  g[s] \in Int
    <3> DEFINE x == Picked(s)
               t == s \ {x}
    <3>1. s # {} /\ x \in s /\ t \in SUBSET S /\ Cardinality(t) = Cardinality(s) - 1
      BY <2>1, FS_EmptySet, PickedIsIn
    <3>2. Cardinality(t) = n
      <4> HIDE DEF t
      <4> QED
        BY <2>1, <3>1
    <3>3. g[s] = f[x] + g[t] /\ f[x] \in Int
      BY <3>1 DEF AddsUp
    <3>4. g[t] \in Int
      BY <1>3, <3>1, <3>2
    <3> HIDE DEF x, t
    <3> QED
      BY <3>3, <3>4
  <2> QED
    BY <2>1
<1>4. Cardinality(S) \in Good
  <2> HIDE DEF Good
  <2> QED
    BY <1>1, <1>2, <1>3, NaturalInduction
<1> QED
  BY <1>4

(* Changing one value changes the sum by the difference.                   *)
LEMMA SumOfOneMore ==
  ASSUME NEW S, IsFiniteSet(S), NEW f \in [S -> Int], NEW h \in [S -> Int],
         NEW a \in S, \A x \in S \ {a} : h[x] = f[x]
  PROVE  /\ SumFunction(f) \in Int
         /\ SumFunction(h) = SumFunction(f) - f[a] + h[a]
<1>1. PICK F : AddsUp(F, f, S) /\ SumFunctionOnSet(f, S) = F[S]
  BY SumAddsUp
<1>2. PICK H : AddsUp(H, h, S) /\ SumFunctionOnSet(h, S) = H[S]
  BY SumAddsUp
<1> DEFINE Right(s) == /\ F[s] \in Int
                       /\ H[s] = F[s] + (IF a \in s THEN h[a] - f[a] ELSE 0)
           Good == {n \in Nat : \A s \in SUBSET S : Cardinality(s) = n => Right(s)}
<1>3. \A s \in SUBSET S : IsFiniteSet(s) /\ Cardinality(s) \in Nat
                          /\ (Cardinality(s) = 0 => s = {})
  BY FS_Subset, FS_CardinalityType, FS_EmptySet
<1>4. 0 \in Good
  BY <1>1, <1>2, <1>3 DEF AddsUp
<1>5. ASSUME NEW n \in Nat, n \in Good
      PROVE  n + 1 \in Good
  <2>1. ASSUME NEW s \in SUBSET S, Cardinality(s) = n + 1
        PROVE  Right(s)
    <3> DEFINE x == Picked(s)
               t == s \ {x}
    <3>1. s # {} /\ x \in s /\ t \in SUBSET S /\ Cardinality(t) = Cardinality(s) - 1
      BY <2>1, FS_EmptySet, PickedIsIn
    <3>2. t \in SUBSET S /\ Cardinality(t) = n
      <4> HIDE DEF t
      <4> QED
        BY <2>1, <3>1
    <3>3. F[s] = f[x] + F[t] /\ H[s] = h[x] + H[t]
      BY <1>1, <1>2, <3>1 DEF AddsUp
    <3>4. Right(t)
      BY <1>5, <3>2
    <3>5. f[x] \in Int /\ h[x] \in Int /\ f[a] \in Int /\ h[a] \in Int
      BY <3>1
    <3>6. (x = a /\ a \notin t /\ a \in s) \/ (h[x] = f[x] /\ (a \in s <=> a \in t))
      BY <3>1
    <3> HIDE DEF x, t
    <3> QED
      BY <3>3, <3>4, <3>5, <3>6
  <2> HIDE DEF Right
  <2> QED
    BY <2>1
<1>6. Cardinality(S) \in Good
  <2> HIDE DEF Good
  <2> QED
    BY <1>3, <1>4, <1>5, NaturalInduction
<1>7. Right(S)
  BY <1>6
<1> QED
  BY <1>1, <1>2, <1>7 DEF SumFunction

(* Natural numbers add up to one, and to 0 only if all of them are 0.      *)
LEMMA SumOfNaturals ==
  ASSUME NEW S, IsFiniteSet(S), NEW f \in [S -> Nat]
  PROVE  /\ SumFunction(f) \in Nat
         /\ (\A x \in S : f[x] = 0) => SumFunction(f) = 0
<1>1. PICK F : AddsUp(F, f, S) /\ SumFunctionOnSet(f, S) = F[S]
  BY SumAddsUp
<1> DEFINE Right(s) == /\ F[s] \in Nat
                       /\ (\A x \in S : f[x] = 0) => F[s] = 0
           Good == {n \in Nat : \A s \in SUBSET S : Cardinality(s) = n => Right(s)}
<1>2. \A s \in SUBSET S : IsFiniteSet(s) /\ Cardinality(s) \in Nat
                          /\ (Cardinality(s) = 0 => s = {})
  BY FS_Subset, FS_CardinalityType, FS_EmptySet
<1>3. 0 \in Good
  BY <1>1, <1>2 DEF AddsUp
<1>4. ASSUME NEW n \in Nat, n \in Good
      PROVE  n + 1 \in Good
  <2>1. ASSUME NEW s \in SUBSET S, Cardinality(s) = n + 1
        PROVE  Right(s)
    <3> DEFINE x == Picked(s)
               t == s \ {x}
    <3>1. s # {}
      BY <2>1, FS_EmptySet
    <3>2. x \in s /\ t \in SUBSET S /\ Cardinality(t) = Cardinality(s) - 1
      BY <3>1, PickedIsIn
    <3>3. Cardinality(t) = n
      <4> HIDE DEF t
      <4> QED
        BY <2>1, <3>2
    <3>4. Right(t)
      BY <1>4, <3>2, <3>3
    <3>5. F[s] = f[x] + F[t] /\ f[x] \in Nat /\ x \in S
      BY <1>1, <3>1, <3>2 DEF AddsUp
    <3> HIDE DEF x, t
    <3> QED
      BY <3>4, <3>5
  <2> HIDE DEF Right
  <2> QED
    BY <2>1
<1>5. Cardinality(S) \in Good
  <2> HIDE DEF Good
  <2> QED
    BY <1>2, <1>3, <1>4, NaturalInduction
<1>6. Right(S)
  BY <1>5
<1> QED
  BY <1>1, <1>6 DEF SumFunction

(* Larger numbers have a larger sum.                                       *)
LEMMA SumIsMonotone ==
  ASSUME NEW S, IsFiniteSet(S), NEW f \in [S -> Nat], NEW h \in [S -> Nat],
         \A x \in S : f[x] <= h[x]
  PROVE  SumFunction(f) <= SumFunction(h)
<1>1. PICK F : AddsUp(F, f, S) /\ SumFunctionOnSet(f, S) = F[S]
  BY SumAddsUp
<1>2. PICK H : AddsUp(H, h, S) /\ SumFunctionOnSet(h, S) = H[S]
  BY SumAddsUp
<1> DEFINE Right(s) == F[s] \in Nat /\ H[s] \in Nat /\ F[s] <= H[s]
           Good == {n \in Nat : \A s \in SUBSET S : Cardinality(s) = n => Right(s)}
<1>3. \A s \in SUBSET S : IsFiniteSet(s) /\ Cardinality(s) \in Nat
                          /\ (Cardinality(s) = 0 => s = {})
  BY FS_Subset, FS_CardinalityType, FS_EmptySet
<1>4. 0 \in Good
  BY <1>1, <1>2, <1>3 DEF AddsUp
<1>5. ASSUME NEW n \in Nat, n \in Good
      PROVE  n + 1 \in Good
  <2>1. ASSUME NEW s \in SUBSET S, Cardinality(s) = n + 1
        PROVE  Right(s)
    <3> DEFINE x == Picked(s)
               t == s \ {x}
    <3>1. s # {}
      BY <2>1, FS_EmptySet
    <3>2. x \in s /\ t \in SUBSET S /\ Cardinality(t) = Cardinality(s) - 1
      BY <3>1, PickedIsIn
    <3>3. Cardinality(t) = n
      <4> HIDE DEF t
      <4> QED
        BY <2>1, <3>2
    <3>4. Right(t)
      BY <1>5, <3>2, <3>3
    <3>5. /\ F[s] = f[x] + F[t] /\ H[s] = h[x] + H[t]
          /\ f[x] \in Nat /\ h[x] \in Nat /\ f[x] <= h[x]
      BY <1>1, <1>2, <3>1, <3>2 DEF AddsUp
    <3> HIDE DEF x, t
    <3> QED
      BY <3>4, <3>5
  <2> HIDE DEF Right
  <2> QED
    BY <2>1
<1>6. Cardinality(S) \in Good
  <2> HIDE DEF Good
  <2> QED
    BY <1>3, <1>4, <1>5, NaturalInduction
<1>7. Right(S)
  BY <1>6
<1> QED
  BY <1>1, <1>2, <1>7 DEF SumFunction

(* No summand is larger than the sum.                                      *)
LEMMA SumCoversEach ==
  ASSUME NEW S, IsFiniteSet(S), NEW f \in [S -> Nat], NEW a \in S
  PROVE  f[a] <= SumFunction(f)
<1> DEFINE h == [f EXCEPT ![a] = 0]
<1>1. h \in [S -> Nat] /\ h \in [S -> Int] /\ f \in [S -> Int]
      /\ h[a] = 0 /\ \A x \in S \ {a} : h[x] = f[x]
  OBVIOUS
<1> HIDE DEF h
<1>2. SumFunction(h) = SumFunction(f) - f[a] + h[a]
  BY <1>1, SumOfOneMore
<1>3. SumFunction(h) \in Nat /\ SumFunction(f) \in Nat /\ f[a] \in Nat
  BY <1>1, SumOfNaturals
<1> QED
  BY <1>1, <1>2, <1>3
-----------------------------------------------------------------------------
(* The last elements of finite sets of numbers, as of the places of a log. *)

(* The n last of some places.                                              *)
After(S, i) == {j \in S : j > i}
Latest(S, n) == {i \in S : Cardinality(After(S, i)) < n}

LEMMA InAfter == ASSUME NEW S, NEW i, NEW j PROVE j \in After(S, i) <=> j \in S /\ j > i
BY DEF After

LEMMA InLatest ==
  ASSUME NEW S, NEW n, NEW i
  PROVE  i \in Latest(S, n) <=> i \in S /\ Cardinality(After(S, i)) < n
BY DEF Latest

(* More comes after what is earlier.                                       *)
LEMMA AfterShrinks ==
  ASSUME NEW S, \A y \in S : y \in Nat, NEW i \in Nat, NEW x \in Nat, x <= i
  PROVE  After(S, i) \subseteq After(S, x)
BY DEF After

(* Places are a finite set of numbers.                                     *)
LEMMA AfterIsFinite ==
  ASSUME NEW b \in Nat, NEW S \in SUBSET (1..b), NEW i
  PROVE  /\ IsFiniteSet(S) /\ IsFiniteSet(After(S, i))
         /\ Cardinality(S) \in Nat /\ Cardinality(After(S, i)) \in Nat
<1>1. IsFiniteSet(1..b)
  BY FS_Interval
<1>2. After(S, i) \subseteq S
  BY DEF After
<1> QED
  BY <1>1, <1>2, FS_Subset, FS_CardinalityType

(* A page is full or holds everything.                                     *)
LEMMA FullOrAll ==
  ASSUME NEW b \in Nat, NEW S \in SUBSET (1..b), NEW n \in Nat
  PROVE  Latest(S, n) = S \/ Cardinality(Latest(S, n)) >= n
<1> DEFINE Left == {i \in S : Cardinality(After(S, i)) >= n}
<1>1. \A i \in S : Cardinality(After(S, i)) \in Nat /\ i \in Nat /\ i <= b
  BY AfterIsFinite
<1>2. CASE Left = {}
  <2>1. ASSUME NEW i \in S
        PROVE  Cardinality(After(S, i)) < n
    <3>1. i \notin Left
      BY <1>2
    <3>2. Cardinality(After(S, i)) \in Nat
      BY <1>1
    <3> QED
      BY <3>1, <3>2
  <2>2. \A i : i \in Latest(S, n) <=> i \in S
    BY <2>1, InLatest
  <2> QED
    BY <2>2
<1>3. CASE Left # {}
  <2>1. Left \in SUBSET Nat /\ \A i \in Left : i <= b
    BY <1>1
  <2>2. PICK top \in Left : \A i \in Left : i <= top
    <3> HIDE DEF Left
    <3> QED
      BY <1>3, <2>1, LargestNatural
  <2>3. ASSUME NEW i \in After(S, top)
        PROVE  i \in Latest(S, n)
    <3>1. i \in S /\ i > top
      BY InAfter
    <3>2. i \notin Left /\ Cardinality(After(S, i)) \in Nat
      BY <1>1, <2>1, <2>2, <3>1
    <3>3. Cardinality(After(S, i)) < n
      BY <3>1, <3>2
    <3> QED
      BY <3>1, <3>3, InLatest
  <2>4. Latest(S, n) \in SUBSET (1..b)
    BY DEF Latest
  <2>5. /\ IsFiniteSet(Latest(S, n))
        /\ Cardinality(Latest(S, n)) \in Nat /\ Cardinality(After(S, top)) \in Nat
    BY <2>4, AfterIsFinite
  <2>6. Cardinality(After(S, top)) <= Cardinality(Latest(S, n))
    BY <2>3, <2>5, FS_Subset
  <2> QED
    BY <2>2, <2>5, <2>6
<1> QED
  BY <1>2, <1>3

(* What is not on a page is older than a full page.                        *)
LEMMA CutIsOlder ==
  ASSUME NEW b \in Nat, NEW S \in SUBSET (1..b), NEW n \in Nat,
         NEW i \in S, i \notin Latest(S, n)
  PROVE  Cardinality(After(Latest(S, n), i)) >= n
<1>1. Cardinality(After(S, i)) \in Nat /\ Cardinality(After(S, i)) >= n
  <2>1. ~(Cardinality(After(S, i)) < n)
    BY InLatest
  <2>2. Cardinality(After(S, i)) \in Nat
    BY AfterIsFinite
  <2> QED
    BY <2>1, <2>2
<1>2. Latest(S, n) # S
  OBVIOUS
<1>3. Cardinality(Latest(S, n)) >= n
  BY <1>2, FullOrAll
<1>4. ASSUME NEW x \in Latest(S, n)
      PROVE  x > i
  <2>1. SUFFICES ASSUME ~(x > i)
                 PROVE  FALSE
    OBVIOUS
  <2>2. x \in S /\ x \in Nat /\ i \in Nat /\ \A y \in S : y \in Nat
    BY DEF Latest
  <2>3. After(S, i) \subseteq After(S, x)
    <3>1. x <= i
      BY <2>1, <2>2
    <3> QED
      BY <2>2, <3>1, AfterShrinks, Zenon
  <2>4. /\ IsFiniteSet(After(S, x)) /\ Cardinality(After(S, x)) \in Nat
    BY AfterIsFinite
  <2>5. Cardinality(After(S, i)) <= Cardinality(After(S, x))
    BY <2>3, <2>4, FS_Subset
  <2>6. Cardinality(After(S, x)) < n
    BY DEF Latest
  <2> QED
    BY <1>1, <2>4, <2>5, <2>6
<1>5. \A x : x \in After(Latest(S, n), i) <=> x \in Latest(S, n)
  BY <1>4, InAfter
<1>6. After(Latest(S, n), i) = Latest(S, n)
  BY <1>5
<1> QED
  BY <1>3, <1>6

(* Merged from full pages, the newest of all leave nothing out that is     *)
(* newer than one of them, or that there would be room for.                *)
LEMMA MergedHasNoGaps ==
  ASSUME NEW b \in Nat, NEW n \in Nat, NEW M \in SUBSET (1..b),
         NEW S \in SUBSET (1..b), Latest(S, n) \subseteq M, NEW i \in S,
         \/ \E m \in Latest(M, n) : i > m
         \/ Cardinality(Latest(M, n)) < n
  PROVE  i \in Latest(M, n)
<1> DEFINE Few(T) == IsFiniteSet(T) /\ Cardinality(T) \in Nat
<1>1. /\ Few(M) /\ \A m : Few(After(M, m))
      /\ i \in Nat /\ \A x \in M : x \in Nat
  <2>1. Few(M) /\ \A m : Few(After(M, m))
    BY AfterIsFinite
  <2> QED
    BY <2>1
<1> HIDE DEF Few
<1>2. Cardinality(After(M, i)) < n
  <2>1. CASE \E m \in Latest(M, n) : i > m
    <3>1. PICK m \in Latest(M, n) : i > m
      BY <2>1
    <3>2. m \in M /\ Cardinality(After(M, m)) < n
      BY DEF Latest
    <3>3. After(M, i) \subseteq After(M, m)
      <4>1. m \in Nat /\ m <= i
        BY <1>1, <3>1, <3>2
      <4> QED
        BY <1>1, <4>1, AfterShrinks, Zenon
    <3>4. Cardinality(After(M, i)) <= Cardinality(After(M, m))
      BY <1>1, <3>3, FS_Subset DEF Few
    <3> QED
      BY <1>1, <3>2, <3>4 DEF Few
  <2>2. CASE Cardinality(Latest(M, n)) < n
    <3>1. Latest(M, n) \in SUBSET (1..b)
      BY DEF Latest
    <3>2. Cardinality(Latest(M, n)) \in Nat
      BY <3>1, AfterIsFinite
    <3>3. Latest(M, n) = M
      <4>1. ~(Cardinality(Latest(M, n)) >= n)
        BY <2>2, <3>2
      <4> QED
        BY <4>1, FullOrAll
    <3>4. After(M, i) \subseteq M
      BY DEF After
    <3>5. Cardinality(After(M, i)) <= Cardinality(M)
      BY <1>1, <3>4, FS_Subset DEF Few
    <3> QED
      BY <1>1, <2>2, <3>3, <3>5 DEF Few
  <2> QED
    BY <2>1, <2>2
<1>3. i \in Latest(S, n)
  <2>1. SUFFICES ASSUME i \notin Latest(S, n)
                 PROVE  FALSE
    OBVIOUS
  <2>2. Cardinality(After(Latest(S, n), i)) >= n
    BY <2>1, CutIsOlder
  <2>3. After(Latest(S, n), i) \subseteq After(M, i)
    BY DEF After
  <2>4. Latest(S, n) \in SUBSET (1..b)
    BY DEF Latest
  <2>5. Cardinality(After(Latest(S, n), i)) \in Nat
    BY <2>4, AfterIsFinite
  <2>6. Cardinality(After(Latest(S, n), i)) <= Cardinality(After(M, i))
    BY <1>1, <2>3, FS_Subset DEF Few
  <2> QED
    BY <1>1, <1>2, <2>2, <2>5, <2>6 DEF Few
<1> QED
  BY <1>2, <1>3 DEF Latest
=============================================================================
