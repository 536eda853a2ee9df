----------------------------- MODULE DataTheorems ----------------------------
(***************************************************************************)
(* What the proofs need to know of the data the models compute with.       *)
(* SumFunctionOnSet adds f over a finite set, in whatever order it picks   *)
(* the elements; the sums are quantities and amounts of orders             *)
(* (checkout.ts), amounts added to a balance (demo-retry.ts) and publishes *)
(* under way in the relays (outbox/relay.ts).  Selected keeps the chosen   *)
(* elements of a sequence in their order: the scores of a sorted set       *)
(* (ratelimit/), a history (orders/order-events.service.ts), and Ascending *)
(* the rows of a page (products/, orders/).  The induction over finite     *)
(* sets is by a least counterexample, as the set is data.                  *)
(***************************************************************************)
EXTENDS Integers, FiniteSets, FiniteSetTheorems, Functions, FunctionTheorems, Folds,
        SequenceTheorems, WellFoundedInduction, Selection, TLAPS

(* A set of numbers that is not empty has a least one. *)
LEMMA LeastNumber ==
  ASSUME NEW F \in SUBSET Nat, F # {}
  PROVE  \E x \in F : \A y \in F : x <= y
<1> DEFINE less == {ss \in Nat \X Nat : ss[1] < ss[2]}
<1>1. IsWellFoundedOn(less, Nat)  BY NatLessThanWellFounded DEF OpToRel
<1> HIDE DEF less
<1>2. PICK x \in F : \A y \in F : ~(<<y, x>> \in less)  BY <1>1, WFMin
<1>3. ASSUME NEW y \in F PROVE x <= y
  <2>1. x \in Nat /\ y \in Nat  OBVIOUS
  <2>2. y < x => <<y, x>> \in less  BY <2>1 DEF less
  <2> QED  BY <1>2, <2>1, <2>2
<1> QED  BY <1>3

(* A family of subsets of a finite set that is not empty has a smallest one.*)
LEMMA SmallestSet ==
  ASSUME NEW S, IsFiniteSet(S), NEW F \in SUBSET (SUBSET S), F # {}
  PROVE  \E T \in F : \A x \in T : T \ {x} \notin F
<1> DEFINE N == {Cardinality(T) : T \in F}
<1>1. \A T \in F : IsFiniteSet(T) /\ Cardinality(T) \in Nat
  BY FS_Subset, FS_CardinalityType
<1>2. N \in SUBSET Nat /\ N # {}  BY <1>1
<1>3. PICK n \in N : \A m \in N : n <= m  BY <1>2, LeastNumber
<1>4. PICK T \in F : n = Cardinality(T)  BY <1>3
<1>5. ASSUME NEW x \in T, T \ {x} \in F PROVE FALSE
  <2>1. Cardinality(T \ {x}) = Cardinality(T) - 1  BY <1>1, FS_RemoveElement
  <2>2. n <= Cardinality(T \ {x})  BY <1>3, <1>5
  <2> QED  BY <2>1, <2>2, <1>1, <1>4
<1> QED  BY <1>4, <1>5

-----------------------------------------------------------------------------
(* The function by which the sum is defined: it adds the element picked.   *)
Pick(s) == CHOOSE x \in s : TRUE

Adds(g, f, S) ==
  g = [s \in SUBSET S |-> IF s = {} THEN 0 ELSE f[Pick(s)] + g[s \ {Pick(s)}]]

LEMMA SumDef ==
  ASSUME NEW f, NEW S
  PROVE  SumFunctionOnSet(f, S) = (CHOOSE g : Adds(g, f, S))[S]
  BY DEF SumFunctionOnSet, FoldFunctionOnSet, MapThenFoldSet, Adds, Pick

LEMMA AddsAt ==
  ASSUME NEW f, NEW S, NEW g, Adds(g, f, S), NEW s \in SUBSET S
  PROVE  g[s] = IF s = {} THEN 0 ELSE f[Pick(s)] + g[s \ {Pick(s)}]
  BY DEF Adds

(* There is such a function: one for sets of at most n - 1 elements can be *)
(* continued to sets of n.                                                 *)
LEMMA AddsExists ==
  ASSUME NEW f, NEW S, IsFiniteSet(S)
  PROVE  \E g : Adds(g, f, S)
<1> DEFINE Upto(n) == {s \in SUBSET S : Cardinality(s) <= n}
           Next(g, s) == IF s = {} THEN 0 ELSE f[Pick(s)] + g[s \ {Pick(s)}]
           Has(n) == \E g : g = [s \in Upto(n) |-> Next(g, s)]
           Bad == {n \in Nat : ~ Has(n)}
<1>1. \A s \in SUBSET S : IsFiniteSet(s) /\ Cardinality(s) \in Nat
  BY FS_Subset, FS_CardinalityType
<1>2. ASSUME Bad # {} PROVE FALSE
  <2>1. PICK n \in Bad : \A m \in Bad : n <= m
    <3> HIDE DEF Bad
    <3>1. Bad \in SUBSET Nat  BY DEF Bad
    <3> QED  BY <1>2, <3>1, LeastNumber
  <2>2. n # 0
    <3>1. \A s \in Upto(0) : s = {}  BY <1>1, FS_EmptySet
    <3> DEFINE z == [s \in Upto(0) |-> 0]
    <3>2. z = [s \in Upto(0) |-> Next(z, s)]  BY <3>1
    <3>3. Has(0)  BY <3>2
    <3> QED  BY <3>3, ZenonT(30)
  <2>3. n - 1 \in Nat /\ ~ (n <= n - 1)  BY <2>2
  <2>4. Has(n - 1)  BY <2>1, <2>3
  <2>5. PICK g : g = [s \in Upto(n - 1) |-> Next(g, s)]  BY <2>4
  <2> DEFINE h == [s \in Upto(n) |-> Next(g, s)]
  <2>6. \A s \in Upto(n) : s # {} => s \ {Pick(s)} \in Upto(n - 1)
    <3> SUFFICES ASSUME NEW s \in Upto(n), s # {} PROVE s \ {Pick(s)} \in Upto(n - 1)
      OBVIOUS
    <3>1. Pick(s) \in s  BY DEF Pick
    <3>2. Cardinality(s \ {Pick(s)}) = Cardinality(s) - 1  BY <1>1, <3>1, FS_RemoveElement
    <3> QED  BY <1>1, <3>2
  <2>7. \A s \in Upto(n - 1) : s \in Upto(n) /\ h[s] = g[s]
    <3>1. Upto(n - 1) \subseteq Upto(n)  BY <1>1
    <3>2. \A s \in Upto(n - 1) : g[s] = Next(g, s)
      <4> HIDE DEF Next, Upto
      <4> QED  BY <2>5
    <3>3. \A s \in Upto(n) : h[s] = Next(g, s)
      <4> HIDE DEF Next, Upto
      <4> QED  OBVIOUS
    <3> QED  BY <3>1, <3>2, <3>3
  <2>8. \A s \in Upto(n) : Next(g, s) = Next(h, s)
    <3> HIDE DEF h, Upto
    <3> QED  BY <2>6, <2>7
  <2>9. h = [s \in Upto(n) |-> Next(h, s)]
    <3> DEFINE k == [s \in Upto(n) |-> Next(h, s)]
    <3>1. k = [s \in Upto(n) |-> Next(g, s)]
      <4> HIDE DEF h, Next, Upto
      <4> QED  BY <2>8
    <3> QED  BY <3>1
  <2>10. Has(n)
    <3> HIDE DEF h
    <3> QED  BY <2>9
  <2> QED  BY <2>10
<1>3. Has(Cardinality(S))  BY <1>1, <1>2
<1>4. Upto(Cardinality(S)) = SUBSET S  BY <1>1, FS_Subset
<1> QED  BY <1>3, <1>4 DEF Adds

(* Two of them agree wherever the functions they add do. *)
LEMMA AddsAgree ==
  ASSUME NEW f, NEW S, IsFiniteSet(S), NEW g, Adds(g, f, S),
         NEW k, NEW T, IsFiniteSet(T), NEW h, Adds(h, k, T),
         NEW U \in SUBSET (S \intersect T), \A x \in U : f[x] = k[x]
  PROVE  g[U] = h[U]
<1> DEFINE Bad == {s \in SUBSET U : g[s] # h[s]}
<1>1. IsFiniteSet(U)  BY FS_Subset
<1>2. ASSUME Bad # {} PROVE FALSE
  <2> HIDE DEF Bad
  <2>1. Bad \in SUBSET (SUBSET U)  BY DEF Bad
  <2>2. PICK s \in Bad : \A x \in s : s \ {x} \notin Bad  BY <1>1, <1>2, <2>1, SmallestSet
  <2>3. s \in SUBSET U /\ s \in SUBSET S /\ s \in SUBSET T /\ g[s] # h[s]
    BY <2>2 DEF Bad
  <2>4. CASE s = {}  BY <2>3, <2>4, AddsAt
  <2>5. CASE s # {}
    <3>1. Pick(s) \in s  BY <2>5 DEF Pick
    <3>2. g[s \ {Pick(s)}] = h[s \ {Pick(s)}]  BY <2>2, <2>3, <3>1 DEF Bad
    <3>3. f[Pick(s)] = k[Pick(s)]  BY <2>3, <3>1
    <3>4. g[s] = f[Pick(s)] + g[s \ {Pick(s)}]  BY <2>3, <2>5, AddsAt
    <3>5. h[s] = k[Pick(s)] + h[s \ {Pick(s)}]  BY <2>3, <2>5, AddsAt
    <3> QED  BY <2>3, <3>2, <3>3, <3>4, <3>5
  <2> QED  BY <2>4, <2>5
<1> QED  BY <1>2

LEMMA AddsIsSum ==
  ASSUME NEW f, NEW S, IsFiniteSet(S), NEW g, Adds(g, f, S), NEW U \in SUBSET S
  PROVE  g[U] = SumFunctionOnSet(f, U)
<1>1. IsFiniteSet(U)  BY FS_Subset
<1> DEFINE h == CHOOSE h : Adds(h, f, U)
<1>2. Adds(h, f, U)  BY <1>1, AddsExists
<1>3. h[U] = SumFunctionOnSet(f, U)  BY SumDef
<1> HIDE DEF h
<1>4. U \in SUBSET (S \intersect U) /\ \A x \in U : f[x] = f[x]  OBVIOUS
<1>5. g[U] = h[U]  BY <1>1, <1>2, <1>4, AddsAgree
<1> QED  BY <1>3, <1>5

-----------------------------------------------------------------------------
(* The sum over no element. *)
LEMMA SumEmpty == ASSUME NEW f PROVE SumFunctionOnSet(f, {}) = 0
<1>1. PICK g : Adds(g, f, {})  BY FS_EmptySet, AddsExists
<1>2. g[{}] = 0  BY <1>1, AddsAt
<1> QED  BY <1>1, <1>2, FS_EmptySet, AddsIsSum

(* One element is picked, the rest is added. *)
LEMMA SumPicks ==
  ASSUME NEW f, NEW S, IsFiniteSet(S), S # {}
  PROVE  /\ Pick(S) \in S
         /\ SumFunctionOnSet(f, S) = f[Pick(S)] + SumFunctionOnSet(f, S \ {Pick(S)})
<1>1. PICK g : Adds(g, f, S)  BY AddsExists
<1>2. g[S] = f[Pick(S)] + g[S \ {Pick(S)}]  BY <1>1, AddsAt
<1>3. g[S] = SumFunctionOnSet(f, S)  BY <1>1, AddsIsSum
<1>4. \A T \in SUBSET S : g[T] = SumFunctionOnSet(f, T)  BY <1>1, AddsIsSum
<1>5. g[S \ {Pick(S)}] = SumFunctionOnSet(f, S \ {Pick(S)})  BY <1>4
<1> QED  BY <1>2, <1>3, <1>5 DEF Pick

(* A sum of natural numbers is one, and so with integers. *)
LEMMA SumType ==
  ASSUME NEW S, IsFiniteSet(S), NEW f, NEW V \in {Nat, Int}, \A x \in S : f[x] \in V
  PROVE  SumFunctionOnSet(f, S) \in V
<1> DEFINE Bad == {s \in SUBSET S : SumFunctionOnSet(f, s) \notin V}
<1>1. ASSUME Bad # {} PROVE FALSE
  <2> HIDE DEF Bad
  <2>1. Bad \in SUBSET (SUBSET S)  BY DEF Bad
  <2>2. PICK s \in Bad : \A x \in s : s \ {x} \notin Bad  BY <1>1, <2>1, SmallestSet
  <2>3. s \in SUBSET S /\ IsFiniteSet(s) /\ SumFunctionOnSet(f, s) \notin V
    BY <2>2, FS_Subset DEF Bad
  <2>4. s # {}  BY <2>3, SumEmpty
  <2>5. /\ Pick(s) \in s
        /\ SumFunctionOnSet(f, s) = f[Pick(s)] + SumFunctionOnSet(f, s \ {Pick(s)})
    BY <2>3, <2>4, SumPicks
  <2>6. SumFunctionOnSet(f, s \ {Pick(s)}) \in V  BY <2>2, <2>3, <2>5 DEF Bad
  <2>7. f[Pick(s)] \in V  BY <2>3, <2>5
  <2> QED  BY <2>3, <2>5, <2>6, <2>7
<1> QED  BY <1>1

(* Any element can be taken out, not only the one that is picked. *)
LEMMA SumTakesAny ==
  ASSUME NEW S, IsFiniteSet(S), NEW f, \A x \in S : f[x] \in Int, NEW y \in S
  PROVE  SumFunctionOnSet(f, S) = f[y] + SumFunctionOnSet(f, S \ {y})
<1> DEFINE Bad == {s \in SUBSET S :
                     \E z \in s : SumFunctionOnSet(f, s) # f[z] + SumFunctionOnSet(f, s \ {z})}
<1>1. ASSUME Bad # {} PROVE FALSE
  <2> HIDE DEF Bad
  <2>1. Bad \in SUBSET (SUBSET S)  BY DEF Bad
  <2>2. PICK s \in Bad : \A x \in s : s \ {x} \notin Bad  BY <1>1, <2>1, SmallestSet
  <2>3. s \in SUBSET S /\ IsFiniteSet(s)  BY <2>2, FS_Subset DEF Bad
  <2>4. PICK z \in s : SumFunctionOnSet(f, s) # f[z] + SumFunctionOnSet(f, s \ {z})
    BY <2>2 DEF Bad
  <2> DEFINE p == Pick(s)
             rest == SumFunctionOnSet(f, (s \ {p}) \ {z})
  <2>5. p \in s /\ SumFunctionOnSet(f, s) = f[p] + SumFunctionOnSet(f, s \ {p})
    BY <2>3, <2>4, SumPicks
  <2> HIDE DEF p
  <2>6. p # z  BY <2>4, <2>5
  <2>7. SumFunctionOnSet(f, s \ {p}) = f[z] + rest
    <3>1. s \ {p} \notin Bad /\ z \in s \ {p} /\ s \ {p} \in SUBSET S
      BY <2>2, <2>3, <2>4, <2>5, <2>6
    <3> QED  BY <3>1 DEF Bad
  <2>8. SumFunctionOnSet(f, s \ {z}) = f[p] + rest
    <3>1. s \ {z} \notin Bad /\ p \in s \ {z} /\ s \ {z} \in SUBSET S
      BY <2>2, <2>3, <2>4, <2>5, <2>6
    <3>2. (s \ {z}) \ {p} = (s \ {p}) \ {z}  OBVIOUS
    <3> QED  BY <3>1, <3>2 DEF Bad
  <2>9. f[p] \in Int /\ f[z] \in Int /\ rest \in Int
    <3>1. IsFiniteSet((s \ {p}) \ {z})  BY <2>3, FS_RemoveElement
    <3> QED  BY <2>3, <2>4, <2>5, <3>1, SumType
  <2> HIDE DEF rest
  <2> QED  BY <2>4, <2>5, <2>7, <2>8, <2>9
<1> QED  BY <1>1

(* One element more adds its value. *)
LEMMA SumAdds ==
  ASSUME NEW S, IsFiniteSet(S), NEW y, y \notin S, NEW f, \A x \in S \union {y} : f[x] \in Int
  PROVE  SumFunctionOnSet(f, S \union {y}) = SumFunctionOnSet(f, S) + f[y]
<1>1. IsFiniteSet(S \union {y})  BY FS_AddElement
<1>2. SumFunctionOnSet(f, S \union {y}) = f[y] + SumFunctionOnSet(f, (S \union {y}) \ {y})
  BY <1>1, SumTakesAny
<1>3. SumFunctionOnSet(f, (S \union {y}) \ {y}) = SumFunctionOnSet(f, S)
  <2>1. (S \union {y}) \ {y} = S  OBVIOUS
  <2> QED  BY <2>1
<1>4. SumFunctionOnSet(f, S) \in Int /\ f[y] \in Int  BY SumType
<1> QED  BY <1>2, <1>3, <1>4

(* What f is elsewhere does not matter. *)
LEMMA SumSame ==
  ASSUME NEW S, IsFiniteSet(S), NEW f, NEW k, \A x \in S : f[x] = k[x]
  PROVE  SumFunctionOnSet(f, S) = SumFunctionOnSet(k, S)
<1>1. PICK g : Adds(g, f, S)  BY AddsExists
<1>2. PICK h : Adds(h, k, S)  BY AddsExists
<1>3. S \in SUBSET (S \intersect S)  OBVIOUS
<1>4. g[S] = h[S]  BY <1>1, <1>2, <1>3, AddsAgree
<1> QED  BY <1>1, <1>2, <1>4, AddsIsSum

(* Nothing adds up to nothing. *)
LEMMA SumZeros ==
  ASSUME NEW S, IsFiniteSet(S), NEW f, \A x \in S : f[x] = 0
  PROVE  SumFunctionOnSet(f, S) = 0
<1> DEFINE Bad == {s \in SUBSET S : SumFunctionOnSet(f, s) # 0}
<1>1. ASSUME Bad # {} PROVE FALSE
  <2> HIDE DEF Bad
  <2>1. Bad \in SUBSET (SUBSET S)  BY DEF Bad
  <2>2. PICK s \in Bad : \A x \in s : s \ {x} \notin Bad  BY <1>1, <2>1, SmallestSet
  <2>3. s \in SUBSET S /\ IsFiniteSet(s) /\ SumFunctionOnSet(f, s) # 0
    BY <2>2, FS_Subset DEF Bad
  <2>4. s # {}  BY <2>3, SumEmpty
  <2>5. /\ Pick(s) \in s
        /\ SumFunctionOnSet(f, s) = f[Pick(s)] + SumFunctionOnSet(f, s \ {Pick(s)})
    BY <2>3, <2>4, SumPicks
  <2>6. SumFunctionOnSet(f, s \ {Pick(s)}) = 0  BY <2>2, <2>3, <2>5 DEF Bad
  <2> QED  BY <2>3, <2>5, <2>6
<1> QED  BY <1>1

(* Where only one number changes, the sum changes by as much. *)
LEMMA SumChanges ==
  ASSUME NEW S, IsFiniteSet(S), NEW f, NEW k, NEW y \in S,
         \A x \in S : f[x] \in Int /\ k[x] \in Int,
         \A x \in S \ {y} : f[x] = k[x]
  PROVE  SumFunctionOnSet(k, S) = SumFunctionOnSet(f, S) + (k[y] - f[y])
<1>1. IsFiniteSet(S \ {y})  BY FS_RemoveElement
<1>2. /\ SumFunctionOnSet(f, S) = f[y] + SumFunctionOnSet(f, S \ {y})
      /\ SumFunctionOnSet(k, S) = k[y] + SumFunctionOnSet(k, S \ {y})
  BY SumTakesAny
<1>3. SumFunctionOnSet(f, S \ {y}) = SumFunctionOnSet(k, S \ {y})  BY <1>1, SumSame
<1>4. SumFunctionOnSet(k, S \ {y}) \in Int  BY <1>1, SumType
<1> QED  BY <1>2, <1>3, <1>4

-----------------------------------------------------------------------------
(* Ranks count from 1 and each is taken. *)
LEMMA RankIsOnto ==
  ASSUME NEW S \in SUBSET Int, IsFiniteSet(S)
  PROVE  /\ \A j \in 1 .. Cardinality(S) : \E k \in S : Cardinality({i \in S : i <= k}) = j
         /\ \A k, l \in S : k < l => Cardinality({i \in S : i <= k}) < Cardinality({i \in S : i <= l})
         /\ \A k \in S : Cardinality({i \in S : i <= k}) \in 1 .. Cardinality(S)
<1> DEFINE below(k) == {i \in S : i <= k}
           rank == [k \in S |-> Cardinality(below(k))]
<1>1. \A k \in S : /\ IsFiniteSet(below(k)) /\ Cardinality(below(k)) \in Nat
                   /\ Cardinality(below(k)) <= Cardinality(S)
  BY FS_Subset, FS_CardinalityType
<1>2. Cardinality(S) \in Nat  BY FS_CardinalityType
<1>3. ASSUME NEW k \in S, NEW l \in S, k < l PROVE Cardinality(below(k)) < Cardinality(below(l))
  <2>1. k \in Int /\ l \in Int  OBVIOUS
  <2>2. \A i \in S : i \in Int  OBVIOUS
  <2>3. l \in below(l) /\ l \notin below(k)  BY <1>3, <2>1
  <2>4. below(k) \subseteq below(l) \ {l}
    <3>1. \A i \in S : i <= k => i <= l  BY <1>3, <2>1, <2>2
    <3> QED  BY <2>3, <3>1
  <2>5. IsFiniteSet(below(l) \ {l}) /\ Cardinality(below(l) \ {l}) = Cardinality(below(l)) - 1
    BY <1>1, <2>3, FS_RemoveElement
  <2>6. Cardinality(below(k)) <= Cardinality(below(l) \ {l})  BY <2>4, <2>5, FS_Subset
  <2> QED  BY <1>1, <2>5, <2>6
<1>4. \A k \in S : Cardinality(below(k)) # 0
  <2>1. \A k \in S : k \in below(k)  OBVIOUS
  <2> QED  BY <1>1, <2>1, FS_EmptySet
<1>5. rank \in [S -> 1 .. Cardinality(S)]  BY <1>1, <1>2, <1>4
<1>6. \A k, l \in S : rank[k] = rank[l] => k = l
  <2> HIDE DEF below
  <2>1. \A k, l \in S : k < l => rank[k] < rank[l]  BY <1>3
  <2>2. \A k \in S : rank[k] \in Int /\ k \in Int  BY <1>1
  <2> HIDE DEF rank
  <2> QED  BY <2>1, <2>2
<1>7. /\ IsFiniteSet(1 .. Cardinality(S))
      /\ Cardinality(1 .. Cardinality(S)) = Cardinality(S)
  BY <1>2, FS_Interval
<1>8. \A j \in 1 .. Cardinality(S) : \E k \in S : rank[k] = j
  <2> HIDE DEF rank
  <2>1. rank \in Injection(S, 1 .. Cardinality(S))
    BY <1>5, <1>6 DEF Injection, IsInjective
  <2>2. rank \in Surjection(S, 1 .. Cardinality(S))  BY <1>7, <2>1, FS_Injection
  <2> QED  BY <2>2 DEF Surjection
<1>9. \A k \in S : Cardinality(below(k)) \in 1 .. Cardinality(S)  BY <1>1, <1>2, <1>4
<1>10. \A j \in 1 .. Cardinality(S) : \E k \in S : Cardinality(below(k)) = j  BY <1>8
<1> QED  BY <1>3, <1>9, <1>10

(* What Ascending is for: the elements of S, each once, in their order.     *)
LEMMA AscendingSorts ==
  ASSUME NEW S \in SUBSET Int, IsFiniteSet(S)
  PROVE  /\ Ascending(S) \in Seq(S) /\ Len(Ascending(S)) = Cardinality(S)
         /\ \A j, k \in 1 .. Cardinality(S) : j < k => Ascending(S)[j] < Ascending(S)[k]
         /\ \A i \in S : \E j \in 1 .. Cardinality(S) : Ascending(S)[j] = i
<1> DEFINE rank(k) == Cardinality({i \in S : i <= k})
           a == Ascending(S)
<1>1. Cardinality(S) \in Nat /\ \A i \in S : i \in Int  BY FS_CardinalityType
<1>2. /\ \A j \in 1 .. Cardinality(S) : \E k \in S : rank(k) = j
      /\ \A k, l \in S : k < l => rank(k) < rank(l)
      /\ \A k \in S : rank(k) \in 1 .. Cardinality(S)
  BY RankIsOnto
<1>3. a = [j \in 1 .. Cardinality(S) |-> CHOOSE k \in S : rank(k) = j]  BY DEF Ascending
<1> HIDE DEF rank, a
<1>4. \A j \in 1 .. Cardinality(S) : a[j] \in S /\ rank(a[j]) = j
  <2> SUFFICES ASSUME NEW j \in 1 .. Cardinality(S) PROVE a[j] \in S /\ rank(a[j]) = j  OBVIOUS
  <2>1. \E k \in S : rank(k) = j  BY <1>2
  <2>2. a[j] = CHOOSE k \in S : rank(k) = j  BY <1>3
  <2> QED  BY <2>1, <2>2
<1>5. a \in Seq(S) /\ Len(a) = Cardinality(S)  BY <1>1, <1>3, <1>4
<1>6. \A j, k \in 1 .. Cardinality(S) : j < k => a[j] < a[k]
  <2> SUFFICES ASSUME NEW j \in 1 .. Cardinality(S), NEW k \in 1 .. Cardinality(S), j < k
               PROVE  a[j] < a[k]
    OBVIOUS
  <2>0. a[j] \in S /\ a[k] \in S  BY <1>4
  <2>1. /\ a[j] \in Int /\ a[k] \in Int
        /\ j \in Int /\ k \in Int
    <3>1. a[j] \in Int /\ a[k] \in Int  BY <1>1, <2>0
    <3>2. j \in Int /\ k \in Int  OBVIOUS
    <3> QED  BY <3>1, <3>2
  <2>2. a[k] < a[j] => k < j  BY <1>2, <1>4
  <2>3. a[k] # a[j]  BY <1>4, <2>1
  <2> QED  BY <2>1, <2>2, <2>3
<1>7. \A i \in S : \E j \in 1 .. Cardinality(S) : a[j] = i
  <2> SUFFICES ASSUME NEW i \in S PROVE \E j \in 1 .. Cardinality(S) : a[j] = i  OBVIOUS
  <2>1. rank(i) \in 1 .. Cardinality(S)  BY <1>2
  <2>2. a[rank(i)] \in S /\ rank(a[rank(i)]) = rank(i)  BY <1>4, <2>1
  <2>3. a[rank(i)] \in Int /\ i \in Int  BY <2>2, <1>1
  <2>4. a[rank(i)] = i
    <3>1. ~(a[rank(i)] < i) /\ ~(i < a[rank(i)])  BY <1>2, <2>2, <2>3
    <3> QED  BY <2>3, <3>1
  <2> QED  BY <2>1, <2>4
<1> QED  BY <1>5, <1>6, <1>7 DEF a

(* A selection has the chosen elements, in their order. *)
LEMMA SelectionKeepsOrder ==
  ASSUME NEW T, NEW s \in Seq(T), NEW W \in SUBSET DOMAIN s
  PROVE  /\ IsFiniteSet(W) /\ Cardinality(W) \in Nat /\ W \in SUBSET Int
         /\ Selected(s, W) \in Seq(T) /\ Len(Selected(s, W)) = Cardinality(W)
         /\ \A j \in 1 .. Cardinality(W) :
              /\ Ascending(W)[j] \in W
              /\ Selected(s, W)[j] = s[Ascending(W)[j]]
<1>1. IsFiniteSet(DOMAIN s)
  <2>1. DOMAIN s = 1 .. Len(s) /\ Len(s) \in Nat  OBVIOUS
  <2> QED  BY <2>1, FS_Interval
<1>2. W \in SUBSET Int /\ IsFiniteSet(W) /\ Cardinality(W) \in Nat
  <2>1. DOMAIN s = 1 .. Len(s) /\ Len(s) \in Nat  OBVIOUS
  <2>2. W \in SUBSET Int  BY <2>1
  <2> QED  BY <1>1, <2>2, FS_Subset, FS_CardinalityType
<1>3. Ascending(W) \in Seq(W) /\ Len(Ascending(W)) = Cardinality(W)  BY <1>2, AscendingSorts
<1>4. \A j \in 1 .. Cardinality(W) : Ascending(W)[j] \in W  BY <1>3, ElementOfSeq
<1>5. \A k \in W : s[k] \in T  OBVIOUS
<1>6. Selected(s, W) = [j \in 1 .. Cardinality(W) |-> s[Ascending(W)[j]]]  BY DEF Selected
<1>7. \A j \in 1 .. Cardinality(W) : s[Ascending(W)[j]] \in T  BY <1>4, <1>5
<1> DEFINE v == Selected(s, W)
<1> HIDE DEF v
<1>8. v \in Seq(T) /\ Len(v) = Cardinality(W)  BY <1>2, <1>6, <1>7 DEF v
<1>9. \A j \in 1 .. Cardinality(W) : v[j] = s[Ascending(W)[j]]  BY <1>6 DEF v
<1> QED  BY <1>2, <1>4, <1>8, <1>9 DEF v

-----------------------------------------------------------------------------
(* The places of the numbers of s beyond a. *)
Beyond(s, a) == {k \in DOMAIN s : s[k] > a}
Count(s, a) == Cardinality(Beyond(s, a))

LEMMA CountType ==
  ASSUME NEW s \in Seq(Int), NEW a \in Int
  PROVE  /\ IsFiniteSet(Beyond(s, a)) /\ Count(s, a) \in Nat /\ Count(s, a) <= Len(s)
         /\ (\A k \in DOMAIN s : s[k] > a) => Count(s, a) = Len(s)
         /\ (\A k \in DOMAIN s : s[k] <= a) => Count(s, a) = 0
         /\ \A b \in Int : a <= b => Count(s, b) <= Count(s, a)
<1>1. DOMAIN s = 1 .. Len(s) /\ Len(s) \in Nat  OBVIOUS
<1>2. IsFiniteSet(1 .. Len(s)) /\ Cardinality(1 .. Len(s)) = Len(s)  BY <1>1, FS_Interval, SMTT(30)
<1>3. Beyond(s, a) \subseteq 1 .. Len(s)  BY <1>1 DEF Beyond
<1>4. /\ IsFiniteSet(Beyond(s, a)) /\ Count(s, a) \in Nat /\ Count(s, a) <= Len(s)
  BY <1>2, <1>3, FS_Subset, FS_CardinalityType DEF Count
<1>5. (\A k \in DOMAIN s : s[k] > a) => Beyond(s, a) = 1 .. Len(s)  BY <1>1 DEF Beyond
<1>6. (\A k \in DOMAIN s : s[k] <= a) => Beyond(s, a) = {}  BY DEF Beyond
<1>7. ASSUME NEW b \in Int, a <= b PROVE Count(s, b) <= Count(s, a)
  <2>1. Beyond(s, b) \subseteq Beyond(s, a)  BY <1>7 DEF Beyond
  <2> QED  BY <1>4, <2>1, FS_Subset DEF Count
<1> QED  BY <1>2, <1>4, <1>5, <1>6, <1>7, FS_EmptySet DEF Count

LEMMA CountAppend ==
  ASSUME NEW s \in Seq(Int), NEW t \in Int, NEW a \in Int
  PROVE  Count(Append(s, t), a) = Count(s, a) + (IF t > a THEN 1 ELSE 0)
<1> DEFINE v == Append(s, t)
<1>1. /\ DOMAIN s = 1 .. Len(s) /\ Len(s) \in Nat /\ v \in Seq(Int) /\ DOMAIN v = 1 .. Len(s) + 1
      /\ v[Len(s) + 1] = t /\ \A k \in 1 .. Len(s) : v[k] = s[k]
  OBVIOUS
<1> HIDE DEF v
<1>2. Beyond(v, a) = IF t > a THEN Beyond(s, a) \union {Len(s) + 1} ELSE Beyond(s, a)
  BY <1>1 DEF Beyond
<1>3. Len(s) + 1 \notin Beyond(s, a)  BY <1>1 DEF Beyond
<1>4. IsFiniteSet(Beyond(s, a)) /\ Count(s, a) \in Nat  BY CountType
<1>5. Cardinality(Beyond(s, a) \union {Len(s) + 1}) = Cardinality(Beyond(s, a)) + 1
  BY <1>3, <1>4, FS_AddElement
<1>6. Count(v, a) = Count(s, a) + (IF t > a THEN 1 ELSE 0)
  BY <1>2, <1>4, <1>5 DEF Count
<1> QED  BY <1>6 DEF v

(* Dropping what is not beyond a: what is beyond some b >= a stays. *)
LEMMA CountSelected ==
  ASSUME NEW s \in Seq(Int), NEW a \in Int
  PROVE  /\ Selected(s, Beyond(s, a)) \in Seq(Int)
         /\ Len(Selected(s, Beyond(s, a))) = Count(s, a)
         /\ \A j \in DOMAIN Selected(s, Beyond(s, a)) :
              \E k \in DOMAIN s : s[k] > a /\ Selected(s, Beyond(s, a))[j] = s[k]
         /\ \A b \in Int : a <= b => Count(Selected(s, Beyond(s, a)), b) = Count(s, b)
<1> DEFINE W == Beyond(s, a)
           v == Selected(s, W)
           up == Ascending(W)
<1>1. W \in SUBSET DOMAIN s /\ DOMAIN s = 1 .. Len(s) /\ Len(s) \in Nat  BY DEF Beyond
<1>2. W = {k \in DOMAIN s : s[k] > a} /\ Count(s, a) = Cardinality(W)  BY DEF Beyond, Count
<1> HIDE DEF W
<1>3. /\ IsFiniteSet(W) /\ Cardinality(W) \in Nat /\ W \in SUBSET Int
      /\ v \in Seq(Int) /\ Len(v) = Cardinality(W)
      /\ \A j \in 1 .. Cardinality(W) : up[j] \in W /\ v[j] = s[up[j]]
  BY <1>1, SelectionKeepsOrder
<1>4. /\ \A j, k \in 1 .. Cardinality(W) : j < k => up[j] < up[k]
      /\ \A i \in W : \E j \in 1 .. Cardinality(W) : up[j] = i
  BY <1>3, AscendingSorts
<1> HIDE DEF v, up
<1>5. DOMAIN v = 1 .. Cardinality(W)  BY <1>3
<1>6. ASSUME NEW b \in Int, a <= b PROVE Count(v, b) = Count(s, b)
  <2> DEFINE f == [j \in Beyond(v, b) |-> up[j]]
  <2>1. \A j \in Beyond(v, b) : j \in 1 .. Cardinality(W) /\ up[j] \in Beyond(s, b)
    BY <1>1, <1>3, <1>5 DEF Beyond
  <2>2. f \in [Beyond(v, b) -> Beyond(s, b)]  BY <2>1
  <2>3. \A j, k \in Beyond(v, b) : f[j] = f[k] => j = k
    <3> SUFFICES ASSUME NEW j \in Beyond(v, b), NEW k \in Beyond(v, b), f[j] = f[k] PROVE j = k
      OBVIOUS
    <3>1. /\ j \in 1 .. Cardinality(W) /\ k \in 1 .. Cardinality(W)
          /\ up[j] = up[k] /\ up[j] \in W
      BY <2>1, <1>3
    <3>2. /\ j \in Int /\ k \in Int
          /\ up[j] \in Int
      <4>1. j \in Int /\ k \in Int  BY <3>1
      <4>2. up[j] \in Int  BY <3>1, <1>3
      <4> QED  BY <4>1, <4>2
    <3>3. ~(j < k) /\ ~(k < j)  BY <3>1, <3>2, <1>4
    <3> QED  BY <3>2, <3>3
  <2>4. \A i \in Beyond(s, b) : \E j \in Beyond(v, b) : f[j] = i
    <3> SUFFICES ASSUME NEW i \in Beyond(s, b) PROVE \E j \in Beyond(v, b) : f[j] = i
      OBVIOUS
    <3>1. i \in DOMAIN s /\ s[i] > b /\ s[i] \in Int  BY DEF Beyond
    <3>2. i \in W  BY <1>2, <1>6, <3>1
    <3>3. PICK j \in 1 .. Cardinality(W) : up[j] = i  BY <1>4, <3>2
    <3>4. j \in Beyond(v, b)  BY <1>3, <1>5, <3>1, <3>3 DEF Beyond
    <3> QED  BY <3>3, <3>4
  <2> HIDE DEF f
  <2>5. f \in Bijection(Beyond(v, b), Beyond(s, b))
    BY <2>2, <2>3, <2>4 DEF Bijection, Injection, Surjection, IsInjective
  <2>6. ExistsBijection(Beyond(v, b), Beyond(s, b))  BY <2>5 DEF ExistsBijection
  <2> QED  BY <2>6, <1>3, CountType, FS_Bijection DEF Count
<1>7. \A j \in DOMAIN v : \E k \in DOMAIN s : s[k] > a /\ v[j] = s[k]
  BY <1>2, <1>3, <1>5
<1> QED  BY <1>2, <1>3, <1>6, <1>7 DEF v, W
=============================================================================
