---------------------------- MODULE Sums_proofs -----------------------------
(***************************************************************************)
(* Facts about Total that the proofs about balances need.  The fold behind  *)
(* Total is a function defined by recursion on the subsets of a finite set. *)
(* Strict inclusion of such subsets is well founded, so an induction is     *)
(* written here as: the set C of counterexamples, were it not empty, would  *)
(* have a member no other member is a part of, and that one is none.        *)
(***************************************************************************)
EXTENDS Sums, FiniteSetTheorems, TLAPS

(* A collection of subsets of a finite set has a smallest member. *)
LEMMA SmallestSubset ==
  ASSUME NEW S, IsFiniteSet(S), NEW C \in SUBSET (SUBSET S), C # {}
  PROVE  \E T \in C : \A U \in C : U \subseteq T => U = T
<1>1. IsWellFoundedOn(StrictSubsetOrdering(S), SUBSET S)
  BY FS_StrictSubsetOrderingWellFounded, FS_FiniteSubsetsOfFinite
<1>2. \E T \in C : \A U \in C : ~(<<U, T>> \in StrictSubsetOrdering(S))
  BY <1>1, WFMin
<1> QED BY <1>2 DEF StrictSubsetOrdering

(* The fold, one element at a time: which one goes first is CHOOSE's business. *)
Some(s) == CHOOSE x \in s : TRUE
Rest(s) == s \ {Some(s)}
Iterates(iter, f, S) ==
  iter = [s \in SUBSET S |-> IF s = {} THEN 0 ELSE f[Some(s)] + iter[Rest(s)]]
Iter(f, S) == CHOOSE iter : Iterates(iter, f, S)

(* Total is that fold. *)
LEMMA TotalIter ==
  ASSUME NEW f, NEW S
  PROVE  Total(f, S) = Iter(f, S)[S]
BY DEF Total, MapThenSumSet, MapThenFoldSet, Iter, Iterates, Some, Rest

(* Taking the first element out leaves less. *)
LEMMA RestSmaller ==
  ASSUME NEW S, S # {}
  PROVE  Some(S) \in S /\ Rest(S) \subseteq S /\ Rest(S) # S /\ S = Rest(S) \cup {Some(S)}
BY DEF Some, Rest

(* Two functions that obey the recursion agree wherever both are defined. *)
LEMMA IterUnique ==
  ASSUME NEW f, NEW S, IsFiniteSet(S), NEW T, NEW g, NEW h,
         Iterates(g, f, S), Iterates(h, f, T)
  PROVE  \A s \in SUBSET S : s \subseteq T => g[s] = h[s]
<1> DEFINE C == {s \in SUBSET S : s \subseteq T /\ g[s] # h[s]}
<1> SUFFICES ASSUME C # {} PROVE FALSE OBVIOUS
<1>0. C \in SUBSET (SUBSET S) OBVIOUS
<1>1. PICK s \in C : \A u \in C : u \subseteq s => u = s
  <2> HIDE DEF C
  <2> QED BY <1>0, SmallestSubset
<1>2. g[s] = IF s = {} THEN 0 ELSE f[Some(s)] + g[Rest(s)]
  BY <1>1 DEF Iterates
<1>3. h[s] = IF s = {} THEN 0 ELSE f[Some(s)] + h[Rest(s)]
  BY <1>1 DEF Iterates
<1>4. s # {} /\ g[Rest(s)] # h[Rest(s)]
  BY <1>1, <1>2, <1>3
<1>5. Rest(s) \in C /\ Rest(s) \subseteq s /\ Rest(s) # s
  BY <1>1, <1>4, RestSmaller
<1> QED BY <1>1, <1>5

(* On a finite set there is a function that obeys it. *)
LEMMA IterExists ==
  ASSUME NEW f, NEW S, IsFiniteSet(S)
  PROVE  \A T \in SUBSET S : Iterates(Iter(f, T), f, T)
<1> DEFINE C == {T \in SUBSET S : ~Iterates(Iter(f, T), f, T)}
<1> SUFFICES ASSUME C # {} PROVE FALSE OBVIOUS
<1>0. C \in SUBSET (SUBSET S) OBVIOUS
<1>1. PICK T \in C : \A U \in C : U \subseteq T => U = T
  <2> HIDE DEF C
  <2> QED BY <1>0, SmallestSubset
<1>2. \A U \in SUBSET T : U # T => Iterates(Iter(f, U), f, U)
  BY <1>1
<1> DEFINE g == [s \in SUBSET T |->
                   IF s = {} THEN 0 ELSE f[Some(s)] + Iter(f, Rest(s))[Rest(s)]]
<1>3. ASSUME NEW s \in SUBSET T, s # {}
      PROVE  g[Rest(s)] = Iter(f, Rest(s))[Rest(s)]
  <2> DEFINE u == Rest(s)
  <2>1. u \in SUBSET T /\ u # T
    BY <1>3, RestSmaller
  <2>2. Iter(f, u)[u] = IF u = {} THEN 0 ELSE f[Some(u)] + Iter(f, u)[Rest(u)]
    BY <2>1, <1>2 DEF Iterates
  <2>3. ASSUME u # {} PROVE Iter(f, u)[Rest(u)] = Iter(f, Rest(u))[Rest(u)]
    <3>1. Rest(u) \subseteq u /\ Rest(u) # u
      BY <2>3, RestSmaller
    <3>2. IsFiniteSet(u)
      BY <2>1, FS_Subset
    <3>3. Iterates(Iter(f, u), f, u) /\ Iterates(Iter(f, Rest(u)), f, Rest(u))
      BY <2>1, <3>1, <1>2
    <3> HIDE DEF u
    <3> QED BY <3>1, <3>2, <3>3, IterUnique
  <2> QED BY <2>1, <2>2, <2>3
<1>4. Iterates(g, f, T)
  BY <1>3 DEF Iterates
<1>5. Iterates(Iter(f, T), f, T)
  BY <1>4 DEF Iter
<1> QED BY <1>1, <1>5

(* The recursion Total obeys. *)
THEOREM TotalStep ==
  ASSUME NEW f, NEW S, IsFiniteSet(S), S # {}
  PROVE  Total(f, S) = f[Some(S)] + Total(f, Rest(S))
<1>1. Iterates(Iter(f, S), f, S) /\ Iterates(Iter(f, Rest(S)), f, Rest(S))
  BY IterExists, RestSmaller
<1>2. Iter(f, S)[S] = f[Some(S)] + Iter(f, S)[Rest(S)]
  BY <1>1 DEF Iterates
<1>3. Iter(f, S)[Rest(S)] = Iter(f, Rest(S))[Rest(S)]
  BY <1>1, IterUnique, RestSmaller
<1> QED BY <1>2, <1>3, TotalIter

(* Nothing sums to zero. *)
THEOREM TotalEmpty ==
  ASSUME NEW f
  PROVE  Total(f, {}) = 0
<1>1. Iterates(Iter(f, {}), f, {})
  BY IterExists, FS_EmptySet
<1> QED BY <1>1, TotalIter DEF Iterates

-----------------------------------------------------------------------------
(* The values summed are integers. *)
Ints(f, S) == \A x \in S : f[x] \in Int

(* A part of a finite set is finite. *)
LEMMA PartFinite ==
  ASSUME NEW S, IsFiniteSet(S)
  PROVE  \A T \in SUBSET S : IsFiniteSet(T)
BY FS_Subset

(* A sum of integers is an integer. *)
THEOREM TotalType ==
  ASSUME NEW f, NEW S, IsFiniteSet(S), Ints(f, S)
  PROVE  Total(f, S) \in Int
<1> DEFINE C == {T \in SUBSET S : Total(f, T) \notin Int}
<1> SUFFICES ASSUME C # {} PROVE FALSE OBVIOUS
<1>0. C \in SUBSET (SUBSET S) OBVIOUS
<1>1. PICK T \in C : \A U \in C : U \subseteq T => U = T
  <2> HIDE DEF C
  <2> QED BY <1>0, SmallestSubset
<1>2. CASE T = {}
  BY <1>1, <1>2, TotalEmpty
<1>3. CASE T # {}
  <2>1. Rest(T) \notin C /\ Rest(T) \in SUBSET S /\ Some(T) \in S
    BY <1>1, <1>3, RestSmaller
  <2>2. Total(f, T) = f[Some(T)] + Total(f, Rest(T))
    BY <1>1, <1>3, TotalStep, PartFinite
  <2>3. Total(f, T) \in Int
    BY <2>1, <2>2 DEF Ints
  <2> QED BY <1>1, <2>3
<1> QED BY <1>2, <1>3

(* Any element may be taken out first: the order of the fold does not matter. *)
THEOREM TotalRemove ==
  ASSUME NEW f, NEW S, IsFiniteSet(S), Ints(f, S)
  PROVE  \A x \in S : Total(f, S) = f[x] + Total(f, S \ {x})
<1> DEFINE C == {T \in SUBSET S : \E x \in T : Total(f, T) # f[x] + Total(f, T \ {x})}
<1> SUFFICES ASSUME C # {} PROVE FALSE OBVIOUS
<1>0. C \in SUBSET (SUBSET S) OBVIOUS
<1>1. PICK T \in C : \A U \in C : U \subseteq T => U = T
  <2> HIDE DEF C
  <2> QED BY <1>0, SmallestSubset
<1>2. PICK x \in T : Total(f, T) # f[x] + Total(f, T \ {x})
  BY <1>1
<1> DEFINE y == Some(T)
<1>3. Total(f, T) = f[y] + Total(f, T \ {y}) /\ y \in T
  BY <1>1, <1>2, TotalStep, PartFinite, RestSmaller DEF Rest
<1>4. x # y
  BY <1>2, <1>3
<1>5. T \ {x} \notin C /\ T \ {y} \notin C
  BY <1>1, <1>2, <1>3
<1>6. Total(f, T \ {x}) = f[y] + Total(f, (T \ {x}) \ {y})
  BY <1>1, <1>3, <1>4, <1>5
<1>7. Total(f, T \ {y}) = f[x] + Total(f, (T \ {y}) \ {x})
  BY <1>1, <1>2, <1>4, <1>5
<1>8. (T \ {y}) \ {x} = (T \ {x}) \ {y} OBVIOUS
<1>9. f[x] \in Int /\ f[y] \in Int
  BY <1>1, <1>2, <1>3 DEF Ints
<1>10. Total(f, (T \ {x}) \ {y}) \in Int
  <2>1. (T \ {x}) \ {y} \in SUBSET S
    BY <1>1
  <2> QED BY <2>1, TotalType, PartFinite DEF Ints
<1>11. Total(f, T \ {y}) = f[x] + Total(f, (T \ {x}) \ {y})
  BY <1>7, <1>8
<1> HIDE DEF y, C
<1> QED BY <1>2, <1>3, <1>6, <1>11, <1>9, <1>10

(* An element is added. *)
THEOREM TotalAdd ==
  ASSUME NEW f, NEW S, IsFiniteSet(S), Ints(f, S), NEW x, x \notin S, f[x] \in Int
  PROVE  Total(f, S \cup {x}) = Total(f, S) + f[x]
<1>1. IsFiniteSet(S \cup {x}) /\ Ints(f, S \cup {x})
  BY FS_AddElement DEF Ints
<1>2. (S \cup {x}) \ {x} = S
  OBVIOUS
<1>3. Total(f, S \cup {x}) = f[x] + Total(f, S)
  BY <1>1, <1>2, TotalRemove
<1>4. Total(f, S) \in Int
  BY TotalType
<1> QED BY <1>3, <1>4

(* The sum depends on the values on the set only. *)
THEOREM TotalSame ==
  ASSUME NEW f, NEW g, NEW S, IsFiniteSet(S), \A x \in S : f[x] = g[x]
  PROVE  Total(f, S) = Total(g, S)
<1> DEFINE C == {T \in SUBSET S : Total(f, T) # Total(g, T)}
<1> SUFFICES ASSUME C # {} PROVE FALSE OBVIOUS
<1>0. C \in SUBSET (SUBSET S) OBVIOUS
<1>1. PICK T \in C : \A U \in C : U \subseteq T => U = T
  <2> HIDE DEF C
  <2> QED BY <1>0, SmallestSubset
<1>2. CASE T = {}
  BY <1>1, <1>2, TotalEmpty
<1>3. CASE T # {}
  <2>1. Rest(T) \notin C /\ Rest(T) \in SUBSET S /\ Some(T) \in S
    BY <1>1, <1>3, RestSmaller
  <2>2. Total(f, T) = f[Some(T)] + Total(f, Rest(T))
    BY <1>1, <1>3, TotalStep, PartFinite
  <2>3. Total(g, T) = g[Some(T)] + Total(g, Rest(T))
    BY <1>1, <1>3, TotalStep, PartFinite
  <2> QED BY <1>1, <2>1, <2>2, <2>3
<1> QED BY <1>2, <1>3

(* One value changes. *)
THEOREM TotalChange ==
  ASSUME NEW f, NEW g, NEW S, IsFiniteSet(S), Ints(f, S), Ints(g, S),
         NEW x \in S, \A y \in S \ {x} : f[y] = g[y]
  PROVE  Total(g, S) = Total(f, S) - f[x] + g[x]
<1>1. Total(f, S) = f[x] + Total(f, S \ {x}) /\ Total(g, S) = g[x] + Total(g, S \ {x})
  BY TotalRemove
<1>2. S \ {x} \in SUBSET S
  OBVIOUS
<1>3. IsFiniteSet(S \ {x}) /\ Ints(f, S \ {x})
  BY <1>2, PartFinite DEF Ints
<1>4. Total(f, S \ {x}) = Total(g, S \ {x}) /\ Total(f, S \ {x}) \in Int
  BY <1>3, TotalSame, TotalType
<1>5. f[x] \in Int /\ g[x] \in Int
  BY DEF Ints
<1> QED BY <1>1, <1>4, <1>5

(* A sum of naturals is one, and no less than any of them. *)
THEOREM TotalNat ==
  ASSUME NEW f, NEW S, IsFiniteSet(S), \A x \in S : f[x] \in Nat
  PROVE  Total(f, S) \in Nat /\ \A x \in S : f[x] <= Total(f, S)
<1> DEFINE C == {T \in SUBSET S : Total(f, T) \notin Nat}
<1>0. C \in SUBSET (SUBSET S) OBVIOUS
<1>1. C = {}
  <2> SUFFICES ASSUME C # {} PROVE FALSE OBVIOUS
  <2>1. PICK T \in C : \A U \in C : U \subseteq T => U = T
    <3> HIDE DEF C
    <3> QED BY <1>0, SmallestSubset
  <2>2. T # {}
    <3>1. Total(f, T) \notin Nat
      BY <2>1
    <3> QED BY <3>1, TotalEmpty
  <2>3. Rest(T) \notin C /\ Rest(T) \in SUBSET S /\ Some(T) \in S
    BY <2>1, <2>2, RestSmaller
  <2>4. Total(f, T) = f[Some(T)] + Total(f, Rest(T))
    BY <2>1, <2>2, TotalStep, PartFinite
  <2> QED BY <2>1, <2>3, <2>4
<1>2. \A T \in SUBSET S : Total(f, T) \in Nat
  BY <1>1
<1>3. ASSUME NEW x \in S PROVE f[x] <= Total(f, S)
  <2>1. Total(f, S) = f[x] + Total(f, S \ {x})
    BY TotalRemove DEF Ints
  <2>2. Total(f, S \ {x}) \in Nat
    BY <1>2
  <2> QED BY <2>1, <2>2
<1> QED BY <1>2, <1>3

(* Disjoint sets are summed apart. *)
THEOREM TotalUnion ==
  ASSUME NEW f, NEW S, IsFiniteSet(S), Ints(f, S),
         NEW T, IsFiniteSet(T), Ints(f, T), S \cap T = {}
  PROVE  Total(f, S \cup T) = Total(f, S) + Total(f, T)
<1> DEFINE C == {U \in SUBSET T : Total(f, S \cup U) # Total(f, S) + Total(f, U)}
<1> SUFFICES ASSUME C # {} PROVE FALSE OBVIOUS
<1>0. C \in SUBSET (SUBSET T) OBVIOUS
<1>1. PICK U \in C : \A V \in C : V \subseteq U => V = U
  <2> HIDE DEF C
  <2> QED BY <1>0, SmallestSubset
<1>2. CASE U = {}
  BY <1>1, <1>2, TotalEmpty, TotalType
<1>3. CASE U # {}
  <2>1. Rest(U) \notin C /\ Rest(U) \in SUBSET T /\ Some(U) \in U /\ Some(U) \in T
    BY <1>1, <1>3, RestSmaller
  <2>2. Total(f, U) = f[Some(U)] + Total(f, Rest(U))
    BY <1>1, <1>3, TotalStep, PartFinite
  <2>3. IsFiniteSet(Rest(U)) /\ IsFiniteSet(U) /\ Ints(f, Rest(U)) /\ Ints(f, U)
    BY <2>1, <1>1, PartFinite DEF Ints
  <2>4. S \cup U = (S \cup Rest(U)) \cup {Some(U)} /\ Some(U) \notin S \cup Rest(U)
    BY <2>1 DEF Rest
  <2>5. IsFiniteSet(S \cup Rest(U)) /\ Ints(f, S \cup Rest(U)) /\ f[Some(U)] \in Int
    BY <2>1, <2>3, FS_Union DEF Ints
  <2>6. Total(f, S \cup U) = Total(f, S \cup Rest(U)) + f[Some(U)]
    BY <2>4, <2>5, TotalAdd
  <2>7. Total(f, S \cup Rest(U)) = Total(f, S) + Total(f, Rest(U))
    BY <2>1
  <2>8. Total(f, S) \in Int /\ Total(f, Rest(U)) \in Int
    BY <2>3, TotalType
  <2> QED BY <1>1, <2>2, <2>5, <2>6, <2>7, <2>8
<1> QED BY <1>2, <1>3

(* A part of naturals sums to no more than the whole. *)
THEOREM TotalSubset ==
  ASSUME NEW f, NEW S, IsFiniteSet(S), \A x \in S : f[x] \in Nat, NEW T \in SUBSET S
  PROVE  Total(f, T) <= Total(f, S)
<1>1. S = T \cup (S \ T) /\ T \cap (S \ T) = {}
  OBVIOUS
<1>2. IsFiniteSet(T) /\ IsFiniteSet(S \ T) /\ Ints(f, T) /\ Ints(f, S \ T)
  BY FS_Subset DEF Ints
<1>3. Total(f, S) = Total(f, T) + Total(f, S \ T)
  BY <1>1, <1>2, TotalUnion
<1>4. Total(f, T) \in Nat /\ Total(f, S \ T) \in Nat
  BY <1>2, TotalNat
<1> QED BY <1>3, <1>4

(* Sums are added value by value. *)
THEOREM TotalPlus ==
  ASSUME NEW f, NEW g, NEW h, NEW S, IsFiniteSet(S), Ints(f, S), Ints(g, S),
         \A x \in S : h[x] = f[x] + g[x]
  PROVE  Total(h, S) = Total(f, S) + Total(g, S)
<1> DEFINE C == {U \in SUBSET S : Total(h, U) # Total(f, U) + Total(g, U)}
<1> SUFFICES ASSUME C # {} PROVE FALSE OBVIOUS
<1>0. C \in SUBSET (SUBSET S) OBVIOUS
<1>1. PICK U \in C : \A V \in C : V \subseteq U => V = U
  <2> HIDE DEF C
  <2> QED BY <1>0, SmallestSubset
<1>2. CASE U = {}
  BY <1>1, <1>2, TotalEmpty
<1>3. CASE U # {}
  <2>1. Rest(U) \notin C /\ Rest(U) \in SUBSET S /\ Some(U) \in S
    BY <1>1, <1>3, RestSmaller
  <2>2. /\ Total(f, U) = f[Some(U)] + Total(f, Rest(U))
        /\ Total(g, U) = g[Some(U)] + Total(g, Rest(U))
        /\ Total(h, U) = h[Some(U)] + Total(h, Rest(U))
    BY <1>1, <1>3, TotalStep, PartFinite
  <2>3. Total(f, Rest(U)) \in Int /\ Total(g, Rest(U)) \in Int
    BY <2>1, TotalType, PartFinite DEF Ints
  <2>4. f[Some(U)] \in Int /\ g[Some(U)] \in Int
    BY <2>1 DEF Ints
  <2> QED BY <1>1, <2>1, <2>2, <2>3, <2>4
<1> QED BY <1>2, <1>3

(* Zeros sum to zero. *)
THEOREM TotalZero ==
  ASSUME NEW f, NEW S, IsFiniteSet(S), \A x \in S : f[x] = 0
  PROVE  Total(f, S) = 0
<1>1. Total(f, S) = Total(f, S) + Total(f, S)
  BY TotalPlus DEF Ints
<1> QED BY <1>1, TotalType DEF Ints

(* A sum grows with its values. *)
THEOREM TotalLeq ==
  ASSUME NEW f, NEW g, NEW S, IsFiniteSet(S), Ints(f, S), Ints(g, S),
         \A x \in S : f[x] <= g[x]
  PROVE  Total(f, S) <= Total(g, S)
<1> DEFINE h == [x \in S |-> g[x] - f[x]]
<1>1. Ints(h, S) /\ \A x \in S : h[x] \in Nat /\ g[x] = f[x] + h[x]
  BY DEF Ints
<1> HIDE DEF h
<1>2. Total(g, S) = Total(f, S) + Total(h, S)
  BY <1>1, TotalPlus
<1>3. Total(h, S) \in Nat /\ Total(f, S) \in Int
  BY <1>1, TotalNat, TotalType
<1> QED BY <1>2, <1>3

(* One value grows by d: so does every sum it belongs to. *)
THEOREM TotalShift ==
  ASSUME NEW f, NEW g, NEW S, IsFiniteSet(S), Ints(f, S), NEW x, NEW d \in Int,
         \A y \in S : g[y] = IF y = x THEN f[y] + d ELSE f[y]
  PROVE  Total(g, S) = Total(f, S) + (IF x \in S THEN d ELSE 0)
<1>1. Ints(g, S)
  BY DEF Ints
<1>2. CASE x \in S
  <2>1. Total(g, S) = Total(f, S) - f[x] + g[x]
    BY <1>1, <1>2, TotalChange
  <2>2. Total(f, S) \in Int /\ f[x] \in Int /\ g[x] = f[x] + d
    BY <1>2, TotalType DEF Ints
  <2> QED BY <1>2, <2>1, <2>2
<1>3. CASE x \notin S
  <2>1. Total(f, S) = Total(g, S)
    BY <1>3, TotalSame
  <2>2. Total(f, S) \in Int
    BY TotalType
  <2> QED BY <1>3, <2>1, <2>2
<1> QED BY <1>2, <1>3

(* A finite set of numbers has a least one. *)
LEMMA FiniteMin ==
  ASSUME NEW S, IsFiniteSet(S)
  PROVE  \A T \in SUBSET S : T # {} /\ T \subseteq Nat => \E x \in T : \A y \in T : x <= y
<1> DEFINE C == {T \in SUBSET S : /\ T # {} /\ T \subseteq Nat
                                  /\ ~(\E x \in T : \A y \in T : x <= y)}
<1> SUFFICES ASSUME C # {} PROVE FALSE OBVIOUS
<1>0. C \in SUBSET (SUBSET S) OBVIOUS
<1>1. PICK T \in C : \A U \in C : U \subseteq T => U = T
  <2> HIDE DEF C
  <2> QED BY <1>0, SmallestSubset
<1>2. PICK x \in T : TRUE OBVIOUS
<1>3. T \ {x} # {} /\ T \ {x} \subseteq T /\ T \ {x} # T /\ T \ {x} \in SUBSET S
  BY <1>1, <1>2
<1>4. PICK m \in T \ {x} : \A y \in T \ {x} : m <= y
  <2>1. T \ {x} \notin C
    BY <1>1, <1>3
  <2> QED BY <1>1, <1>3, <2>1
<1>5. (\A y \in T : m <= y) \/ (\A y \in T : x <= y)
  BY <1>1, <1>4
<1> QED BY <1>1, <1>5

(* Min returns a member. *)
LEMMA MinIn ==
  ASSUME NEW S, S \in SUBSET Nat, S # {}
  PROVE  Min(S) \in S
<1>1. PICK n \in S : TRUE OBVIOUS
<1>2. IsFiniteSet(0..n)
  BY FS_Interval
<1>3. S \cap (0..n) \in SUBSET (0..n) /\ S \cap (0..n) # {} /\ S \cap (0..n) \subseteq Nat
  BY <1>1
<1>4. PICK x \in S \cap (0..n) : \A y \in S \cap (0..n) : x <= y
  BY <1>2, <1>3, FiniteMin
<1>5. \A y \in S : x <= y
  BY <1>4
<1> QED BY <1>4, <1>5 DEF Min

(* Of finitely many things one has the least value. *)
LEMMA FiniteLeast ==
  ASSUME NEW f, NEW S, IsFiniteSet(S), S # {}, Ints(f, S)
  PROVE  \E m \in S : \A q \in S : f[m] <= f[q]
<1> DEFINE C == {T \in SUBSET S : T # {} /\ ~(\E m \in T : \A q \in T : f[m] <= f[q])}
<1> SUFFICES ASSUME C # {} PROVE FALSE OBVIOUS
<1>0. C \in SUBSET (SUBSET S) OBVIOUS
<1>1. PICK T \in C : \A U \in C : U \subseteq T => U = T
  <2> HIDE DEF C
  <2> QED BY <1>0, SmallestSubset
<1>2. PICK x \in T : TRUE OBVIOUS
<1>3. CASE T \ {x} = {}
  BY <1>1, <1>2, <1>3 DEF Ints
<1>4. CASE T \ {x} # {}
  <2>1. T \ {x} \notin C /\ T \ {x} \in SUBSET S
    BY <1>1, <1>2
  <2>2. PICK m \in T \ {x} : \A q \in T \ {x} : f[m] <= f[q]
    BY <1>4, <2>1
  <2>3. f[m] \in Int /\ f[x] \in Int /\ \A q \in T : f[q] \in Int
    BY <1>1, <1>2, <2>2 DEF Ints
  <2>4. (\A q \in T : f[m] <= f[q]) \/ (\A q \in T : f[x] <= f[q])
    BY <2>2, <2>3
  <2> QED BY <1>1, <1>2, <2>2, <2>4
<1> QED BY <1>3, <1>4

(* One row of S gave n to another, that is in S or not. *)
Gave(f, g, S, from, to, n) ==
  /\ from # to
  /\ to \in S => (from \in S /\ g[to] = f[to] + n)
  /\ from \in S => (g[from] = f[from] - n)
  /\ \A y \in S \ {from, to} : g[y] = f[y]

(* No sum with both of them, or without the one raised, grows. *)
LEMMA GaveWithin ==
  ASSUME NEW f, NEW g, NEW S, IsFiniteSet(S), Ints(f, S), NEW from, NEW to, NEW n \in Nat,
         Gave(f, g, S, from, to, n)
  PROVE  Total(g, S) \in Int /\ Total(g, S) <= Total(f, S)
<1> DEFINE h == [y \in S |-> IF y = to THEN f[y] + n ELSE f[y]]
           m == -n
<1>1. n \in Int /\ m \in Int
  OBVIOUS
<1>2. \A y \in S : h[y] = IF y = to THEN f[y] + n ELSE f[y]
  OBVIOUS
<1>3. Ints(h, S) /\ \A y \in S : g[y] = IF y = from THEN h[y] + m ELSE h[y]
  <2>1. \A y \in S : f[y] \in Int
    BY DEF Ints
  <2>2. \A y \in S : h[y] \in Int
    BY <1>1, <2>1
  <2>3. \A y \in S : g[y] = IF y = from THEN h[y] + m ELSE h[y]
    BY <1>1, <1>2, <2>1 DEF Gave
  <2> QED BY <2>2, <2>3 DEF Ints
<1> HIDE DEF h, m
<1>4. Total(h, S) = Total(f, S) + (IF to \in S THEN n ELSE 0)
  BY <1>1, <1>2, TotalShift
<1>5. Total(g, S) = Total(h, S) + (IF from \in S THEN m ELSE 0)
  BY <1>1, <1>3, TotalShift
<1>6. Total(f, S) \in Int
  BY TotalType
<1> QED BY <1>1, <1>4, <1>5, <1>6 DEF m, Gave

-----------------------------------------------------------------------------
(* Numbers. *)

(* A quotient rounds down. *)
LEMMA DivIs ==
  ASSUME NEW a \in Int, NEW b \in Nat \ {0}
  PROVE  a \div b \in Int /\ (a \div b) * b <= a /\ a < (a \div b) * b + b
OBVIOUS

(* A multiple that is less than one b more is no more. *)
LEMMA FewerTimes ==
  ASSUME NEW x \in Int, NEW y \in Int, NEW b \in Nat \ {0}, x * b < y * b + b
  PROVE  x <= y
<1> SUFFICES ASSUME x >= y + 1 PROVE FALSE
  OBVIOUS
<1>1. (x - (y + 1)) * b >= 0
  OBVIOUS
<1>2. (x - (y + 1)) * b = x * b - y * b - b
  OBVIOUS
<1> QED BY <1>1, <1>2

(* The lesser of two. *)
LEMMA LesserIs ==
  ASSUME NEW a \in Int, NEW b \in Int
  PROVE  Min({a, b}) = IF a <= b THEN a ELSE b
<1> DEFINE m == IF a <= b THEN a ELSE b
<1>1. m \in {a, b} /\ \A y \in {a, b} : m =< y
  OBVIOUS
<1>2. \A n \in {a, b} : (\A y \in {a, b} : n =< y) => n = m
  OBVIOUS
<1> QED BY <1>1, <1>2 DEF Min

(* A number, or zero if it is less. *)
LEMMA AtLeastZero ==
  ASSUME NEW n \in Int
  PROVE  Max({0, n}) = IF n > 0 THEN n ELSE 0
<1> DEFINE m == IF n > 0 THEN n ELSE 0
<1>1. m \in {0, n} /\ \A y \in {0, n} : m >= y
  OBVIOUS
<1>2. \A k \in {0, n} : (\A y \in {0, n} : k >= y) => k = m
  OBVIOUS
<1> QED BY <1>1, <1>2 DEF Max
=============================================================================
