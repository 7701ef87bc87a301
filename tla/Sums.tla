-------------------------------- MODULE Sums --------------------------------
(***************************************************************************)
(* Sums of naturals over finite sets: what SumFunctionOnSet and            *)
(* SumFunction of the community modules compute.  They are folds, defined  *)
(* by a recursive function over the subsets of the set that removes what   *)
(* CHOOSE picks; the lemmas say that it has a solution and that the order  *)
(* does not matter.  Induction is done by hand, from the least             *)
(* counterexample: the sets of a size are a set, so no operator is needed  *)
(* as a parameter.                                                         *)
(***************************************************************************)
EXTENDS Integers, FiniteSetsExt, FiniteSetTheorems, TLAPS

(* What a sum picks, one step of its recursion on the sets D, and its      *)
(* solution for the subsets of S.                                          *)
Chosen(s) == CHOOSE x \in s : TRUE
Steps(f, D, g) == [s \in D |-> IF s = {} THEN 0 ELSE f[Chosen(s)] + g[s \ {Chosen(s)}]]
Iter(f, S) == CHOOSE g : g = Steps(f, SUBSET S, g)
Solves(g, f, S) == g = Steps(f, SUBSET S, g)

LEMMA SumIter == ASSUME NEW f, NEW S PROVE SumFunctionOnSet(f, S) = Iter(f, S)[S]
  BY DEF SumFunctionOnSet, FoldFunctionOnSet, MapThenFoldSet, Iter, Steps, Chosen

(* Every nonempty set of naturals has a least element.                     *)
LEMMA Least ==
  ASSUME NEW T, T \subseteq Nat, T # {}
  PROVE  \E n \in T : \A m \in T : n <= m
<1> DEFINE R == {ss \in Nat \X Nat : ss[1] < ss[2]}
<1>1. R = OpToRel(<, Nat)
  BY Zenon DEF OpToRel
<1>2. IsWellFoundedOn(R, Nat)
  BY <1>1, NatLessThanWellFounded, Zenon
<1> HIDE DEF R
<1>3. \E n \in T : \A m \in T : ~ (<<m, n>> \in R)
  BY <1>2, WFMin
<1>4. \A m, n \in Nat : ~ (<<m, n>> \in R) => n <= m
  BY DEF R
<1> QED
  BY <1>3, <1>4

(* Induction, for a set of naturals.                                       *)
LEMMA Induction ==
  ASSUME NEW B, 0 \in B, \A n \in Nat : n \in B => n + 1 \in B
  PROVE  \A n \in Nat : n \in B
<1> DEFINE Bad == Nat \ B
<1>1. ASSUME Bad # {} PROVE FALSE
  <2>1. PICK n \in Bad : \A m \in Bad : n <= m
    BY <1>1, Least
  <2>2. n \in Nat /\ n # 0 /\ n \notin B
    BY <2>1
  <2>3. n - 1 \in Nat /\ (n - 1) + 1 = n /\ ~(n <= n - 1)
    BY <2>2
  <2>4. n - 1 \in B
    BY <2>1, <2>3
  <2> QED
    BY <2>2, <2>3, <2>4
<1> QED
  BY <1>1

(* The recursion of the sum has a solution.                                *)
Sized(S, n) == {T \in SUBSET S : Cardinality(T) <= n}
LEMMA SumExists ==
  ASSUME NEW f, NEW S, IsFiniteSet(S)
  PROVE  \E g : g = Steps(f, SUBSET S, g)
<1> DEFINE Bad == {n \in Nat : ~ \E g : g = Steps(f, Sized(S, n), g)}
<1>1. ASSUME Bad # {} PROVE FALSE
  <2>1. PICK n \in Bad : \A m \in Bad : n <= m
    BY <1>1, Least
  <2>2. CASE n = 0
    <3> DEFINE g == [s \in Sized(S, 0) |-> 0]
    <3>1. \A s \in Sized(S, 0) : s = {}
      <4>1. ASSUME NEW s \in Sized(S, 0) PROVE s = {}
        <5>1. IsFiniteSet(s) /\ Cardinality(s) \in Nat
          BY FS_Subset, FS_CardinalityType DEF Sized
        <5> QED
          BY <5>1, FS_EmptySet DEF Sized
      <4> QED
        BY <4>1
    <3>2. g = Steps(f, Sized(S, 0), g)
      BY <3>1 DEF Steps
    <3> QED
      BY <2>1, <2>2, <3>2
  <2>3. CASE n # 0
    <3>1. n \in Nat /\ n - 1 \in Nat /\ ~ n <= n - 1
      BY <2>3
    <3>2. PICK h : h = Steps(f, Sized(S, n - 1), h)
      BY <2>1, <3>1
    <3> DEFINE g == Steps(f, Sized(S, n), h)
    <3>3. ASSUME NEW s \in Sized(S, n), s # {}
          PROVE  s \ {Chosen(s)} \in Sized(S, n - 1)
      <4>1. Chosen(s) \in s
        BY <3>3 DEF Chosen
      <4>2. IsFiniteSet(s) /\ Cardinality(s) \in Nat /\ Cardinality(s) <= n
        BY FS_Subset, FS_CardinalityType DEF Sized
      <4>3. Cardinality(s \ {Chosen(s)}) = Cardinality(s) - 1
        BY <4>1, <4>2, FS_RemoveElement
      <4>4. s \ {Chosen(s)} \in SUBSET S
        BY DEF Sized
      <4> QED
        BY <3>1, <4>2, <4>3, <4>4 DEF Sized
    <3>4. ASSUME NEW s \in Sized(S, n - 1) PROVE g[s] = h[s]
      <4>1. s \in Sized(S, n)
        <5>1. Cardinality(s) \in Nat
          BY FS_Subset, FS_CardinalityType DEF Sized
        <5> QED
          BY <3>1, <5>1 DEF Sized
      <4>2. g[s] = IF s = {} THEN 0 ELSE f[Chosen(s)] + h[s \ {Chosen(s)}]
        BY <4>1 DEF Steps
      <4>3. Steps(f, Sized(S, n - 1), h)[s] = IF s = {} THEN 0 ELSE f[Chosen(s)] + h[s \ {Chosen(s)}]
        BY DEF Steps
      <4> QED
        BY <3>2, <4>2, <4>3
    <3>5. g = Steps(f, Sized(S, n), g)
      <4>1. \A s \in Sized(S, n) : s # {} => g[s \ {Chosen(s)}] = h[s \ {Chosen(s)}]
        BY <3>3, <3>4
      <4> HIDE DEF g
      <4>2. \A s \in Sized(S, n) : (IF s = {} THEN 0 ELSE f[Chosen(s)] + g[s \ {Chosen(s)}])
                                    = (IF s = {} THEN 0 ELSE f[Chosen(s)] + h[s \ {Chosen(s)}])
        BY <4>1
      <4>3. g = [s \in Sized(S, n) |-> IF s = {} THEN 0 ELSE f[Chosen(s)] + h[s \ {Chosen(s)}]]
        BY DEF g, Steps
      <4> QED
        BY <4>2, <4>3 DEF Steps
    <3> QED
      BY <2>1, <3>5
  <2> QED
    BY <2>2, <2>3
<1>2. Cardinality(S) \in Nat /\ Sized(S, Cardinality(S)) = SUBSET S
  <2>1. Cardinality(S) \in Nat
    BY FS_CardinalityType
  <2>2. \A T \in SUBSET S : Cardinality(T) <= Cardinality(S)
    BY FS_Subset
  <2> QED
    BY <2>1, <2>2 DEF Sized
<1>3. Cardinality(S) \notin Bad
  BY <1>1
<1>4. \E g : g = Steps(f, Sized(S, Cardinality(S)), g)
  BY <1>2, <1>3
<1> QED
  BY <1>2, <1>4

(* A family of subsets that has the empty set, and with a set every larger *)
(* one by an element, has the whole set.                                   *)
LEMMA SetInduction ==
  ASSUME NEW S, IsFiniteSet(S), NEW B, {} \in B,
         \A T \in SUBSET S : \A x \in S \ T : T \in B => T \cup {x} \in B
  PROVE  S \in B
<1> DEFINE Bad == {n \in Nat : \E T \in SUBSET S : Cardinality(T) = n /\ T \notin B}
<1>1. ASSUME Bad # {} PROVE FALSE
  <2>1. PICK n \in Bad : \A m \in Bad : n <= m
    BY <1>1, Least
  <2>2. PICK T \in SUBSET S : Cardinality(T) = n /\ T \notin B
    OBVIOUS
  <2>3. PICK x : x \in T
    BY <2>2
  <2>4. IsFiniteSet(T)
    BY FS_Subset
  <2>5. IsFiniteSet(T \ {x}) /\ Cardinality(T \ {x}) = n - 1
    BY <2>2, <2>3, <2>4, FS_RemoveElement
  <2>6. n - 1 \in Nat
    BY <2>5, FS_CardinalityType
  <2>7. T \ {x} \in SUBSET S /\ x \in S \ (T \ {x}) /\ (T \ {x}) \cup {x} = T
    BY <2>3
  <2>8. T \ {x} \notin B
    BY <2>2, <2>7
  <2>9. n - 1 \in Bad
    BY <2>5, <2>6, <2>7, <2>8
  <2> QED
    BY <2>1, <2>9
<1>2. Cardinality(S) \in Nat /\ S \in SUBSET S
  BY FS_CardinalityType
<1> QED
  BY <1>1, <1>2

(* Two solutions agree where both are defined.                             *)
LEMMA StepsUnique ==
  ASSUME NEW f, NEW S, IsFiniteSet(S), NEW T, T \subseteq S,
         NEW g, Solves(g, f, S), NEW h, Solves(h, f, T)
  PROVE  g[T] = h[T]
<1> DEFINE Bad == {n \in Nat : \E U \in SUBSET T : Cardinality(U) = n /\ g[U] # h[U]}
<1>1. \A U \in SUBSET S : g[U] = IF U = {} THEN 0 ELSE f[Chosen(U)] + g[U \ {Chosen(U)}]
  <2>1. ASSUME NEW U \in SUBSET S
        PROVE  Steps(f, SUBSET S, g)[U] = IF U = {} THEN 0 ELSE f[Chosen(U)] + g[U \ {Chosen(U)}]
    BY DEF Steps
  <2> QED
    BY <2>1 DEF Solves
<1>2. \A U \in SUBSET T : h[U] = IF U = {} THEN 0 ELSE f[Chosen(U)] + h[U \ {Chosen(U)}]
  <2>1. ASSUME NEW U \in SUBSET T
        PROVE  Steps(f, SUBSET T, h)[U] = IF U = {} THEN 0 ELSE f[Chosen(U)] + h[U \ {Chosen(U)}]
    BY DEF Steps
  <2> QED
    BY <2>1 DEF Solves
<1>3. ASSUME Bad # {} PROVE FALSE
  <2>1. PICK n \in Bad : \A m \in Bad : n <= m
    BY <1>3, Least
  <2>2. PICK U \in SUBSET T : Cardinality(U) = n /\ g[U] # h[U]
    OBVIOUS
  <2>3. U # {}
    BY <1>1, <1>2, <2>2
  <2>4. Chosen(U) \in U
    BY <2>3 DEF Chosen
  <2>5. IsFiniteSet(U \ {Chosen(U)}) /\ Cardinality(U \ {Chosen(U)}) = n - 1
    <3>1. IsFiniteSet(U)
      BY FS_Subset
    <3> QED
      BY <2>2, <2>4, <3>1, FS_RemoveElement
  <2>6. n - 1 \in Nat
    BY <2>5, FS_CardinalityType
  <2>7. g[U \ {Chosen(U)}] # h[U \ {Chosen(U)}]
    BY <1>1, <1>2, <2>2, <2>3
  <2>8. n - 1 \in Bad
    BY <2>5, <2>6, <2>7
  <2> QED
    BY <2>1, <2>8
<1>4. IsFiniteSet(T) /\ Cardinality(T) \in Nat
  BY FS_Subset, FS_CardinalityType
<1> QED
  BY <1>3, <1>4

LEMMA SumEmpty == ASSUME NEW f PROVE SumFunctionOnSet(f, {}) = 0
<1>1. PICK g : g = Steps(f, SUBSET {}, g)
  BY SumExists, FS_EmptySet
<1>2. Iter(f, {}) = Steps(f, SUBSET {}, Iter(f, {}))
  BY <1>1 DEF Iter
<1>3. Steps(f, SUBSET {}, Iter(f, {}))[{}] = 0
  BY DEF Steps
<1> QED
  BY <1>2, <1>3, SumIter

(* The recursion itself.                                                   *)
LEMMA SumChosen ==
  ASSUME NEW f, NEW S, IsFiniteSet(S), S # {}
  PROVE  SumFunctionOnSet(f, S) = f[Chosen(S)] + SumFunctionOnSet(f, S \ {Chosen(S)})
<1> DEFINE T == S \ {Chosen(S)}
<1>1. T \subseteq S /\ IsFiniteSet(T)
  BY FS_RemoveElement
<1>2. Iter(f, S) = Steps(f, SUBSET S, Iter(f, S))
  BY SumExists DEF Iter
<1>3. Iter(f, T) = Steps(f, SUBSET T, Iter(f, T))
  BY <1>1, SumExists DEF Iter
<1>4. Iter(f, S)[T] = Iter(f, T)[T]
  <2>1. Solves(Iter(f, S), f, S) /\ Solves(Iter(f, T), f, T)
    BY <1>2, <1>3 DEF Solves
  <2> HIDE DEF T
  <2> QED
    BY <1>1, <2>1, StepsUnique
<1>5. Steps(f, SUBSET S, Iter(f, S))[S] = f[Chosen(S)] + Iter(f, S)[T]
  BY DEF Steps
<1>6. SumFunctionOnSet(f, S) = Iter(f, S)[S] /\ SumFunctionOnSet(f, T) = Iter(f, T)[T]
  BY SumIter
<1> HIDE DEF T
<1> QED
  BY <1>2, <1>4, <1>5, <1>6 DEF T

LEMMA SumNat ==
  ASSUME NEW f, NEW S, IsFiniteSet(S), \A x \in S : f[x] \in Nat
  PROVE  SumFunctionOnSet(f, S) \in Nat
<1> DEFINE Bad == {n \in Nat : \E U \in SUBSET S : /\ Cardinality(U) = n
                                                   /\ SumFunctionOnSet(f, U) \notin Nat}
<1>1. ASSUME Bad # {} PROVE FALSE
  <2>1. PICK n \in Bad : \A m \in Bad : n <= m
    BY <1>1, Least
  <2>2. PICK U \in SUBSET S : Cardinality(U) = n /\ SumFunctionOnSet(f, U) \notin Nat
    OBVIOUS
  <2>3. IsFiniteSet(U)
    BY FS_Subset
  <2>4. U # {}
    BY <2>2, SumEmpty
  <2>5. Chosen(U) \in U
    BY <2>4 DEF Chosen
  <2> DEFINE V == U \ {Chosen(U)}
  <2>6. V \in SUBSET S /\ IsFiniteSet(V) /\ Cardinality(V) = n - 1
    BY <2>2, <2>3, <2>5, FS_RemoveElement
  <2>7. n - 1 \in Nat
    BY <2>6, FS_CardinalityType
  <2>8. SumFunctionOnSet(f, U) = f[Chosen(U)] + SumFunctionOnSet(f, V)
    BY <2>3, <2>4, SumChosen
  <2> HIDE DEF V
  <2>9. f[Chosen(U)] \in Nat /\ SumFunctionOnSet(f, V) \notin Nat
    BY <2>2, <2>5, <2>8
  <2>10. n - 1 \in Bad
    BY <2>6, <2>7, <2>9
  <2> QED
    BY <2>1, <2>10
<1>2. Cardinality(S) \in Nat /\ S \in SUBSET S
  BY FS_CardinalityType
<1> QED
  BY <1>1, <1>2

(* Any element can be taken out first.                                     *)
LEMMA SumRemove ==
  ASSUME NEW f, NEW S, IsFiniteSet(S), \A y \in S : f[y] \in Nat, NEW x \in S
  PROVE  SumFunctionOnSet(f, S) = f[x] + SumFunctionOnSet(f, S \ {x})
<1> DEFINE Odd(U) == \E y \in U : SumFunctionOnSet(f, U) # f[y] + SumFunctionOnSet(f, U \ {y})
           Bad == {n \in Nat : \E U \in SUBSET S : Cardinality(U) = n /\ Odd(U)}
<1>1. ASSUME Bad # {} PROVE FALSE
  <2>1. PICK n \in Bad : \A m \in Bad : n <= m
    BY <1>1, Least
  <2>2. PICK U \in SUBSET S : Cardinality(U) = n /\ Odd(U)
    OBVIOUS
  <2>3. PICK y \in U : SumFunctionOnSet(f, U) # f[y] + SumFunctionOnSet(f, U \ {y})
    BY <2>2
  <2>4. IsFiniteSet(U)
    BY FS_Subset
  <2> DEFINE c == Chosen(U)
  <2>5. c \in U
    BY <2>3 DEF Chosen
  <2> HIDE DEF c
  <2>6. \A z \in U : /\ U \ {z} \in SUBSET S /\ IsFiniteSet(U \ {z})
                     /\ Cardinality(U \ {z}) = n - 1 /\ ~Odd(U \ {z})
    <3>1. ASSUME NEW z \in U
          PROVE  /\ U \ {z} \in SUBSET S /\ IsFiniteSet(U \ {z})
                 /\ Cardinality(U \ {z}) = n - 1 /\ ~Odd(U \ {z})
      <4>1. U \ {z} \in SUBSET S /\ IsFiniteSet(U \ {z}) /\ Cardinality(U \ {z}) = n - 1
        BY <2>2, <2>4, FS_RemoveElement
      <4>2. n - 1 \in Nat
        BY <4>1, FS_CardinalityType
      <4> HIDE DEF Odd
      <4>3. Odd(U \ {z}) => n - 1 \in Bad
        BY <4>1, <4>2
      <4> QED
        BY <2>1, <4>1, <4>2, <4>3
    <3> QED
      BY <3>1
  <2>7. SumFunctionOnSet(f, U) = f[c] + SumFunctionOnSet(f, U \ {c})
    BY <2>4, <2>5, SumChosen DEF c
  <2>8. y # c
    BY <2>3, <2>7
  <2>9. SumFunctionOnSet(f, U \ {c}) = f[y] + SumFunctionOnSet(f, (U \ {c}) \ {y})
    BY <2>5, <2>6, <2>8
  <2>10. SumFunctionOnSet(f, U \ {y}) = f[c] + SumFunctionOnSet(f, (U \ {y}) \ {c})
    BY <2>5, <2>6, <2>8
  <2>11. (U \ {y}) \ {c} = (U \ {c}) \ {y}
    OBVIOUS
  <2>12. f[c] \in Nat /\ f[y] \in Nat /\ SumFunctionOnSet(f, (U \ {c}) \ {y}) \in Nat
    <3>1. IsFiniteSet((U \ {c}) \ {y})
      BY <2>5, <2>6, FS_RemoveElement
    <3>2. \A z \in (U \ {c}) \ {y} : f[z] \in Nat
      OBVIOUS
    <3>3. SumFunctionOnSet(f, (U \ {c}) \ {y}) \in Nat
      BY <3>1, <3>2, SumNat
    <3> QED
      BY <2>5, <3>3
  <2>13. \A p, q, r \in Nat : p + (q + r) = q + (p + r)
    OBVIOUS
  <2>14. SumFunctionOnSet(f, U) = f[c] + (f[y] + SumFunctionOnSet(f, (U \ {c}) \ {y}))
    BY <2>7, <2>9
  <2>15. f[y] + SumFunctionOnSet(f, U \ {y})
           = f[y] + (f[c] + SumFunctionOnSet(f, (U \ {c}) \ {y}))
    BY <2>10, <2>11
  <2> QED
    BY <2>3, <2>12, <2>13, <2>14, <2>15
<1>2. Cardinality(S) \in Nat /\ S \in SUBSET S
  BY FS_CardinalityType
<1>3. ~Odd(S)
  BY <1>1, <1>2
<1> QED
  BY <1>3

LEMMA SumInsert ==
  ASSUME NEW f, NEW S, IsFiniteSet(S), NEW x, x \notin S, \A y \in S \cup {x} : f[y] \in Nat
  PROVE  SumFunctionOnSet(f, S \cup {x}) = f[x] + SumFunctionOnSet(f, S)
<1> DEFINE T == S \cup {x}
<1>1. IsFiniteSet(T) /\ x \in T /\ T \ {x} = S /\ \A y \in T : f[y] \in Nat
  BY FS_AddElement
<1> HIDE DEF T
<1>2. SumFunctionOnSet(f, T) = f[x] + SumFunctionOnSet(f, T \ {x})
  BY <1>1, SumRemove
<1> QED
  BY <1>1, <1>2 DEF T

(* The sum is additive and monotonic in its function.                      *)
LEMMA SumPlus ==
  ASSUME NEW S, IsFiniteSet(S), NEW f, NEW g, NEW h,
         \A x \in S : f[x] \in Nat /\ g[x] \in Nat /\ h[x] = f[x] + g[x]
  PROVE  SumFunctionOnSet(h, S) = SumFunctionOnSet(f, S) + SumFunctionOnSet(g, S)
<1> DEFINE B == {T \in SUBSET S :
                   SumFunctionOnSet(h, T) = SumFunctionOnSet(f, T) + SumFunctionOnSet(g, T)}
<1>1. {} \in B
  BY SumEmpty
<1>2. ASSUME NEW T \in SUBSET S, NEW x \in S \ T, T \in B PROVE T \cup {x} \in B
  <2>1. IsFiniteSet(T) /\ \A y \in T \cup {x} : f[y] \in Nat /\ g[y] \in Nat /\ h[y] \in Nat
    BY FS_Subset
  <2>2. /\ SumFunctionOnSet(f, T \cup {x}) = f[x] + SumFunctionOnSet(f, T)
        /\ SumFunctionOnSet(g, T \cup {x}) = g[x] + SumFunctionOnSet(g, T)
        /\ SumFunctionOnSet(h, T \cup {x}) = h[x] + SumFunctionOnSet(h, T)
    BY <2>1, SumInsert
  <2>3. SumFunctionOnSet(f, T) \in Nat /\ SumFunctionOnSet(g, T) \in Nat
    BY <2>1, SumNat
  <2>4. \A a, b, c, d \in Nat : (a + b) + (c + d) = (a + c) + (b + d)
    OBVIOUS
  <2>5. T \cup {x} \in SUBSET S /\ f[x] \in Nat /\ g[x] \in Nat /\ h[x] = f[x] + g[x]
    OBVIOUS
  <2>6. SumFunctionOnSet(h, T) = SumFunctionOnSet(f, T) + SumFunctionOnSet(g, T)
    BY <1>2
  <2>7. SumFunctionOnSet(h, T \cup {x})
          = (f[x] + g[x]) + (SumFunctionOnSet(f, T) + SumFunctionOnSet(g, T))
    BY <2>2, <2>5, <2>6
  <2>8. (f[x] + g[x]) + (SumFunctionOnSet(f, T) + SumFunctionOnSet(g, T))
          = SumFunctionOnSet(f, T \cup {x}) + SumFunctionOnSet(g, T \cup {x})
    BY <2>2, <2>3, <2>4, <2>5
  <2> QED
    BY <2>5, <2>7, <2>8
<1> HIDE DEF B
<1>3. S \in B
  BY <1>1, <1>2, SetInduction
<1> QED
  BY <1>3 DEF B

LEMMA SumZero ==
  ASSUME NEW S, IsFiniteSet(S), NEW f, \A x \in S : f[x] = 0
  PROVE  SumFunctionOnSet(f, S) = 0
<1>1. \A x \in S : f[x] \in Nat /\ f[x] = f[x] + f[x]
  OBVIOUS
<1>2. SumFunctionOnSet(f, S) = SumFunctionOnSet(f, S) + SumFunctionOnSet(f, S)
  <2>1. ASSUME NEW g, NEW h, g = f, h = f
        PROVE  SumFunctionOnSet(h, S) = SumFunctionOnSet(f, S) + SumFunctionOnSet(g, S)
    BY <1>1, <2>1, SumPlus
  <2> QED
    BY <2>1
<1>3. SumFunctionOnSet(f, S) \in Nat
  BY <1>1, SumNat
<1>4. \A n \in Nat : n = n + n => n = 0
  OBVIOUS
<1> QED
  BY <1>2, <1>3, <1>4

LEMMA SumSame ==
  ASSUME NEW S, IsFiniteSet(S), NEW f, NEW g, \A x \in S : f[x] \in Nat /\ g[x] = f[x]
  PROVE  SumFunctionOnSet(g, S) = SumFunctionOnSet(f, S)
<1> DEFINE z == [x \in S |-> 0]
<1>1. \A x \in S : f[x] \in Nat /\ z[x] \in Nat /\ g[x] = f[x] + z[x] /\ z[x] = 0
  OBVIOUS
<1> HIDE DEF z
<1>2. SumFunctionOnSet(g, S) = SumFunctionOnSet(f, S) + SumFunctionOnSet(z, S)
  BY <1>1, SumPlus
<1>3. SumFunctionOnSet(z, S) = 0 /\ SumFunctionOnSet(f, S) \in Nat
  BY <1>1, SumZero, SumNat
<1> QED
  BY <1>2, <1>3

LEMMA SumLess ==
  ASSUME NEW S, IsFiniteSet(S), NEW f, NEW g,
         \A x \in S : f[x] \in Nat /\ g[x] \in Nat /\ f[x] <= g[x]
  PROVE  SumFunctionOnSet(f, S) <= SumFunctionOnSet(g, S)
<1> DEFINE d == [x \in S |-> g[x] - f[x]]
<1>1. \A x \in S : d[x] \in Nat /\ g[x] = f[x] + d[x]
  OBVIOUS
<1> HIDE DEF d
<1>2. SumFunctionOnSet(g, S) = SumFunctionOnSet(f, S) + SumFunctionOnSet(d, S)
  BY <1>1, SumPlus
<1>3. SumFunctionOnSet(d, S) \in Nat /\ SumFunctionOnSet(f, S) \in Nat
  BY <1>1, SumNat
<1> QED
  BY <1>2, <1>3

(* Summands that are zero can be left out.                                 *)
LEMMA SumWithin ==
  ASSUME NEW S, IsFiniteSet(S), NEW T, T \subseteq S, NEW f,
         \A x \in T : f[x] \in Nat, \A x \in S \ T : f[x] = 0
  PROVE  SumFunctionOnSet(f, S) = SumFunctionOnSet(f, T)
<1> DEFINE R == S \ T
           B == {U \in SUBSET R : SumFunctionOnSet(f, T \cup U) = SumFunctionOnSet(f, T)}
<1>1. IsFiniteSet(R) /\ IsFiniteSet(T) /\ \A x \in S : f[x] \in Nat
  BY FS_Subset
<1>2. {} \in B
  <2>1. T \cup {} = T
    OBVIOUS
  <2> QED
    BY <2>1
<1>3. ASSUME NEW U \in SUBSET R, NEW x \in R \ U, U \in B PROVE U \cup {x} \in B
  <2>1. IsFiniteSet(T \cup U) /\ x \notin T \cup U /\ \A y \in (T \cup U) \cup {x} : f[y] \in Nat
    <3>1. T \cup U \in SUBSET S
      OBVIOUS
    <3>2. IsFiniteSet(T \cup U)
      BY <3>1, FS_Subset
    <3> QED
      BY <1>1, <3>2
  <2>2. SumFunctionOnSet(f, (T \cup U) \cup {x}) = f[x] + SumFunctionOnSet(f, T \cup U)
    BY <2>1, SumInsert
  <2>3. f[x] = 0 /\ SumFunctionOnSet(f, T \cup U) \in Nat
    BY <2>1, SumNat
  <2>4. (T \cup U) \cup {x} = T \cup (U \cup {x})
    OBVIOUS
  <2>5. U \cup {x} \in SUBSET R /\ SumFunctionOnSet(f, T \cup U) = SumFunctionOnSet(f, T)
    BY <1>3
  <2>6. \A n \in Nat : 0 + n = n
    OBVIOUS
  <2>7. SumFunctionOnSet(f, T \cup (U \cup {x})) = SumFunctionOnSet(f, T)
    BY <2>2, <2>3, <2>4, <2>5, <2>6
  <2> QED
    BY <2>5, <2>7
<1> HIDE DEF B
<1>4. R \in B
  BY <1>1, <1>2, <1>3, SetInduction
<1>5. T \cup R = S
  OBVIOUS
<1> QED
  BY <1>4, <1>5 DEF B

LEMMA SumOnly ==
  ASSUME NEW S, IsFiniteSet(S), NEW x \in S, NEW f, f[x] \in Nat, \A y \in S \ {x} : f[y] = 0
  PROVE  SumFunctionOnSet(f, S) = f[x]
<1>1. IsFiniteSet(S \ {x}) /\ \A y \in S : f[y] \in Nat
  BY FS_RemoveElement
<1>2. SumFunctionOnSet(f, S) = f[x] + SumFunctionOnSet(f, S \ {x})
  BY <1>1, SumRemove
<1>3. SumFunctionOnSet(f, S \ {x}) = 0
  BY <1>1, SumZero
<1> QED
  BY <1>2, <1>3

LEMMA SumOfOnes ==
  ASSUME NEW S, IsFiniteSet(S), NEW f, \A x \in S : f[x] = 1
  PROVE  SumFunctionOnSet(f, S) = Cardinality(S)
<1> DEFINE B == {T \in SUBSET S : SumFunctionOnSet(f, T) = Cardinality(T)}
<1>1. {} \in B
  BY SumEmpty, FS_EmptySet
<1>2. ASSUME NEW T \in SUBSET S, NEW x \in S \ T, T \in B PROVE T \cup {x} \in B
  <2>1. IsFiniteSet(T) /\ \A y \in T \cup {x} : f[y] \in Nat
    BY FS_Subset
  <2>2. SumFunctionOnSet(f, T \cup {x}) = f[x] + SumFunctionOnSet(f, T)
    BY <2>1, SumInsert
  <2>3. Cardinality(T \cup {x}) = Cardinality(T) + 1 /\ Cardinality(T) \in Nat
    BY <2>1, FS_AddElement, FS_CardinalityType
  <2>4. T \cup {x} \in SUBSET S /\ f[x] = 1
    OBVIOUS
  <2> QED
    BY <1>2, <2>2, <2>3, <2>4
<1> HIDE DEF B
<1>3. S \in B
  BY <1>1, <1>2, SetInduction
<1> QED
  BY <1>3 DEF B

----------------------------------------------------------------------------
(* The same facts about the families of naturals that the modules sum.     *)
LEMMA FamilyNat ==
  ASSUME NEW S, IsFiniteSet(S), NEW f \in [S -> Nat]
  PROVE  SumFunction(f) \in Nat
<1>1. DOMAIN f = S /\ \A x \in S : f[x] \in Nat
  OBVIOUS
<1> QED
  BY <1>1, SumNat DEF SumFunction

LEMMA FamilyLess ==
  ASSUME NEW S, IsFiniteSet(S), NEW f \in [S -> Nat], NEW g \in [S -> Nat],
         \A x \in S : f[x] <= g[x]
  PROVE  SumFunction(f) <= SumFunction(g)
<1>1. /\ DOMAIN f = S /\ DOMAIN g = S
      /\ \A x \in S : f[x] \in Nat /\ g[x] \in Nat /\ f[x] <= g[x]
  OBVIOUS
<1>2. SumFunctionOnSet(f, S) <= SumFunctionOnSet(g, S)
  BY <1>1, SumLess
<1> QED
  BY <1>1, <1>2 DEF SumFunction

LEMMA FamilyPlus ==
  ASSUME NEW S, IsFiniteSet(S), NEW f \in [S -> Nat], NEW g \in [S -> Nat],
         NEW h \in [S -> Nat], \A x \in S : h[x] = f[x] + g[x]
  PROVE  SumFunction(h) = SumFunction(f) + SumFunction(g)
<1>1. /\ DOMAIN f = S /\ DOMAIN g = S /\ DOMAIN h = S
      /\ \A x \in S : f[x] \in Nat /\ g[x] \in Nat /\ h[x] = f[x] + g[x]
  OBVIOUS
<1>2. SumFunctionOnSet(h, S) = SumFunctionOnSet(f, S) + SumFunctionOnSet(g, S)
  BY <1>1, SumPlus
<1> QED
  BY <1>1, <1>2 DEF SumFunction

(* A family that is zero outside T sums to what it sums to over T.         *)
LEMMA FamilyWithin ==
  ASSUME NEW S, IsFiniteSet(S), NEW T, T \subseteq S, NEW f \in [S -> Nat], NEW g \in [T -> Nat],
         \A x \in T : f[x] = g[x], \A x \in S \ T : f[x] = 0
  PROVE  SumFunction(f) = SumFunction(g)
<1>1. /\ DOMAIN f = S /\ DOMAIN g = T
      /\ \A x \in T : g[x] \in Nat /\ f[x] \in Nat /\ f[x] = g[x]
      /\ IsFiniteSet(T)
  <2>1. IsFiniteSet(T)
    BY FS_Subset
  <2> QED
    BY <2>1
<1>2. SumFunctionOnSet(f, S) = SumFunctionOnSet(f, T)
  BY <1>1, SumWithin
<1>3. SumFunctionOnSet(f, T) = SumFunctionOnSet(g, T)
  BY <1>1, SumSame
<1> QED
  BY <1>1, <1>2, <1>3 DEF SumFunction

(* What is added on T is added to the sum.                                 *)
LEMMA FamilyAdd ==
  ASSUME NEW S, IsFiniteSet(S), NEW T, T \subseteq S, NEW f \in [S -> Nat], NEW h \in [S -> Nat],
         NEW g \in [T -> Nat],
         \A x \in T : h[x] = f[x] + g[x], \A x \in S \ T : h[x] = f[x]
  PROVE  SumFunction(h) = SumFunction(f) + SumFunction(g)
<1> DEFINE e == [x \in S |-> IF x \in T THEN g[x] ELSE 0]
<1>1. e \in [S -> Nat]
  OBVIOUS
<1>2. \A x \in T : e[x] = g[x]
  OBVIOUS
<1>3. \A x \in S \ T : e[x] = 0
  OBVIOUS
<1>4. \A x \in S : h[x] = f[x] + e[x]
  <2>1. ASSUME NEW x \in S PROVE h[x] = f[x] + e[x]
    <3>1. CASE x \in T
      BY <1>2, <3>1
    <3>2. CASE x \notin T
      <4>1. e[x] = 0 /\ h[x] = f[x] /\ f[x] \in Nat
        BY <3>2
      <4> QED
        BY <4>1
    <3> QED
      BY <3>1, <3>2
  <2> QED
    BY <2>1
<1> HIDE DEF e
<1>5. SumFunction(h) = SumFunction(f) + SumFunction(e)
  BY <1>1, <1>4, FamilyPlus
<1>6. SumFunction(e) = SumFunction(g)
  BY <1>1, <1>2, <1>3, FamilyWithin
<1> QED
  BY <1>5, <1>6

LEMMA FamilyAddOne ==
  ASSUME NEW S, IsFiniteSet(S), NEW x \in S, NEW c \in Nat, NEW f \in [S -> Nat],
         NEW h \in [S -> Nat], h[x] = f[x] + c, \A y \in S \ {x} : h[y] = f[y]
  PROVE  SumFunction(h) = SumFunction(f) + c
<1> DEFINE T == {x}
           g == [y \in T |-> c]
<1>1. g \in [T -> Nat] /\ g[x] = c /\ DOMAIN g = T /\ T \subseteq S
  OBVIOUS
<1>2. IsFiniteSet(T) /\ x \in T /\ \A y \in T \ {x} : g[y] = 0
  BY FS_Singleton
<1>3. (\A y \in T : h[y] = f[y] + g[y]) /\ \A y \in S \ T : h[y] = f[y]
  OBVIOUS
<1> HIDE DEF g, T
<1>4. SumFunctionOnSet(g, T) = g[x]
  BY <1>1, <1>2, SumOnly
<1>5. SumFunction(g) = c
  BY <1>1, <1>4 DEF SumFunction
<1>6. SumFunction(h) = SumFunction(f) + SumFunction(g)
  BY <1>1, <1>3, FamilyAdd
<1> QED
  BY <1>5, <1>6

(* A family of zeros and ones counts.                                      *)
LEMMA FamilyCounts ==
  ASSUME NEW S, IsFiniteSet(S), NEW T, T \subseteq S, NEW f \in [S -> Nat],
         \A x \in T : f[x] = 1, \A x \in S \ T : f[x] = 0
  PROVE  SumFunction(f) = Cardinality(T)
<1>1. DOMAIN f = S /\ IsFiniteSet(T) /\ \A x \in T : f[x] \in Nat
  BY FS_Subset
<1>2. SumFunctionOnSet(f, S) = SumFunctionOnSet(f, T)
  BY <1>1, SumWithin
<1>3. SumFunctionOnSet(f, T) = Cardinality(T)
  BY <1>1, SumOfOnes
<1> QED
  BY <1>1, <1>2, <1>3 DEF SumFunction

LEMMA FamilyZero ==
  ASSUME NEW S, IsFiniteSet(S), NEW f \in [S -> Nat], \A x \in S : f[x] = 0
  PROVE  SumFunction(f) = 0
<1>1. DOMAIN f = S
  OBVIOUS
<1> QED
  BY <1>1, SumZero DEF SumFunction
=============================================================================
