---------------------------- MODULE CascadeProofs ----------------------------
(***************************************************************************)
(* Proofs about module Cascade, for every set of instances, number of      *)
(* tiers, limits, costs and number of resumes.  Ledger says that records   *)
(* and counters agree, and with what it needs around it (BooksInv) is      *)
(* inductive; SweepInv, what the sweep of a tier has accounted for; Order, *)
(* that tiers are tried in their order while money is left; Ceiling, that  *)
(* nothing is left unrecorded on disk above the tier at hand.  Order and   *)
(* Ceiling end where a --resume raises the limit.                          *)
(*                                                                         *)
(* Names: R and Q are records before and after a step, s a list of         *)
(* attempts, t and u tiers, h what halted an attempt.                      *)
(***************************************************************************)
EXTENDS Cascade, Sums

----------------------------------------------------------------------------
(* The attempts of an instance.                                            *)
One(s) == \A k, l \in DOMAIN s : s[k].tier = s[l].tier => k = l
Free(s) == \A k \in DOMAIN s : s[k].halted = "skipped_budget" => s[k].cost = 0
Lists == {s \in Seq(AttemptSet) : One(s) /\ Free(s)}

Any(s, t) == \E k \in DOMAIN s : s[k].tier = t
Is(s, t, h) == \E k \in DOMAIN s : s[k].tier = t /\ s[k].halted = h
Cost(s, t) == SumFunction([k \in {j \in DOMAIN s : s[j].tier = t} |-> s[k].cost])

(* The shape of a list of attempts.                                        *)
LEMMA ListType ==
  ASSUME NEW s \in Seq(AttemptSet)
  PROVE  /\ Len(s) \in Nat /\ DOMAIN s = 1 .. Len(s) /\ IsFiniteSet(DOMAIN s)
         /\ \A k \in DOMAIN s :
              /\ s[k] \in AttemptSet /\ s[k].tier \in Tiers /\ s[k].cost \in Nat
              /\ s[k].halted \in {"none", "skipped_budget", "eval_pending"}
<1>1. Len(s) \in Nat /\ DOMAIN s = 1 .. Len(s) /\ \A k \in DOMAIN s : s[k] \in AttemptSet
  OBVIOUS
<1>2. IsFiniteSet(1 .. Len(s))
  BY <1>1, FS_Interval
<1> QED
  BY <1>1, <1>2 DEF AttemptSet

(* An instance pays for a tier what its attempt cost.                      *)
LEMMA CostValue ==
  ASSUME NEW s \in Lists, NEW t
  PROVE  /\ Cost(s, t) \in Nat
         /\ ~Any(s, t) => Cost(s, t) = 0
         /\ \A k \in DOMAIN s : s[k].tier = t => Cost(s, t) = s[k].cost
         /\ Cardinality({j \in DOMAIN s : s[j].tier = t}) = IF Any(s, t) THEN 1 ELSE 0
<1> DEFINE A == {j \in DOMAIN s : s[j].tier = t}
           f == [k \in A |-> s[k].cost]
<1>1. /\ s \in Seq(AttemptSet) /\ One(s)
      /\ \A k, l \in DOMAIN s : s[k].tier = s[l].tier => k = l
  BY DEF Lists, One
<1>2. /\ IsFiniteSet(DOMAIN s) /\ \A k \in DOMAIN s : s[k].cost \in Nat
      /\ A \in SUBSET DOMAIN s
  BY <1>1, ListType
<1>3. IsFiniteSet(A)
  BY <1>2, FS_Subset
<1>4. f \in [A -> Nat] /\ DOMAIN f = A
  BY <1>2
<1>5. Cost(s, t) = SumFunction(f)
  BY DEF Cost
<1>6. ~Any(s, t) <=> A = {}
  BY DEF Any
<1>7. ASSUME NEW k \in DOMAIN s, s[k].tier = t
      PROVE  A = {k} /\ f[k] = s[k].cost /\ k \in A
  BY <1>1, <1>7
<1> HIDE DEF A, f
<1>8. SumFunction(f) \in Nat
  BY <1>3, <1>4, FamilyNat
<1>9. ASSUME A = {} PROVE SumFunction(f) = 0 /\ Cardinality(A) = 0
  BY <1>3, <1>4, <1>9, FamilyZero, FS_EmptySet
<1>10. ASSUME NEW k \in DOMAIN s, s[k].tier = t
       PROVE  SumFunction(f) = s[k].cost /\ Cardinality(A) = 1
  <2>1. A = {k} /\ f[k] = s[k].cost /\ k \in A /\ f[k] \in Nat /\ \A y \in A \ {k} : f[y] = 0
    BY <1>2, <1>7, <1>10
  <2>2. SumFunctionOnSet(f, A) = f[k]
    BY <1>3, <2>1, SumOnly
  <2> QED
    BY <1>4, <2>1, <2>2, FS_Singleton DEF SumFunction
<1>11. Any(s, t) => \E k \in DOMAIN s : s[k].tier = t
  BY DEF Any
<1>12. Cardinality(A) = IF Any(s, t) THEN 1 ELSE 0
  BY <1>6, <1>9, <1>10, <1>11
<1>13. Cardinality({j \in DOMAIN s : s[j].tier = t}) = Cardinality(A)
  BY DEF A
<1> QED
  BY <1>5, <1>6, <1>8, <1>9, <1>10, <1>12, <1>13

(* Attempts that keep their tiers and their costs cost the same.           *)
LEMMA CostKept ==
  ASSUME NEW s \in Lists, NEW m \in Seq(AttemptSet), DOMAIN m = DOMAIN s,
         \A k \in DOMAIN s : m[k].tier = s[k].tier /\ m[k].cost = s[k].cost
                             /\ (m[k].halted = "skipped_budget" => s[k].halted = "skipped_budget")
  PROVE  /\ m \in Lists
         /\ \A t : Cost(m, t) = Cost(s, t) /\ (Any(m, t) <=> Any(s, t))
<1>1. m \in Lists
  BY DEF Lists, One, Free
<1>2. ASSUME NEW t PROVE Cost(m, t) = Cost(s, t) /\ (Any(m, t) <=> Any(s, t))
  <2>1. Any(m, t) <=> Any(s, t)
    BY DEF Any
  <2>2. ASSUME NEW k \in DOMAIN s, s[k].tier = t PROVE Cost(m, t) = Cost(s, t)
    <3>1. k \in DOMAIN m /\ m[k].tier = t /\ m[k].cost = s[k].cost
      BY <2>2
    <3>2. Cost(s, t) = s[k].cost
      BY <2>2, CostValue
    <3>3. Cost(m, t) = m[k].cost
      BY <1>1, <3>1, CostValue
    <3> QED
      BY <3>1, <3>2, <3>3
  <2>3. CASE ~Any(s, t)
    BY <1>1, <2>1, <2>3, CostValue
  <2> QED
    BY <2>1, <2>2, <2>3 DEF Any
<1> QED
  BY <1>1, <1>2

(* A first attempt at a tier.                                              *)
LEMMA Appended ==
  ASSUME NEW s \in Lists, NEW a \in AttemptSet, ~Any(s, a.tier),
         a.halted = "skipped_budget" => a.cost = 0
  PROVE  /\ Append(s, a) \in Lists
         /\ \A t, h : Is(Append(s, a), t, h) <=> Is(s, t, h) \/ (t = a.tier /\ h = a.halted)
         /\ \A t : Any(Append(s, a), t) <=> Any(s, t) \/ t = a.tier
         /\ \A t : Cost(Append(s, a), t) = IF t = a.tier THEN a.cost ELSE Cost(s, t)
<1> DEFINE r == Append(s, a)
<1>1. s \in Seq(AttemptSet) /\ One(s) /\ Free(s)
  BY DEF Lists
<1>2. /\ r \in Seq(AttemptSet) /\ DOMAIN r = 1 .. Len(s) + 1 /\ r[Len(s) + 1] = a
      /\ \A k \in DOMAIN s : k \in DOMAIN r /\ r[k] = s[k]
      /\ \A k \in DOMAIN r : k \in DOMAIN s \/ k = Len(s) + 1
      /\ Len(s) + 1 \in DOMAIN r
  BY <1>1
<1> HIDE DEF r
<1>3. \A k \in DOMAIN s : s[k].tier # a.tier
  BY DEF Any
<1>4. One(r)
  BY <1>1, <1>2, <1>3 DEF One
<1>5. Free(r)
  BY <1>1, <1>2 DEF Free
<1>6. r \in Lists
  BY <1>2, <1>4, <1>5 DEF Lists
<1>7. \A t, h : Is(r, t, h) <=> Is(s, t, h) \/ (t = a.tier /\ h = a.halted)
  BY <1>2 DEF Is
<1>8. \A t : Any(r, t) <=> Any(s, t) \/ t = a.tier
  BY <1>2 DEF Any
<1>9. ASSUME NEW t PROVE Cost(r, t) = IF t = a.tier THEN a.cost ELSE Cost(s, t)
  <2>1. CASE t = a.tier
    BY <1>2, <1>6, <2>1, CostValue
  <2>2. CASE t # a.tier /\ Any(s, t)
    <3>1. PICK k \in DOMAIN s : s[k].tier = t
      BY <2>2 DEF Any
    <3>2. Cost(s, t) = s[k].cost
      BY <3>1, CostValue
    <3>3. Cost(r, t) = r[k].cost
      BY <1>2, <1>6, <3>1, CostValue
    <3> QED
      BY <1>2, <2>2, <3>2, <3>3
  <2>3. CASE t # a.tier /\ ~Any(s, t)
    BY <1>6, <1>8, <2>3, CostValue
  <2> QED
    BY <2>1, <2>2, <2>3
<1> QED
  BY <1>6, <1>7, <1>8, <1>9 DEF r

----------------------------------------------------------------------------
(* What retain() keeps.                                                    *)
Refused(a) == a.tier = tier /\ a.halted = "skipped_budget"
Keeps(s, n, g) ==
  [m \in 0 .. n |->
     IF m = 0 THEN <<>>
     ELSE IF s[m].tier = tier /\ s[m].halted = "skipped_budget" THEN g[m - 1]
     ELSE Append(g[m - 1], s[m])]

LEMMA KeepsExists ==
  ASSUME NEW s, NEW n \in Nat
  PROVE  \E g : g = Keeps(s, n, g)
<1> DEFINE B == {m \in Nat : \E g : g = Keeps(s, m, g)}
<1>1. 0 \in B
  <2> DEFINE g == [m \in 0 .. 0 |-> <<>>]
  <2>1. g = Keeps(s, 0, g)
    BY DEF Keeps
  <2> QED
    BY <2>1
<1>2. ASSUME NEW m \in Nat, m \in B PROVE m + 1 \in B
  <2>1. PICK h : h = Keeps(s, m, h)
    BY <1>2
  <2> DEFINE g == Keeps(s, m + 1, h)
  <2>2. \A l \in 0 .. m : l \in 0 .. m + 1
    OBVIOUS
  <2>3. ASSUME NEW l \in 0 .. m PROVE g[l] = h[l]
    <3>1. h[l] = Keeps(s, m, h)[l]
      BY <2>1
    <3>2. Keeps(s, m, h)[l] = Keeps(s, m + 1, h)[l]
      BY <2>2 DEF Keeps
    <3> QED
      BY <3>1, <3>2
  <2>4. \A l \in 0 .. m + 1 : l # 0 => l - 1 \in 0 .. m
    OBVIOUS
  <2>5. \A l \in 0 .. m + 1 : l # 0 => g[l - 1] = h[l - 1]
    BY <2>3, <2>4
  <2>6. g = Keeps(s, m + 1, h)
    OBVIOUS
  <2> HIDE DEF g
  <2>7. Keeps(s, m + 1, h) = Keeps(s, m + 1, g)
    BY <2>5 DEF Keeps
  <2> QED
    BY <2>6, <2>7
<1> HIDE DEF B
<1>3. n \in B
  BY <1>1, <1>2, Induction
<1> QED
  BY <1>3 DEF B

(* The module's recursion has a solution, and CHOOSE finds one.            *)
LEMMA WithoutSkipIs ==
  ASSUME NEW s \in Seq(AttemptSet)
  PROVE  \E g : g = Keeps(s, Len(s), g) /\ WithoutSkip(s) = g[Len(s)]
<1> DEFINE g == CHOOSE g : g = Keeps(s, Len(s), g)
<1>1. WithoutSkip(s) = g[Len(s)]
  BY DEF WithoutSkip, Keeps
<1>2. Len(s) \in Nat
  OBVIOUS
<1>3. \E h : h = Keeps(s, Len(s), h)
  BY <1>2, KeepsExists
<1>4. g = Keeps(s, Len(s), g)
  BY <1>3
<1> QED
  BY <1>1, <1>4

(* The placeholders of the tier go, everything else stays and costs the    *)
(* same.                                                                   *)
LEMMA WithoutSkipKeeps ==
  ASSUME NEW s \in Lists
  PROVE  /\ WithoutSkip(s) \in Lists
         /\ \A t, h : Is(WithoutSkip(s), t, h) <=>
                        Is(s, t, h) /\ ~(t = tier /\ h = "skipped_budget")
         /\ \A t : Cost(WithoutSkip(s), t) = Cost(s, t)
<1>1. s \in Seq(AttemptSet) /\ One(s) /\ Free(s) /\ Len(s) \in Nat /\ DOMAIN s = 1 .. Len(s)
  BY DEF Lists
<1>2. PICK g : g = Keeps(s, Len(s), g) /\ WithoutSkip(s) = g[Len(s)]
  BY <1>1, WithoutSkipIs
<1> DEFINE From(r, n) == \A a \in AttemptSet :
             (\E k \in DOMAIN r : r[k] = a) <=> \E k \in 1 .. n : s[k] = a /\ ~Refused(a)
           B == {n \in Nat : n <= Len(s) => g[n] \in Seq(AttemptSet) /\ One(g[n]) /\ From(g[n], n)}
<1>3. 0 \in B
  <2>1. 0 \in 0 .. Len(s) /\ DOMAIN <<>> = {} /\ 1 .. 0 = {}
    BY <1>1
  <2>2. g[0] = <<>>
    BY <1>2, <2>1 DEF Keeps
  <2>3. <<>> \in Seq(AttemptSet) /\ One(<<>>)
    BY <2>1 DEF One
  <2>4. From(<<>>, 0)
    BY <2>1
  <2> QED
    BY <2>2, <2>3, <2>4
<1>4. ASSUME NEW n \in Nat, n \in B, n + 1 <= Len(s)
      PROVE  g[n + 1] \in Seq(AttemptSet) /\ One(g[n + 1]) /\ From(g[n + 1], n + 1)
  <2> DEFINE r == g[n]
             a == s[n + 1]
  <2>1. /\ n <= Len(s) /\ n + 1 \in 0 .. Len(s) /\ n + 1 # 0 /\ (n + 1) - 1 = n
        /\ n + 1 \in DOMAIN s /\ 1 .. n \subseteq DOMAIN s
        /\ \A k \in 1 .. n : k # n + 1
        /\ \A k : k \in 1 .. n + 1 <=> k \in 1 .. n \/ k = n + 1
    BY <1>1, <1>4
  <2>2. r \in Seq(AttemptSet) /\ One(r) /\ From(r, n)
    BY <1>4, <2>1
  <2>3. g[n + 1] = Keeps(s, Len(s), g)[n + 1]
    BY <1>2
  <2>4. g[n + 1] = IF Refused(a) THEN r ELSE Append(r, a)
    BY <2>1, <2>3 DEF Keeps, Refused
  <2>5. a \in AttemptSet
    BY <1>1, <2>1
  <2>6. \A k \in 1 .. n : s[k].tier # a.tier
    BY <1>1, <2>1 DEF One
  <2> HIDE DEF r, a
  <2>7. CASE Refused(a)
    <3>1. From(r, n + 1)
      BY <2>1, <2>2, <2>7 DEF a
    <3> QED
      BY <2>2, <2>4, <2>7, <3>1
  <2>8. CASE ~Refused(a)
    <3>1. /\ Append(r, a) \in Seq(AttemptSet)
          /\ DOMAIN Append(r, a) = 1 .. Len(r) + 1 /\ Append(r, a)[Len(r) + 1] = a
          /\ \A k \in DOMAIN r : k \in DOMAIN Append(r, a) /\ Append(r, a)[k] = r[k]
          /\ \A k \in DOMAIN Append(r, a) : k \in DOMAIN r \/ k = Len(r) + 1
          /\ Len(r) + 1 \in DOMAIN Append(r, a)
          /\ \A k \in DOMAIN r : r[k] \in AttemptSet
      BY <2>2, <2>5
    <3>2. \A k \in DOMAIN r : r[k].tier # a.tier
      <4>1. ASSUME NEW k \in DOMAIN r PROVE r[k].tier # a.tier
        <5>1. \E j \in 1 .. n : s[j] = r[k]
          BY <2>2, <3>1
        <5> QED
          BY <2>6, <5>1
      <4> QED
        BY <4>1
    <3>3. One(Append(r, a))
      BY <2>2, <3>1, <3>2 DEF One
    <3>4. ASSUME NEW b \in AttemptSet
          PROVE  (\E k \in DOMAIN Append(r, a) : Append(r, a)[k] = b)
                   <=> \E k \in 1 .. n + 1 : s[k] = b /\ ~Refused(b)
      <4>1. (\E k \in DOMAIN Append(r, a) : Append(r, a)[k] = b)
               <=> (\E k \in DOMAIN r : r[k] = b) \/ b = a
        BY <3>1
      <4>2. (\E k \in DOMAIN r : r[k] = b) <=> \E k \in 1 .. n : s[k] = b /\ ~Refused(b)
        BY <2>2
      <4>3. (\E k \in 1 .. n + 1 : s[k] = b /\ ~Refused(b))
               <=> (\E k \in 1 .. n : s[k] = b /\ ~Refused(b)) \/ (b = a /\ ~Refused(b))
        BY <2>1 DEF a
      <4> QED
        BY <2>8, <4>1, <4>2, <4>3
    <3> QED
      BY <2>4, <2>8, <3>1, <3>3, <3>4
  <2> QED
    BY <2>7, <2>8
<1>5. \A n \in Nat : n \in B => n + 1 \in B
  BY <1>4
<1>6. Len(s) \in B
  <2> HIDE DEF B
  <2> QED
    BY <1>1, <1>3, <1>5, Induction
<1> DEFINE r == g[Len(s)]
<1>7. r \in Seq(AttemptSet) /\ One(r) /\ From(r, Len(s))
  BY <1>1, <1>6
<1>8. WithoutSkip(s) = r
  BY <1>2
<1> HIDE DEF r, B
<1>9. \A k \in DOMAIN r : r[k] \in AttemptSet /\ \E j \in DOMAIN s : s[j] = r[k] /\ ~Refused(r[k])
  <2>1. ASSUME NEW k \in DOMAIN r
        PROVE  r[k] \in AttemptSet /\ \E j \in DOMAIN s : s[j] = r[k] /\ ~Refused(r[k])
    <3>1. r[k] \in AttemptSet
      BY <1>7
    <3>2. \E j \in DOMAIN r : r[j] = r[k]
      OBVIOUS
    <3>3. \E j \in 1 .. Len(s) : s[j] = r[k] /\ ~Refused(r[k])
      BY <1>7, <3>1, <3>2
    <3> QED
      BY <1>1, <3>1, <3>3
  <2> QED
    BY <2>1
<1>10. \A k \in DOMAIN s : s[k] \in AttemptSet
                           /\ (~Refused(s[k]) => \E j \in DOMAIN r : r[j] = s[k])
  <2>1. ASSUME NEW k \in DOMAIN s
        PROVE  s[k] \in AttemptSet /\ (~Refused(s[k]) => \E j \in DOMAIN r : r[j] = s[k])
    <3>1. s[k] \in AttemptSet
      BY <1>1
    <3>2. k \in 1 .. Len(s)
      BY <1>1
    <3> QED
      BY <1>7, <3>1, <3>2
  <2> QED
    BY <2>1
<1> HIDE DEF From
<1>11. Free(r)
  BY <1>1, <1>9 DEF Free
<1>12. r \in Lists
  BY <1>7, <1>11 DEF Lists
<1>13. ASSUME NEW t, NEW h
       PROVE  Is(r, t, h) <=> Is(s, t, h) /\ ~(t = tier /\ h = "skipped_budget")
  BY <1>9, <1>10 DEF Is, Refused
<1>14. ASSUME NEW t PROVE Cost(r, t) = Cost(s, t)
  <2>1. CASE Any(r, t)
    <3>1. PICK k \in DOMAIN r : r[k].tier = t
      BY <2>1 DEF Any
    <3>2. PICK j \in DOMAIN s : s[j] = r[k]
      BY <1>9
    <3>3. Cost(r, t) = r[k].cost
      BY <1>12, <3>1, CostValue
    <3>4. Cost(s, t) = s[j].cost
      BY <3>1, <3>2, CostValue
    <3> QED
      BY <3>2, <3>3, <3>4
  <2>2. CASE ~Any(r, t) /\ Any(s, t)
    <3>1. PICK k \in DOMAIN s : s[k].tier = t
      BY <2>2 DEF Any
    <3>2. Refused(s[k])
      BY <1>10, <2>2, <3>1 DEF Any
    <3>3. s[k].cost = 0
      BY <1>1, <3>2 DEF Free, Refused
    <3>4. Cost(s, t) = s[k].cost
      BY <3>1, CostValue
    <3>5. Cost(r, t) = 0
      BY <1>12, <2>2, CostValue
    <3> QED
      BY <3>3, <3>4, <3>5
  <2>3. CASE ~Any(r, t) /\ ~Any(s, t)
    BY <1>12, <2>3, CostValue
  <2> QED
    BY <2>1, <2>2, <2>3
<1> QED
  BY <1>8, <1>12, <1>13, <1>14

----------------------------------------------------------------------------
(* The records and the counters.                                           *)
RecordSet == [resolving : 0 .. NumTiers, total : Nat, attempts : Seq(AttemptSet)]

Total(s) == SumFunction([t \in Tiers |-> Cost(s, t)])
Attempted(R, t) == {i \in Instances : Any(R[i].attempts, t)}
Won(R, t) == {i \in Attempted(R, t) : R[i].resolving = t}
CostOf(R, t) == SumFunction([i \in Instances |-> Cost(R[i].attempts, t)])
SpentOf(R) == SumFunction([i \in Instances |-> R[i].total])

(* The records are right, and the counters are what they say.              *)
Listed(R) == \A i \in Instances : R[i].attempts \in Lists
Books(R, cumulative, stats) ==
  /\ \A i \in Instances : R[i].total = Total(R[i].attempts)
  /\ cumulative = SpentOf(R)
  /\ \A t \in Tiers : /\ stats[t].attempted = Cardinality(Attempted(R, t))
                      /\ stats[t].resolved = Cardinality(Won(R, t))
                      /\ stats[t].cost = CostOf(R, t)
Ledger == Listed(records) /\ Books(records, cumulative_cost, tier_stats)

LEMMA TiersFinite == IsFiniteSet(Tiers) /\ Cardinality(Tiers) = NumTiers /\ NumTiers \in Nat /\ 0 \notin Tiers
<1>1. NumTiers \in Nat
  BY TiersAssumption
<1>2. IsFiniteSet(1 .. NumTiers) /\ Cardinality(1 .. NumTiers) = NumTiers
  BY <1>1, FS_Interval
<1> QED
  BY <1>1, <1>2 DEF Tiers

(* What the definitions of the module say of the attempts.                 *)
LEMMA Reads ==
  ASSUME NEW i, records[i].attempts \in Lists, NEW t
  PROVE  /\ \A h : h \in HaltedAt(i, t) <=> Is(records[i].attempts, t, h)
         /\ RealAt(i, t) <=> Is(records[i].attempts, t, "none") \/ Is(records[i].attempts, t, "eval_pending")
         /\ CompletedAt(i, t) <=> Is(records[i].attempts, t, "none")
         /\ AttemptsAt(i, t) = {} <=> ~Any(records[i].attempts, t)
         /\ CostAt(i, t) = Cost(records[i].attempts, t)
         /\ Cardinality(AttemptsAt(i, t)) = IF Any(records[i].attempts, t) THEN 1 ELSE 0
<1> DEFINE s == records[i].attempts
<1>1. s \in Lists /\ s \in Seq(AttemptSet)
  BY DEF Lists
<1>2. \A k \in DOMAIN s : s[k].halted \in {"none", "skipped_budget", "eval_pending"}
  BY <1>1, ListType
<1>3. AttemptsAt(i, t) = {k \in DOMAIN s : s[k].tier = t}
  BY DEF AttemptsAt
<1>4. HaltedAt(i, t) = {s[k].halted : k \in AttemptsAt(i, t)}
  BY DEF HaltedAt
<1>5. CostAt(i, t) = SumFunction([k \in AttemptsAt(i, t) |-> s[k].cost])
  BY DEF CostAt
<1>6. RealAt(i, t) <=> HaltedAt(i, t) \ {"skipped_budget"} # {}
  BY DEF RealAt
<1>7. CompletedAt(i, t) <=> "none" \in HaltedAt(i, t)
  BY DEF CompletedAt
<1> HIDE DEF s
<1>8. \A h : h \in HaltedAt(i, t) <=> Is(s, t, h)
  BY <1>3, <1>4 DEF Is
<1>9. RealAt(i, t) <=> Is(s, t, "none") \/ Is(s, t, "eval_pending")
  <2>1. \A h : Is(s, t, h) => h \in {"none", "skipped_budget", "eval_pending"}
    BY <1>2 DEF Is
  <2> QED
    BY <1>6, <1>8, <2>1
<1>10. AttemptsAt(i, t) = {} <=> ~Any(s, t)
  BY <1>3 DEF Any
<1>11. CostAt(i, t) = Cost(s, t)
  BY <1>3, <1>5 DEF Cost
<1>12. Cardinality(AttemptsAt(i, t)) = IF Any(s, t) THEN 1 ELSE 0
  <2>1. Cardinality({k \in DOMAIN s : s[k].tier = t}) = IF Any(s, t) THEN 1 ELSE 0
    BY <1>1, CostValue
  <2> QED
    BY <1>3, <2>1
<1> QED
  BY <1>7, <1>8, <1>9, <1>10, <1>11, <1>12 DEF s

(* An instance that has not completed a tier has not completed them all.   *)
LEMMA NotAllDone ==
  ASSUME NEW s, NEW t \in Tiers, ~Is(s, t, "none")
  PROVE  Cardinality({u \in Tiers : Is(s, u, "none")}) < NumTiers
<1> DEFINE D == {u \in Tiers : Is(s, u, "none")}
<1>1. D \subseteq Tiers /\ D # Tiers
  OBVIOUS
<1> HIDE DEF D
<1>2. IsFiniteSet(Tiers) /\ Cardinality(Tiers) = NumTiers
  BY TiersFinite
<1>3. /\ Cardinality(D) <= Cardinality(Tiers)
      /\ Cardinality(D) = Cardinality(Tiers) => D = Tiers
      /\ IsFiniteSet(D)
  BY <1>1, <1>2, FS_Subset
<1>4. Cardinality(D) \in Nat /\ NumTiers \in Nat
  BY <1>3, FS_CardinalityType, TiersFinite
<1>5. Cardinality(D) < NumTiers
  BY <1>1, <1>2, <1>3, <1>4
<1> QED
  BY <1>5 DEF D

LEMMA PendingIs ==
  ASSUME Listed(records), NEW t \in Tiers, NEW i \in Instances
  PROVE  i \in Pending(t) <=> records[i].resolving = 0 /\ ~Is(records[i].attempts, t, "none")
<1> DEFINE s == records[i].attempts
<1>1. s \in Lists
  BY DEF Listed
<1>2. \A u : CompletedAt(i, u) <=> Is(s, u, "none")
  BY <1>1, Reads
<1>3. {u \in Tiers : CompletedAt(i, u)} = {u \in Tiers : Is(s, u, "none")}
  BY <1>2
<1>4. ~Is(s, t, "none") => Cardinality({u \in Tiers : CompletedAt(i, u)}) < NumTiers
  BY <1>3, NotAllDone
<1> QED
  BY <1>2, <1>4 DEF Pending

LEMMA EvalPendingIs ==
  ASSUME Listed(records), NEW t \in Tiers, NEW i \in Instances
  PROVE  i \in EvalPending(t) <=> i \in Pending(t) /\ Is(records[i].attempts, t, "eval_pending")
<1>1. records[i].attempts \in Lists
  BY DEF Listed
<1>2. "eval_pending" \in HaltedAt(i, t) <=> Is(records[i].attempts, t, "eval_pending")
  BY <1>1, Reads
<1> QED
  BY <1>2 DEF EvalPending, Pending

(* The properties that speak of the books, in these terms.                 *)
LEMMA StatsAre ==
  ASSUME Listed(records), NEW t \in Tiers
  PROVE  /\ StatsFromRecords[t].attempted = Cardinality(Attempted(records, t))
         /\ StatsFromRecords[t].resolved = Cardinality(Won(records, t))
         /\ StatsFromRecords[t].cost = CostOf(records, t)
<1> DEFINE f == [i \in Instances |-> Cardinality(AttemptsAt(i, t))]
           g == [i \in Instances |-> CostAt(i, t)]
<1>1. /\ StatsFromRecords[t].attempted = SumFunction(f)
      /\ StatsFromRecords[t].resolved = Cardinality({i \in AttemptedAt(t) : records[i].resolving = t})
      /\ StatsFromRecords[t].cost = SumFunction(g)
  BY DEF StatsFromRecords
<1>2. \A i \in Instances :
        /\ AttemptsAt(i, t) = {} <=> ~Any(records[i].attempts, t)
        /\ CostAt(i, t) = Cost(records[i].attempts, t)
        /\ Cardinality(AttemptsAt(i, t)) = IF Any(records[i].attempts, t) THEN 1 ELSE 0
  BY Reads DEF Listed
<1>3. AttemptedAt(t) = Attempted(records, t)
  BY <1>2 DEF AttemptedAt, Attempted
<1>4. g = [i \in Instances |-> Cost(records[i].attempts, t)]
  BY <1>2
<1>5. /\ f \in [Instances -> Nat]
      /\ \A i \in Attempted(records, t) : f[i] = 1
      /\ \A i \in Instances \ Attempted(records, t) : f[i] = 0
      /\ Attempted(records, t) \subseteq Instances
  BY <1>2 DEF Attempted
<1> HIDE DEF f, g
<1>6. SumFunction(f) = Cardinality(Attempted(records, t))
  BY <1>5, FamilyCounts, InstancesAssumption
<1> QED
  BY <1>1, <1>3, <1>4, <1>6 DEF Won, CostOf

----------------------------------------------------------------------------
(* What the steps do to a record, field by field.                          *)
Charged(r, a, c) == [r EXCEPT !.attempts = a, !.total = c]

LEMMA FieldsSpend ==
  ASSUME NEW r \in RecordSet, NEW a \in Seq(AttemptSet), NEW c \in Nat, NEW q, q = Charged(r, a, c)
  PROVE  /\ q \in RecordSet
         /\ q.total = c
         /\ q.attempts = a
         /\ q.resolving = r.resolving
  BY DEF RecordSet, Charged

Settled(r, a, c) == [r EXCEPT !.attempts = a, !.resolving = c]

LEMMA FieldsJudge ==
  ASSUME NEW r \in RecordSet, NEW a \in Seq(AttemptSet), NEW c \in 0 .. NumTiers, NEW q, q = Settled(r, a, c)
  PROVE  /\ q \in RecordSet
         /\ q.total = r.total
         /\ q.attempts = a
         /\ q.resolving = c
  BY DEF RecordSet, Settled

Noted(r, a) == [r EXCEPT !.attempts = a]

LEMMA FieldsMark ==
  ASSUME NEW r \in RecordSet, NEW a \in Seq(AttemptSet), NEW q, q = Noted(r, a)
  PROVE  /\ q \in RecordSet
         /\ q.total = r.total
         /\ q.attempts = a
         /\ q.resolving = r.resolving
  BY DEF RecordSet, Noted

(* A placeholder is for an instance that has no attempt at the tier, and   *)
(* costs nothing.                                                          *)
LEMMA MarkedEffect ==
  ASSUME TypeOK, Listed(records), tier \in Tiers, MarkSkipped
  PROVE  /\ records' \in [Instances -> RecordSet] /\ Listed(records')
         /\ Unmarked \subseteq Pending(tier)
         /\ \A i \in Unmarked : /\ i \in Instances /\ records[i].resolving = 0
                                /\ ~Any(records[i].attempts, tier)
         /\ \A i \in Instances :
              /\ records'[i].resolving = records[i].resolving
              /\ records'[i].total = records[i].total
              /\ \A t, h : Is(records'[i].attempts, t, h) <=>
                   Is(records[i].attempts, t, h) \/ (i \in Unmarked /\ t = tier /\ h = "skipped_budget")
              /\ \A t : Any(records'[i].attempts, t) <=>
                   Any(records[i].attempts, t) \/ (i \in Unmarked /\ t = tier)
              /\ \A t : Cost(records'[i].attempts, t) = Cost(records[i].attempts, t)
<1> DEFINE a == Attempt(tier, Row("budget_halt", 0))
<1>1. a \in AttemptSet /\ a.tier = tier /\ a.cost = 0 /\ a.halted = "skipped_budget"
  BY DEF Attempt, Row, AttemptSet
<1>2. records \in [Instances -> RecordSet]
  BY DEF TypeOK, RecordSet
<1>3. \A i \in Instances : records[i].attempts \in Lists
  BY DEF Listed
<1>4. Unmarked \subseteq Pending(tier) /\ Pending(tier) \subseteq Instances
  BY DEF Unmarked, Pending
<1>5. ASSUME NEW i \in Unmarked
      PROVE  i \in Instances /\ records[i].resolving = 0 /\ ~Any(records[i].attempts, tier)
  <2> DEFINE s == records[i].attempts
  <2>1. i \in Instances /\ i \in Pending(tier) /\ i \notin EvalPending(tier)
        /\ "skipped_budget" \notin HaltedAt(i, tier)
    BY <1>4 DEF Unmarked
  <2>2. s \in Lists /\ s \in Seq(AttemptSet)
    BY <1>3, <2>1 DEF Lists
  <2>3. records[i].resolving = 0 /\ ~Is(s, tier, "none")
    BY <2>1, PendingIs
  <2>4. ~Is(s, tier, "eval_pending")
    BY <2>1, EvalPendingIs
  <2>5. ~Is(s, tier, "skipped_budget")
    BY <2>1, <2>2, Reads
  <2>6. \A k \in DOMAIN s : s[k].halted \in {"none", "skipped_budget", "eval_pending"}
    BY <2>2, ListType
  <2> QED
    BY <2>1, <2>3, <2>4, <2>5, <2>6 DEF Any, Is
<1>6. records' = [i \in Instances |-> IF i \in Unmarked THEN [records[i] EXCEPT !.attempts = Append(@, a)]
                                      ELSE records[i]]
  BY DEF MarkSkipped
<1> HIDE DEF a
<1>7. ASSUME NEW i \in Unmarked
      PROVE  /\ Append(records[i].attempts, a) \in Lists
             /\ \A t, h : Is(Append(records[i].attempts, a), t, h)
                            <=> Is(records[i].attempts, t, h) \/ (t = tier /\ h = "skipped_budget")
             /\ \A t : Any(Append(records[i].attempts, a), t) <=> Any(records[i].attempts, t) \/ t = tier
             /\ \A t : Cost(Append(records[i].attempts, a), t) = Cost(records[i].attempts, t)
  <2> DEFINE s == records[i].attempts
  <2>1. s \in Lists /\ ~Any(s, a.tier) /\ (a.halted = "skipped_budget" => a.cost = 0)
    BY <1>1, <1>3, <1>5
  <2> HIDE DEF s
  <2>2. /\ Append(s, a) \in Lists
        /\ \A t, h : Is(Append(s, a), t, h) <=> Is(s, t, h) \/ (t = a.tier /\ h = a.halted)
        /\ \A t : Any(Append(s, a), t) <=> Any(s, t) \/ t = a.tier
        /\ \A t : Cost(Append(s, a), t) = IF t = a.tier THEN a.cost ELSE Cost(s, t)
    BY <1>1, <2>1, Appended
  <2>3. Cost(s, tier) = 0
    BY <1>1, <2>1, CostValue
  <2> QED
    BY <1>1, <2>2, <2>3 DEF s
<1>8. \A i \in Instances \ Unmarked : records'[i] = records[i]
  BY <1>6
<1>9. ASSUME NEW i \in Unmarked
      PROVE  /\ records'[i] \in RecordSet /\ records'[i].resolving = records[i].resolving
             /\ records'[i].total = records[i].total
             /\ records'[i].attempts \in Lists
             /\ \A t, h : Is(records'[i].attempts, t, h)
                            <=> Is(records[i].attempts, t, h) \/ (t = tier /\ h = "skipped_budget")
             /\ \A t : Any(records'[i].attempts, t) <=> Any(records[i].attempts, t) \/ t = tier
             /\ \A t : Cost(records'[i].attempts, t) = Cost(records[i].attempts, t)
  <2> DEFINE s == Append(records[i].attempts, a)
  <2>1. records[i] \in RecordSet /\ i \in Instances
    BY <1>2, <1>4
  <2>2. records'[i] = Noted(records[i], s)
    BY <1>6, <2>1 DEF Noted
  <2>3. s \in Seq(AttemptSet)
    BY <1>7 DEF Lists
  <2>4. /\ s \in Lists
        /\ \A t, h : Is(s, t, h) <=> Is(records[i].attempts, t, h) \/ (t = tier /\ h = "skipped_budget")
        /\ \A t : Any(s, t) <=> Any(records[i].attempts, t) \/ t = tier
        /\ \A t : Cost(s, t) = Cost(records[i].attempts, t)
    BY <1>7
  <2> HIDE DEF s
  <2>5. /\ records'[i] \in RecordSet /\ records'[i].resolving = records[i].resolving
        /\ records'[i].total = records[i].total
        /\ records'[i].attempts = s
    BY <2>1, <2>2, <2>3, FieldsMark
  <2> QED
    BY <2>4, <2>5
<1>10. ASSUME NEW i \in Instances PROVE records'[i] \in RecordSet /\ records'[i].attempts \in Lists
  <2>1. CASE i \in Unmarked
    BY <1>9, <2>1
  <2>2. CASE i \notin Unmarked
    BY <1>2, <1>3, <1>8, <2>2
  <2> QED
    BY <2>1, <2>2
<1>11. records' \in [Instances -> RecordSet]
  BY <1>6, <1>10
<1>12. Listed(records')
  BY <1>10 DEF Listed
<1>13. ASSUME NEW i \in Instances
       PROVE  /\ records'[i].resolving = records[i].resolving
              /\ records'[i].total = records[i].total
              /\ \A t, h : Is(records'[i].attempts, t, h) <=>
                   Is(records[i].attempts, t, h) \/ (i \in Unmarked /\ t = tier /\ h = "skipped_budget")
              /\ \A t : Any(records'[i].attempts, t) <=>
                   Any(records[i].attempts, t) \/ (i \in Unmarked /\ t = tier)
              /\ \A t : Cost(records'[i].attempts, t) = Cost(records[i].attempts, t)
  <2>1. CASE i \in Unmarked
    BY <1>9, <2>1
  <2>2. CASE i \notin Unmarked
    BY <1>8, <2>2
  <2> QED
    BY <2>1, <2>2
<1> QED
  BY <1>4, <1>5, <1>11, <1>12, <1>13

(* Books whose costs stay as they are.                                     *)
LEMMA SameCosts ==
  ASSUME NEW R, NEW Q, \A i \in Instances : Q[i].total = R[i].total
                           /\ \A t : Cost(Q[i].attempts, t) = Cost(R[i].attempts, t)
  PROVE  /\ \A i \in Instances : Total(Q[i].attempts) = Total(R[i].attempts)
         /\ SpentOf(Q) = SpentOf(R)
         /\ \A t : CostOf(Q, t) = CostOf(R, t)
<1>1. \A i \in Instances : [t \in Tiers |-> Cost(Q[i].attempts, t)] = [t \in Tiers |-> Cost(R[i].attempts, t)]
  OBVIOUS
<1>2. [i \in Instances |-> Q[i].total] = [i \in Instances |-> R[i].total]
  OBVIOUS
<1>3. \A t : [i \in Instances |-> Cost(Q[i].attempts, t)] = [i \in Instances |-> Cost(R[i].attempts, t)]
  OBVIOUS
<1> QED
  BY <1>1, <1>2, <1>3, Zenon DEF Total, SpentOf, CostOf

LEMMA DisjointUnion ==
  ASSUME NEW S, IsFiniteSet(S), NEW T, IsFiniteSet(T), S \cap T = {}
  PROVE  Cardinality(S \cup T) = Cardinality(S) + Cardinality(T)
<1>1. Cardinality(S) \in Nat /\ Cardinality(T) \in Nat /\ Cardinality({}) = 0
  BY FS_CardinalityType, FS_EmptySet
<1>2. Cardinality(S \cup T) = Cardinality(S) + Cardinality(T) - Cardinality(S \cap T)
  BY FS_Union
<1>3. Cardinality(S \cap T) = 0
  BY <1>1
<1> QED
  BY <1>1, <1>2, <1>3

LEMMA InstancesFinite ==
  ASSUME NEW S \in SUBSET Instances
  PROVE  IsFiniteSet(S) /\ Cardinality(S) \in Nat
  BY InstancesAssumption, FS_Subset, FS_CardinalityType

(* Placeholders add an attempt to the counters and nothing to the costs.   *)
LEMMA MarkedBooks ==
  ASSUME TypeOK, Ledger, tier \in Tiers, MarkSkipped, cumulative_cost' = cumulative_cost
  PROVE  Ledger' /\ tier_stats' \in [Tiers -> [attempted : Nat, resolved : Nat, cost : Nat]]
<1> DEFINE R == records
           Q == records'
<1>1. Listed(R) /\ Books(R, cumulative_cost, tier_stats)
  BY DEF Ledger
<1>2. /\ Listed(Q)
      /\ \A i \in Unmarked : i \in Instances /\ R[i].resolving = 0 /\ ~Any(R[i].attempts, tier)
      /\ \A i \in Instances :
           /\ Q[i].resolving = R[i].resolving /\ Q[i].total = R[i].total
           /\ \A t : Any(Q[i].attempts, t) <=> Any(R[i].attempts, t) \/ (i \in Unmarked /\ t = tier)
           /\ \A t : Cost(Q[i].attempts, t) = Cost(R[i].attempts, t)
  BY <1>1, MarkedEffect
<1>3. tier_stats' = [tier_stats EXCEPT ![tier].attempted = @ + Cardinality(Unmarked)]
  BY DEF MarkSkipped
<1>4. tier_stats \in [Tiers -> [attempted : Nat, resolved : Nat, cost : Nat]]
  BY DEF TypeOK
<1> HIDE DEF R, Q
<1>5. Unmarked \in SUBSET Instances /\ Cardinality(Unmarked) \in Nat
  BY <1>2, InstancesFinite
<1>6. /\ \A i \in Instances : Total(Q[i].attempts) = Total(R[i].attempts)
      /\ SpentOf(Q) = SpentOf(R)
      /\ \A t : CostOf(Q, t) = CostOf(R, t)
  BY <1>2, SameCosts
<1>7. /\ tier_stats' \in [Tiers -> [attempted : Nat, resolved : Nat, cost : Nat]]
      /\ \A t \in Tiers : /\ tier_stats'[t].resolved = tier_stats[t].resolved
                          /\ tier_stats'[t].cost = tier_stats[t].cost
                          /\ tier_stats'[t].attempted = IF t = tier THEN tier_stats[t].attempted + Cardinality(Unmarked)
                                                        ELSE tier_stats[t].attempted
  BY <1>3, <1>4, <1>5
<1>8. ASSUME NEW t \in Tiers
      PROVE  /\ Cardinality(Attempted(Q, t)) = IF t = tier THEN Cardinality(Attempted(R, t)) + Cardinality(Unmarked)
                                               ELSE Cardinality(Attempted(R, t))
             /\ Won(Q, t) = Won(R, t)
  <2>1. Attempted(R, t) \in SUBSET Instances
    BY DEF Attempted
  <2>2. CASE t = tier
    <3>1. Attempted(Q, t) = Attempted(R, t) \cup Unmarked /\ Attempted(R, t) \cap Unmarked = {}
      BY <1>2, <2>2 DEF Attempted
    <3>2. Cardinality(Attempted(R, t) \cup Unmarked) = Cardinality(Attempted(R, t)) + Cardinality(Unmarked)
      BY <1>5, <2>1, <3>1, InstancesFinite, DisjointUnion
    <3>3. Won(Q, t) = Won(R, t)
      BY <1>2, <3>1, TiersFinite DEF Won, Attempted
    <3> QED
      BY <2>2, <3>1, <3>2, <3>3
  <2>3. CASE t # tier
    <3>1. Attempted(Q, t) = Attempted(R, t)
      BY <1>2, <2>3 DEF Attempted
    <3>2. Won(Q, t) = Won(R, t)
      BY <1>2, <3>1 DEF Won, Attempted
    <3> QED
      BY <2>3, <3>1, <3>2
  <2> QED
    BY <2>2, <2>3
<1>9. Books(Q, cumulative_cost', tier_stats')
  BY <1>1, <1>2, <1>6, <1>7, <1>8 DEF Books
<1> QED
  BY <1>2, <1>7, <1>9 DEF Ledger, Q

----------------------------------------------------------------------------
(* Phase A. A row without a trajectory is free, and a refused one becomes  *)
(* a placeholder.                                                          *)
FreeRows == \A i \in Instances : rows[i].tag \in {"none", "budget_halt"} => rows[i].cost = 0
Halt(i) == IF rows[i].tag = "budget_halt" THEN "skipped_budget" ELSE "none"

StatSet == [attempted : Nat, resolved : Nat, cost : Nat]
Counted(f, u, n, c) == [f EXCEPT ![u].attempted = @ + n, ![u].cost = @ + c]
LEMMA FieldsCount ==
  ASSUME NEW f \in [Tiers -> StatSet], NEW u \in Tiers, NEW n \in Nat, NEW c \in Nat, NEW g,
         g = Counted(f, u, n, c)
  PROVE  /\ g \in [Tiers -> StatSet]
         /\ \A t \in Tiers : /\ g[t].resolved = f[t].resolved
                             /\ g[t].attempted = IF t = u THEN f[t].attempted + n ELSE f[t].attempted
                             /\ g[t].cost = IF t = u THEN f[t].cost + c ELSE f[t].cost
<1> DEFINE h == [f EXCEPT ![u].attempted = @ + n]
<1>1. h \in [Tiers -> StatSet] /\ h[u].attempted = f[u].attempted + n /\ h[u].resolved = f[u].resolved
      /\ h[u].cost = f[u].cost /\ \A t \in Tiers \ {u} : h[t] = f[t]
  BY DEF StatSet
<1>2. g = [h EXCEPT ![u].cost = @ + c]
  BY DEF Counted
<1> HIDE DEF h
<1> DEFINE r == [h[u] EXCEPT !.cost = h[u].cost + c]
<1>3. h[u] \in StatSet /\ h[u].cost \in Nat
  BY <1>1 DEF StatSet
<1>4. r \in StatSet /\ r.attempted = h[u].attempted /\ r.resolved = h[u].resolved
      /\ r.cost = h[u].cost + c
  BY <1>3 DEF StatSet
<1>5. g = [h EXCEPT ![u] = r]
  BY <1>2
<1> HIDE DEF r
<1>6. g \in [Tiers -> StatSet] /\ g[u] = r /\ \A t \in Tiers \ {u} : g[t] = h[t]
  BY <1>1, <1>4, <1>5
<1> QED
  BY <1>1, <1>4, <1>6

LEMMA AnyIs ==
  ASSUME NEW s, NEW t
  PROVE  Any(s, t) <=> \E h : Is(s, t, h)
  BY DEF Any, Is

(* The row of an instance that has no attempt yet takes the place of its   *)
(* placeholder.                                                            *)
LEMMA SpendEffect ==
  ASSUME TypeOK, Listed(records), FreeRows, tier \in Tiers, RecordSpend
  PROVE  /\ records' \in [Instances -> RecordSet] /\ Listed(records')
         /\ NewAttempts \in SUBSET Instances
         /\ \A i \in Instances \ NewAttempts : records'[i] = records[i]
         /\ \A i \in NewAttempts :
              /\ ~Is(records[i].attempts, tier, "none") /\ ~Is(records[i].attempts, tier, "eval_pending")
              /\ records[i].resolving = 0 /\ records'[i].resolving = 0
              /\ records'[i].total = records[i].total + rows[i].cost
              /\ \A t, h : Is(records'[i].attempts, t, h) <=>
                   IF t = tier THEN h = Halt(i) ELSE Is(records[i].attempts, t, h)
              /\ Cost(records[i].attempts, tier) = 0
              /\ \A t : Cost(records'[i].attempts, t) =
                   IF t = tier THEN rows[i].cost ELSE Cost(records[i].attempts, t)
<1>1. /\ records \in [Instances -> RecordSet] /\ rows \in [Instances -> RowSet]
      /\ \A i \in Instances : rows[i].cost \in Nat
  BY DEF TypeOK, RecordSet, RowSet
<1>2. \A i \in Instances : records[i].attempts \in Lists /\ records[i].attempts \in Seq(AttemptSet)
  BY DEF Listed, Lists
<1>3. NewAttempts \in SUBSET Instances /\ \A i \in NewAttempts : records[i].resolving = 0 /\ ~RealAt(i, tier)
  BY DEF NewAttempts, Rowed
<1>4. records' = [i \in Instances |->
           IF i \in NewAttempts
             THEN [records[i] EXCEPT
                     !.attempts = Append(WithoutSkip(@), Attempt(tier, rows[i])),
                     !.total = @ + rows[i].cost]
             ELSE records[i]]
  BY DEF RecordSpend
<1>5. \A i \in Instances \ NewAttempts : records'[i] = records[i]
  BY <1>4
<1>6. ASSUME NEW i \in NewAttempts
      PROVE  /\ records'[i] \in RecordSet /\ records'[i].attempts \in Lists
             /\ ~Is(records[i].attempts, tier, "none") /\ ~Is(records[i].attempts, tier, "eval_pending")
             /\ records[i].resolving = 0 /\ records'[i].resolving = 0
             /\ records'[i].total = records[i].total + rows[i].cost
             /\ \A t, h : Is(records'[i].attempts, t, h) <=>
                  IF t = tier THEN h = Halt(i) ELSE Is(records[i].attempts, t, h)
             /\ Cost(records[i].attempts, tier) = 0
             /\ \A t : Cost(records'[i].attempts, t) =
                  IF t = tier THEN rows[i].cost ELSE Cost(records[i].attempts, t)
  <2> DEFINE s == records[i].attempts
             r == WithoutSkip(s)
             a == Attempt(tier, rows[i])
             list == Append(r, a)
             sum == records[i].total + rows[i].cost
  <2>1. i \in Instances /\ s \in Lists /\ s \in Seq(AttemptSet) /\ records[i].resolving = 0
    BY <1>2, <1>3
  <2>2. /\ a \in AttemptSet /\ a.tier = tier /\ a.cost = rows[i].cost /\ a.halted = Halt(i)
        /\ a.halted = "skipped_budget" => a.cost = 0
    BY <1>1, <2>1 DEF Attempt, AttemptSet, Halt, FreeRows
  <2>3. ~Is(s, tier, "none") /\ ~Is(s, tier, "eval_pending")
    BY <1>3, <2>1, Reads
  <2>4. /\ r \in Lists
        /\ \A t, h : Is(r, t, h) <=> Is(s, t, h) /\ ~(t = tier /\ h = "skipped_budget")
        /\ \A t : Cost(r, t) = Cost(s, t)
    BY <2>1, WithoutSkipKeeps
  <2>5. \A k \in DOMAIN s : s[k].halted \in {"none", "skipped_budget", "eval_pending"}
    BY <2>1, ListType
  <2>6. records'[i] = Charged(records[i], list, sum)
    BY <1>4, <2>1 DEF Charged
  <2>7. records[i] \in RecordSet /\ records[i].total \in Nat
    BY <1>1, <2>1 DEF RecordSet
  <2> HIDE DEF s, r, a
  <2>8. \A h : Is(s, tier, h) => h \in {"none", "skipped_budget", "eval_pending"}
    BY <2>5 DEF Is
  <2>9. ~Any(r, a.tier)
    BY <2>2, <2>3, <2>4, <2>8, AnyIs
  <2>10. /\ list \in Lists
         /\ \A t, h : Is(list, t, h) <=> Is(r, t, h) \/ (t = a.tier /\ h = a.halted)
         /\ \A t : Cost(list, t) = IF t = a.tier THEN a.cost ELSE Cost(r, t)
    BY <2>2, <2>4, <2>9, Appended
  <2>11. Cost(s, tier) = 0
    BY <2>2, <2>4, <2>9, CostValue
  <2> HIDE DEF list
  <2>12. list \in Seq(AttemptSet) /\ sum \in Nat /\ records[i] \in RecordSet
    BY <1>1, <2>1, <2>7, <2>10 DEF Lists
  <2> HIDE DEF sum
  <2>13. /\ records'[i] \in RecordSet /\ records'[i].resolving = records[i].resolving
         /\ records'[i].total = sum
         /\ records'[i].attempts = list
    BY <2>6, <2>12, FieldsSpend
  <2>14. \A t, h : Is(list, t, h) <=> IF t = tier THEN h = Halt(i) ELSE Is(s, t, h)
    BY <2>2, <2>3, <2>4, <2>8, <2>10
  <2>15. \A t : Cost(list, t) = IF t = tier THEN rows[i].cost ELSE Cost(s, t)
    BY <2>2, <2>4, <2>10
  <2> QED
    BY <2>1, <2>3, <2>10, <2>11, <2>13, <2>14, <2>15 DEF s, sum
<1>7. \A i \in Instances : records'[i] \in RecordSet /\ records'[i].attempts \in Lists
  BY <1>1, <1>2, <1>5, <1>6
<1>8. records' \in [Instances -> RecordSet] /\ Listed(records')
  BY <1>4, <1>7 DEF Listed
<1> QED
  BY <1>3, <1>5, <1>6, <1>8

LEMMA TotalType ==
  ASSUME NEW s \in Lists
  PROVE  [t \in Tiers |-> Cost(s, t)] \in [Tiers -> Nat] /\ Total(s) \in Nat
<1> DEFINE f == [t \in Tiers |-> Cost(s, t)]
<1>1. \A t : Cost(s, t) \in Nat
  BY CostValue
<1>2. f \in [Tiers -> Nat]
  BY <1>1
<1> HIDE DEF f
<1>3. SumFunction(f) \in Nat
  BY <1>2, FamilyNat, TiersFinite
<1> QED
  BY <1>2, <1>3 DEF Total, f

(* What Phase A adds to a counter is what it adds to the records: the sums *)
(* of the new attempts' costs, and one attempt for each instance that had  *)
(* not even a placeholder.                                                 *)
LEMMA SpendBooks ==
  ASSUME TypeOK, Ledger, FreeRows, tier \in Tiers, RecordSpend
  PROVE  /\ Ledger' /\ tier_stats' \in [Tiers -> [attempted : Nat, resolved : Nat, cost : Nat]]
         /\ cumulative_cost' = cumulative_cost + SumFunction([i \in NewAttempts |-> rows[i].cost])
         /\ cumulative_cost' \in Nat
<1> DEFINE R == records
           Q == records'
           new == NewAttempts
           paid == [i \in new |-> rows[i].cost]
           first == {i \in new : AttemptsAt(i, tier) = {}}
<1>1. Listed(R) /\ Books(R, cumulative_cost, tier_stats)
  BY DEF Ledger
<1>2. /\ Listed(Q) /\ new \in SUBSET Instances
      /\ \A i \in Instances \ new : Q[i] = R[i]
      /\ \A i \in new :
           /\ R[i].resolving = 0 /\ Q[i].resolving = 0
           /\ Q[i].total = R[i].total + rows[i].cost
           /\ \A t, h : Is(Q[i].attempts, t, h) <=> IF t = tier THEN h = Halt(i) ELSE Is(R[i].attempts, t, h)
           /\ Cost(R[i].attempts, tier) = 0
           /\ \A t : Cost(Q[i].attempts, t) = IF t = tier THEN rows[i].cost ELSE Cost(R[i].attempts, t)
  BY <1>1, SpendEffect
<1>3. /\ tier_stats' = [tier_stats EXCEPT ![tier].attempted = @ + Cardinality(first),
                                         ![tier].cost = @ + SumFunction(paid)]
      /\ cumulative_cost' = cumulative_cost + SumFunction(paid)
  BY DEF RecordSpend
<1>4. /\ tier_stats \in [Tiers -> [attempted : Nat, resolved : Nat, cost : Nat]]
      /\ cumulative_cost \in Nat
      /\ \A i \in Instances : R[i].total \in Nat /\ rows[i].cost \in Nat
      /\ \A i \in Instances : Q[i].total \in Nat
  <2>1. \A i \in Instances : Q[i].total \in Nat
    BY <1>1, SpendEffect DEF RecordSet
  <2> QED
    BY <2>1 DEF TypeOK, RowSet
<1>5. paid \in [new -> Nat] /\ \A i \in new : paid[i] = rows[i].cost
  BY <1>2, <1>4
<1>6. first \in SUBSET new /\ \A i \in new : i \in first <=> ~Any(R[i].attempts, tier)
  BY <1>1, <1>2, Reads DEF Listed
<1> HIDE DEF R, Q, new, paid, first
<1>7. IsFiniteSet(new) /\ new \subseteq Instances /\ Cardinality(first) \in Nat /\ first \in SUBSET Instances
  BY <1>2, <1>6, InstancesFinite
<1>8. SumFunction(paid) \in Nat
  BY <1>5, <1>7, FamilyNat
<1>9. /\ tier_stats' \in [Tiers -> [attempted : Nat, resolved : Nat, cost : Nat]]
      /\ \A t \in Tiers :
           /\ tier_stats'[t].resolved = tier_stats[t].resolved
           /\ tier_stats'[t].cost = IF t = tier THEN tier_stats[t].cost + SumFunction(paid) ELSE tier_stats[t].cost
           /\ tier_stats'[t].attempted = IF t = tier THEN tier_stats[t].attempted + Cardinality(first)
                                         ELSE tier_stats[t].attempted
  <2> DEFINE n == Cardinality(first)
             c == SumFunction(paid)
  <2>1. n \in Nat /\ c \in Nat /\ tier_stats \in [Tiers -> StatSet]
        /\ tier_stats' = Counted(tier_stats, tier, n, c)
    BY <1>3, <1>4, <1>7, <1>8 DEF StatSet, Counted
  <2> HIDE DEF n, c
  <2>2. /\ tier_stats' \in [Tiers -> StatSet]
        /\ \A t \in Tiers :
             /\ tier_stats'[t].resolved = tier_stats[t].resolved
             /\ tier_stats'[t].attempted = IF t = tier THEN tier_stats[t].attempted + n ELSE tier_stats[t].attempted
             /\ tier_stats'[t].cost = IF t = tier THEN tier_stats[t].cost + c ELSE tier_stats[t].cost
    BY <2>1, FieldsCount
  <2> QED
    BY <2>2 DEF n, c, StatSet
<1>10. \A i \in Instances : R[i].attempts \in Lists /\ Q[i].attempts \in Lists
  BY <1>1, <1>2 DEF Listed
<1>11. ASSUME NEW i \in Instances PROVE Q[i].total = Total(Q[i].attempts)
  <2>1. R[i].total = Total(R[i].attempts)
    BY <1>1 DEF Books
  <2>2. CASE i \notin new
    BY <1>2, <2>1, <2>2
  <2>3. CASE i \in new
    <3> DEFINE f == [t \in Tiers |-> Cost(R[i].attempts, t)]
               h == [t \in Tiers |-> Cost(Q[i].attempts, t)]
    <3>1. f \in [Tiers -> Nat] /\ h \in [Tiers -> Nat]
      BY <1>10, TotalType
    <3>2. h[tier] = f[tier] + rows[i].cost /\ \A t \in Tiers \ {tier} : h[t] = f[t]
      BY <1>2, <1>4, <2>3
    <3>3. Total(R[i].attempts) = SumFunction(f) /\ Total(Q[i].attempts) = SumFunction(h)
      BY DEF Total
    <3> HIDE DEF f, h
    <3>4. SumFunction(h) = SumFunction(f) + rows[i].cost
      BY <1>4, <3>1, <3>2, FamilyAddOne, TiersFinite
    <3> QED
      BY <1>2, <2>1, <2>3, <3>3, <3>4
  <2> QED
    BY <2>2, <2>3
<1>12. SpentOf(Q) = SpentOf(R) + SumFunction(paid)
  <2> DEFINE f == [i \in Instances |-> R[i].total]
             h == [i \in Instances |-> Q[i].total]
  <2>1. f \in [Instances -> Nat] /\ h \in [Instances -> Nat]
    BY <1>4
  <2>2. (\A i \in new : h[i] = f[i] + paid[i]) /\ \A i \in Instances \ new : h[i] = f[i]
    BY <1>2, <1>5
  <2>3. SpentOf(R) = SumFunction(f) /\ SpentOf(Q) = SumFunction(h)
    BY DEF SpentOf
  <2> HIDE DEF f, h
  <2>4. new \subseteq Instances /\ paid \in [new -> Nat]
    BY <1>5, <1>7
  <2>5. SumFunction(h) = SumFunction(f) + SumFunction(paid)
    BY <2>1, <2>2, <2>4, FamilyAdd, InstancesAssumption
  <2> QED
    BY <2>3, <2>5
<1>13. ASSUME NEW t \in Tiers
       PROVE  CostOf(Q, t) = IF t = tier THEN CostOf(R, t) + SumFunction(paid) ELSE CostOf(R, t)
  <2> DEFINE f == [i \in Instances |-> Cost(R[i].attempts, t)]
             h == [i \in Instances |-> Cost(Q[i].attempts, t)]
  <2>1. f \in [Instances -> Nat] /\ h \in [Instances -> Nat]
    BY <1>10, CostValue
  <2>2. CostOf(R, t) = SumFunction(f) /\ CostOf(Q, t) = SumFunction(h)
    BY DEF CostOf
  <2>3. CASE t = tier
    <3>1. ASSUME NEW i \in new PROVE h[i] = f[i] + paid[i]
      <4>1. i \in Instances /\ f[i] = 0 /\ h[i] = rows[i].cost /\ paid[i] = rows[i].cost
            /\ rows[i].cost \in Nat
        BY <1>2, <1>4, <1>5, <2>3
      <4> QED
        BY <4>1
    <3>2. \A i \in Instances \ new : h[i] = f[i]
      BY <1>2
    <3> HIDE DEF f, h
    <3>3. new \subseteq Instances /\ paid \in [new -> Nat]
      BY <1>5, <1>7
    <3>4. SumFunction(h) = SumFunction(f) + SumFunction(paid)
      BY <2>1, <3>1, <3>2, <3>3, FamilyAdd, InstancesAssumption
    <3> QED
      BY <2>2, <2>3, <3>4
  <2>4. CASE t # tier
    <3>1. \A i \in Instances : h[i] = f[i]
      BY <1>2, <2>4
    <3>2. h = f
      BY <3>1
    <3> HIDE DEF f, h
    <3> QED
      BY <2>2, <2>4, <3>2
  <2> QED
    BY <2>3, <2>4
<1>14. \A i \in new : \A t : Any(Q[i].attempts, t) <=> Any(R[i].attempts, t) \/ t = tier
  BY <1>2, AnyIs
<1>15. ASSUME NEW t \in Tiers
       PROVE  /\ Cardinality(Attempted(Q, t)) = IF t = tier THEN Cardinality(Attempted(R, t)) + Cardinality(first)
                                                ELSE Cardinality(Attempted(R, t))
              /\ Won(Q, t) = Won(R, t)
  <2>1. Attempted(R, t) \in SUBSET Instances
    BY DEF Attempted
  <2>2. CASE t = tier
    <3>1. Attempted(Q, t) = Attempted(R, t) \cup first /\ Attempted(R, t) \cap first = {}
      BY <1>2, <1>6, <1>7, <1>14, <2>2 DEF Attempted
    <3>2. Cardinality(Attempted(R, t) \cup first) = Cardinality(Attempted(R, t)) + Cardinality(first)
      BY <1>7, <2>1, <3>1, InstancesFinite, DisjointUnion
    <3>3. Won(Q, t) = Won(R, t)
      BY <1>2, <1>6, <3>1, TiersFinite DEF Won, Attempted
    <3> QED
      BY <2>2, <3>1, <3>2, <3>3
  <2>3. CASE t # tier
    <3>1. Attempted(Q, t) = Attempted(R, t)
      BY <1>2, <1>14, <2>3 DEF Attempted
    <3>2. Won(Q, t) = Won(R, t)
      BY <1>2, <3>1, TiersFinite DEF Won, Attempted
    <3> QED
      BY <2>3, <3>1, <3>2
  <2> QED
    BY <2>2, <2>3
<1>16. Books(Q, cumulative_cost', tier_stats')
  BY <1>1, <1>3, <1>9, <1>11, <1>12, <1>13, <1>15 DEF Books
<1>17. cumulative_cost' \in Nat
  BY <1>3, <1>4, <1>8
<1> QED
  BY <1>2, <1>3, <1>9, <1>16, <1>17 DEF Ledger, Q, paid, new

----------------------------------------------------------------------------
(* Phases B and C, which change verdicts and no cost.                      *)
Ruled(a, h, v) == [a EXCEPT !.halted = h, !.verdict = v]
LEMMA FieldsRuled ==
  ASSUME NEW a \in AttemptSet, NEW h \in {"none", "skipped_budget", "eval_pending"},
         NEW v \in {"none", "resolved", "unresolved"}, NEW b, b = Ruled(a, h, v)
  PROVE  b \in AttemptSet /\ b.tier = a.tier /\ b.cost = a.cost /\ b.halted = h
  BY DEF AttemptSet, Ruled

(* A verdict ends the wait for the evaluator; a placeholder gets none.     *)
LEMMA JudgedIs ==
  ASSUME NEW i, NEW a \in AttemptSet, NEW resolved, NEW b, b = Judged(i, a, resolved)
  PROVE  /\ b \in AttemptSet /\ b.tier = a.tier /\ b.cost = a.cost
         /\ b.halted = IF a.tier = tier /\ a.halted = "eval_pending" THEN "none" ELSE a.halted
<1>1. a.halted \in {"none", "skipped_budget", "eval_pending"}
  BY DEF AttemptSet
<1>2. CASE a.tier # tier \/ a.halted = "skipped_budget"
  <2>1. b = a
    BY <1>2 DEF Judged
  <2> QED
    BY <1>2, <2>1
<1>3. CASE ~(a.tier # tier \/ a.halted = "skipped_budget")
  <2> DEFINE v == IF rows[i].tag = "budget_halt" THEN "none"
                  ELSE IF i \in resolved THEN "resolved" ELSE "unresolved"
  <2>1. b = Ruled(a, "none", v)
    BY <1>3 DEF Judged, Ruled
  <2>2. v \in {"none", "resolved", "unresolved"}
    OBVIOUS
  <2> HIDE DEF v
  <2>3. b \in AttemptSet /\ b.tier = a.tier /\ b.cost = a.cost /\ b.halted = "none"
    BY <2>1, <2>2, FieldsRuled
  <2> QED
    BY <1>1, <1>3, <2>3
<1> QED
  BY <1>2, <1>3

LEMMA ToRetryIs ==
  ASSUME NEW a \in AttemptSet, NEW b, b = ToRetry(a)
  PROVE  /\ b \in AttemptSet /\ b.tier = a.tier /\ b.cost = a.cost
         /\ b.halted = a.halted \/ (a.tier = tier /\ a.halted = "none" /\ b.halted = "eval_pending")
  BY DEF ToRetry, AttemptSet

LEMMA Mapped ==
  ASSUME NEW s \in Seq(AttemptSet), NEW m, m = [k \in DOMAIN s |-> m[k]],
         \A k \in DOMAIN s : m[k] \in AttemptSet
  PROVE  m \in Seq(AttemptSet) /\ DOMAIN m = DOMAIN s
<1>1. Len(s) \in Nat /\ DOMAIN s = 1 .. Len(s)
  OBVIOUS
<1>2. m \in [1 .. Len(s) -> AttemptSet]
  BY <1>1
<1> QED
  BY <1>1, <1>2

LEMMA EvaluateEffect ==
  ASSUME TypeOK, Listed(records), tier \in Tiers, NEW resolved, Evaluate(resolved)
  PROVE  /\ records' \in [Instances -> RecordSet] /\ Listed(records')
         /\ \A i \in Instances :
              /\ records'[i].total = records[i].total
              /\ records'[i].resolving = IF i \in Rowed \cap resolved /\ records[i].resolving = 0 THEN tier
                                         ELSE records[i].resolving
              /\ \A t, h : t # tier \/ i \notin Rowed =>
                   (Is(records'[i].attempts, t, h) <=> Is(records[i].attempts, t, h))
              /\ i \in Rowed =>
                   \A h : Is(records'[i].attempts, tier, h) <=>
                     \E g : /\ Is(records[i].attempts, tier, g)
                            /\ h = IF g = "eval_pending" THEN "none" ELSE g
              /\ \A t : Cost(records'[i].attempts, t) = Cost(records[i].attempts, t)
              /\ \A t : Any(records'[i].attempts, t) <=> Any(records[i].attempts, t)
<1>1. records \in [Instances -> RecordSet]
  BY DEF TypeOK, RecordSet
<1>2. \A i \in Instances : records[i].attempts \in Lists /\ records[i].attempts \in Seq(AttemptSet)
  BY DEF Listed, Lists
<1>3. records' = [i \in Instances |->
         IF i \notin Rowed THEN records[i]
         ELSE [records[i] EXCEPT
                 !.attempts = [k \in DOMAIN @ |-> Judged(i, @[k], resolved)],
                 !.resolving = IF i \in resolved /\ @ = 0 THEN tier ELSE @]]
  BY DEF Evaluate
<1>4. ASSUME NEW i \in Instances \ Rowed PROVE records'[i] = records[i]
  BY <1>3
<1>5. ASSUME NEW i \in Instances, i \in Rowed
      PROVE  /\ records'[i] \in RecordSet /\ records'[i].attempts \in Lists
             /\ records'[i].total = records[i].total
             /\ records'[i].resolving = IF i \in Rowed \cap resolved /\ records[i].resolving = 0 THEN tier
                                        ELSE records[i].resolving
             /\ \A t, h : t # tier =>
                  (Is(records'[i].attempts, t, h) <=> Is(records[i].attempts, t, h))
             /\ \A h : Is(records'[i].attempts, tier, h) <=>
                  \E g : /\ Is(records[i].attempts, tier, g)
                         /\ h = IF g = "eval_pending" THEN "none" ELSE g
             /\ \A t : /\ Cost(records'[i].attempts, t) = Cost(records[i].attempts, t)
                       /\ Any(records'[i].attempts, t) <=> Any(records[i].attempts, t)
  <2> DEFINE s == records[i].attempts
             m == [k \in DOMAIN s |-> Judged(i, s[k], resolved)]
             v == IF i \in resolved /\ records[i].resolving = 0 THEN tier ELSE records[i].resolving
  <2>1. s \in Lists /\ s \in Seq(AttemptSet)
    BY <1>2
  <2>2. records'[i] = Settled(records[i], m, v)
    BY <1>3, <1>5 DEF Settled
  <2>3. \A k \in DOMAIN s : s[k] \in AttemptSet /\ m[k] = Judged(i, s[k], resolved)
    BY <2>1
  <2>4. records[i] \in RecordSet /\ v \in 0 .. NumTiers
    BY <1>1 DEF RecordSet, Tiers
  <2>5. m = [k \in DOMAIN s |-> m[k]]
    OBVIOUS
  <2> HIDE DEF s, m, v
  <2>6. \A k \in DOMAIN s :
          /\ m[k] \in AttemptSet /\ m[k].tier = s[k].tier /\ m[k].cost = s[k].cost
          /\ m[k].halted = IF s[k].tier = tier /\ s[k].halted = "eval_pending" THEN "none" ELSE s[k].halted
    BY <2>3, JudgedIs
  <2>7. m \in Seq(AttemptSet) /\ DOMAIN m = DOMAIN s
    BY <2>1, <2>5, <2>6, Mapped
  <2>8. /\ m \in Lists
        /\ \A t : Cost(m, t) = Cost(s, t) /\ (Any(m, t) <=> Any(s, t))
    BY <2>1, <2>6, <2>7, CostKept
  <2>9. \A t, h : t # tier => (Is(m, t, h) <=> Is(s, t, h))
    BY <2>6, <2>7 DEF Is
  <2>10. \A h : Is(m, tier, h) <=>
           \E g : Is(s, tier, g) /\ h = IF g = "eval_pending" THEN "none" ELSE g
    BY <2>6, <2>7 DEF Is
  <2>11. m \in Seq(AttemptSet)
    BY <2>7
  <2>12. /\ records'[i] \in RecordSet /\ records'[i].total = records[i].total
         /\ records'[i].attempts = m /\ records'[i].resolving = v
    BY <2>2, <2>4, <2>11, FieldsJudge
  <2> QED
    BY <1>5, <2>8, <2>9, <2>10, <2>12 DEF s, v
<1>6. \A i \in Instances : records'[i] \in RecordSet /\ records'[i].attempts \in Lists
  BY <1>1, <1>2, <1>4, <1>5
<1>7. records' \in [Instances -> RecordSet] /\ Listed(records')
  BY <1>3, <1>6 DEF Listed
<1>8. ASSUME NEW i \in Instances
      PROVE   /\ records'[i].total = records[i].total
              /\ records'[i].resolving = IF i \in Rowed \cap resolved /\ records[i].resolving = 0 THEN tier
                                         ELSE records[i].resolving
              /\ \A t, h : t # tier \/ i \notin Rowed =>
                   (Is(records'[i].attempts, t, h) <=> Is(records[i].attempts, t, h))
              /\ i \in Rowed =>
                   \A h : Is(records'[i].attempts, tier, h) <=>
                     \E g : /\ Is(records[i].attempts, tier, g)
                            /\ h = IF g = "eval_pending" THEN "none" ELSE g
              /\ \A t : Cost(records'[i].attempts, t) = Cost(records[i].attempts, t)
              /\ \A t : Any(records'[i].attempts, t) <=> Any(records[i].attempts, t)
  <2>1. CASE i \in Rowed
    BY <1>5, <2>1
  <2>2. CASE i \notin Rowed
    BY <1>4, <2>2
  <2> QED
    BY <2>1, <2>2
<1> QED
  BY <1>7, <1>8

LEMMA FailEffect ==
  ASSUME TypeOK, Listed(records), EvaluatorFails
  PROVE  /\ records' \in [Instances -> RecordSet] /\ Listed(records')
         /\ \A i \in Instances :
              /\ records'[i].total = records[i].total
              /\ records'[i].resolving = records[i].resolving
              /\ \A t, h : t # tier \/ i \notin Rowed \/ h = "skipped_budget" =>
                   (Is(records'[i].attempts, t, h) <=> Is(records[i].attempts, t, h))
              /\ Is(records'[i].attempts, tier, "none") => Is(records[i].attempts, tier, "none")
              /\ Is(records'[i].attempts, tier, "none") \/ Is(records'[i].attempts, tier, "eval_pending")
                   <=> Is(records[i].attempts, tier, "none") \/ Is(records[i].attempts, tier, "eval_pending")
              /\ \A t : Cost(records'[i].attempts, t) = Cost(records[i].attempts, t)
              /\ \A t : Any(records'[i].attempts, t) <=> Any(records[i].attempts, t)
<1>1. records \in [Instances -> RecordSet]
  BY DEF TypeOK, RecordSet
<1>2. \A i \in Instances : records[i].attempts \in Lists /\ records[i].attempts \in Seq(AttemptSet)
  BY DEF Listed, Lists
<1>3. records' = [i \in Instances |->
       IF i \notin Rowed THEN records[i]
       ELSE [records[i] EXCEPT !.attempts = [k \in DOMAIN @ |-> ToRetry(@[k])]]]
  BY DEF EvaluatorFails
<1>4. ASSUME NEW i \in Instances \ Rowed PROVE records'[i] = records[i]
  BY <1>3
<1>5. ASSUME NEW i \in Instances, i \in Rowed
      PROVE  /\ records'[i] \in RecordSet /\ records'[i].attempts \in Lists
             /\ records'[i].total = records[i].total
             /\ records'[i].resolving = records[i].resolving
             /\ \A t, h : t # tier \/ h = "skipped_budget" =>
                  (Is(records'[i].attempts, t, h) <=> Is(records[i].attempts, t, h))
             /\ Is(records'[i].attempts, tier, "none") => Is(records[i].attempts, tier, "none")
             /\ Is(records'[i].attempts, tier, "none") \/ Is(records'[i].attempts, tier, "eval_pending")
                  <=> Is(records[i].attempts, tier, "none") \/ Is(records[i].attempts, tier, "eval_pending")
             /\ \A t : /\ Cost(records'[i].attempts, t) = Cost(records[i].attempts, t)
                       /\ Any(records'[i].attempts, t) <=> Any(records[i].attempts, t)
  <2> DEFINE s == records[i].attempts
             m == [k \in DOMAIN s |-> ToRetry(s[k])]
  <2>1. s \in Lists /\ s \in Seq(AttemptSet)
    BY <1>2
  <2>2. records'[i] = Noted(records[i], m)
    BY <1>3, <1>5 DEF Noted
  <2>3. \A k \in DOMAIN s : s[k] \in AttemptSet /\ m[k] = ToRetry(s[k])
    BY <2>1
  <2>4. records[i] \in RecordSet
    BY <1>1
  <2>5. m = [k \in DOMAIN s |-> m[k]]
    OBVIOUS
  <2> HIDE DEF s, m
  <2>6. \A k \in DOMAIN s :
          /\ m[k] \in AttemptSet /\ m[k].tier = s[k].tier /\ m[k].cost = s[k].cost
          /\ m[k].halted = s[k].halted
              \/ (s[k].tier = tier /\ s[k].halted = "none" /\ m[k].halted = "eval_pending")
    BY <2>3, ToRetryIs
  <2>7. m \in Seq(AttemptSet) /\ DOMAIN m = DOMAIN s
    BY <2>1, <2>5, <2>6, Mapped
  <2>8. /\ m \in Lists
        /\ \A t : Cost(m, t) = Cost(s, t) /\ (Any(m, t) <=> Any(s, t))
    BY <2>1, <2>6, <2>7, CostKept
  <2>9. \A t, h : t # tier \/ h = "skipped_budget" => (Is(m, t, h) <=> Is(s, t, h))
    BY <2>6, <2>7 DEF Is
  <2>10. /\ Is(m, tier, "none") => Is(s, tier, "none")
         /\ Is(m, tier, "none") \/ Is(m, tier, "eval_pending")
              <=> Is(s, tier, "none") \/ Is(s, tier, "eval_pending")
    BY <2>6, <2>7 DEF Is
  <2>11. m \in Seq(AttemptSet)
    BY <2>7
  <2>12. /\ records'[i] \in RecordSet /\ records'[i].total = records[i].total
         /\ records'[i].attempts = m /\ records'[i].resolving = records[i].resolving
    BY <2>2, <2>4, <2>11, FieldsMark
  <2> QED
    BY <2>8, <2>9, <2>10, <2>12 DEF s
<1>6. \A i \in Instances : records'[i] \in RecordSet /\ records'[i].attempts \in Lists
  BY <1>1, <1>2, <1>4, <1>5
<1>7. records' \in [Instances -> RecordSet] /\ Listed(records')
  BY <1>3, <1>6 DEF Listed
<1>8. ASSUME NEW i \in Instances
      PROVE   /\ records'[i].total = records[i].total
              /\ records'[i].resolving = records[i].resolving
              /\ \A t, h : t # tier \/ i \notin Rowed \/ h = "skipped_budget" =>
                   (Is(records'[i].attempts, t, h) <=> Is(records[i].attempts, t, h))
              /\ Is(records'[i].attempts, tier, "none") => Is(records[i].attempts, tier, "none")
              /\ Is(records'[i].attempts, tier, "none") \/ Is(records'[i].attempts, tier, "eval_pending")
                   <=> Is(records[i].attempts, tier, "none") \/ Is(records[i].attempts, tier, "eval_pending")
              /\ \A t : Cost(records'[i].attempts, t) = Cost(records[i].attempts, t)
              /\ \A t : Any(records'[i].attempts, t) <=> Any(records[i].attempts, t)
  <2>1. CASE i \in Rowed
    BY <1>5, <2>1
  <2>2. CASE i \notin Rowed
    BY <1>4, <2>2
  <2> QED
    BY <2>1, <2>2
<1> QED
  BY <1>7, <1>8

(* An instance is resolved once, at a tier at which it has an attempt.     *)
LEMMA EvaluateBooks ==
  ASSUME TypeOK, Ledger, tier \in Tiers, NEW resolved \in SUBSET Rowed, Evaluate(resolved),
         \A i \in Rowed : records[i].resolving = 0 => Any(records[i].attempts, tier)
  PROVE  Ledger' /\ tier_stats' \in [Tiers -> [attempted : Nat, resolved : Nat, cost : Nat]]
<1> DEFINE R == records
           Q == records'
           won == {i \in resolved : R[i].resolving = 0}
<1>1. Listed(R) /\ Books(R, cumulative_cost, tier_stats)
  BY DEF Ledger
<1>2. /\ Listed(Q)
      /\ \A i \in Instances :
           /\ Q[i].total = R[i].total
           /\ Q[i].resolving = IF i \in Rowed \cap resolved /\ R[i].resolving = 0 THEN tier ELSE R[i].resolving
           /\ \A t : Cost(Q[i].attempts, t) = Cost(R[i].attempts, t)
           /\ \A t : Any(Q[i].attempts, t) <=> Any(R[i].attempts, t)
  BY <1>1, EvaluateEffect
<1>3. /\ tier_stats' = [tier_stats EXCEPT ![tier].resolved = @ + Cardinality(won)]
      /\ cumulative_cost' = cumulative_cost
  BY DEF Evaluate
<1>4. tier_stats \in [Tiers -> [attempted : Nat, resolved : Nat, cost : Nat]]
  BY DEF TypeOK
<1>5. won \in SUBSET Instances /\ \A i \in Instances : i \in won <=> i \in Rowed \cap resolved /\ R[i].resolving = 0
  BY DEF Rowed
<1>6. \A i \in won : Any(R[i].attempts, tier)
  OBVIOUS
<1> HIDE DEF R, Q, won
<1>7. Cardinality(won) \in Nat
  BY <1>5, InstancesFinite
<1>8. /\ \A i \in Instances : Total(Q[i].attempts) = Total(R[i].attempts)
      /\ SpentOf(Q) = SpentOf(R)
      /\ \A t : CostOf(Q, t) = CostOf(R, t)
  BY <1>2, SameCosts
<1>9. /\ tier_stats' \in [Tiers -> [attempted : Nat, resolved : Nat, cost : Nat]]
      /\ \A t \in Tiers : /\ tier_stats'[t].attempted = tier_stats[t].attempted
                          /\ tier_stats'[t].cost = tier_stats[t].cost
                          /\ tier_stats'[t].resolved = IF t = tier THEN tier_stats[t].resolved + Cardinality(won)
                                                       ELSE tier_stats[t].resolved
  BY <1>3, <1>4, <1>7
<1>10. \A t : Attempted(Q, t) = Attempted(R, t)
  BY <1>2 DEF Attempted
<1>11. ASSUME NEW t \in Tiers
       PROVE  Cardinality(Won(Q, t)) = IF t = tier THEN Cardinality(Won(R, t)) + Cardinality(won)
                                       ELSE Cardinality(Won(R, t))
  <2>1. Won(R, t) \in SUBSET Instances
    BY DEF Won, Attempted
  <2>2. CASE t = tier
    <3>1. Won(Q, t) = Won(R, t) \cup won
      BY <1>2, <1>5, <1>6, <1>10, <2>2 DEF Won, Attempted
    <3>2. Won(R, t) \cap won = {}
      BY <1>5, <2>2, TiersFinite DEF Won
    <3>3. Cardinality(Won(R, t) \cup won) = Cardinality(Won(R, t)) + Cardinality(won)
      BY <1>5, <2>1, <3>2, InstancesFinite, DisjointUnion
    <3> QED
      BY <2>2, <3>1, <3>3
  <2>3. CASE t # tier
    <3>1. Won(Q, t) = Won(R, t)
      BY <1>2, <1>10, <2>3, TiersFinite DEF Won, Attempted
    <3> QED
      BY <2>3, <3>1
  <2> QED
    BY <2>2, <2>3
<1>12. Books(Q, cumulative_cost', tier_stats')
  BY <1>1, <1>2, <1>3, <1>8, <1>9, <1>10, <1>11 DEF Books
<1> QED
  BY <1>2, <1>9, <1>12 DEF Ledger, Q

(* A failed evaluator changes no counter.                                  *)
LEMMA FailBooks ==
  ASSUME TypeOK, Ledger, EvaluatorFails
  PROVE  Ledger'
<1> DEFINE R == records
           Q == records'
<1>1. Listed(R) /\ Books(R, cumulative_cost, tier_stats)
  BY DEF Ledger
<1>2. /\ Listed(Q)
      /\ \A i \in Instances :
           /\ Q[i].total = R[i].total /\ Q[i].resolving = R[i].resolving
           /\ \A t : Cost(Q[i].attempts, t) = Cost(R[i].attempts, t)
           /\ \A t : Any(Q[i].attempts, t) <=> Any(R[i].attempts, t)
  BY <1>1, FailEffect
<1>3. tier_stats' = tier_stats /\ cumulative_cost' = cumulative_cost
  BY DEF EvaluatorFails
<1> HIDE DEF R, Q
<1>4. /\ \A i \in Instances : Total(Q[i].attempts) = Total(R[i].attempts)
      /\ SpentOf(Q) = SpentOf(R)
      /\ \A t : CostOf(Q, t) = CostOf(R, t)
  BY <1>2, SameCosts
<1>5. \A t : Attempted(Q, t) = Attempted(R, t)
  BY <1>2 DEF Attempted
<1>6. \A t : Won(Q, t) = Won(R, t)
  BY <1>2, <1>5 DEF Won, Attempted
<1>7. Books(Q, cumulative_cost', tier_stats')
  BY <1>1, <1>2, <1>3, <1>4, <1>5, <1>6 DEF Books
<1> QED
  BY <1>2, <1>7 DEF Ledger, Q

LEMMA StatsType ==
  ASSUME TypeOK, Listed(records)
  PROVE  /\ StatsFromRecords \in [Tiers -> [attempted : Nat, resolved : Nat, cost : Nat]]
         /\ TotalCost = SpentOf(records) /\ TotalCost \in Nat
<1>1. ASSUME NEW t \in Tiers
      PROVE  /\ Cardinality(Attempted(records, t)) \in Nat /\ Cardinality(Won(records, t)) \in Nat
             /\ CostOf(records, t) \in Nat
  <2> DEFINE f == [i \in Instances |-> Cost(records[i].attempts, t)]
  <2>1. Attempted(records, t) \in SUBSET Instances /\ Won(records, t) \in SUBSET Instances
    BY DEF Attempted, Won
  <2>2. f \in [Instances -> Nat]
    BY CostValue DEF Listed
  <2>3. CostOf(records, t) = SumFunction(f)
    BY DEF CostOf
  <2> HIDE DEF f
  <2>4. SumFunction(f) \in Nat
    BY <2>2, FamilyNat, InstancesAssumption
  <2> QED
    BY <2>1, <2>3, <2>4, InstancesFinite
<1>2. \A t \in Tiers : /\ StatsFromRecords[t].attempted \in Nat
                       /\ StatsFromRecords[t].resolved \in Nat
                       /\ StatsFromRecords[t].cost \in Nat
  BY <1>1, StatsAre
<1>3. StatsFromRecords \in [Tiers -> [attempted : Nat, resolved : Nat, cost : Nat]]
  BY <1>2 DEF StatsFromRecords
<1> DEFINE f == [i \in Instances |-> records[i].total]
<1>4. f \in [Instances -> Nat]
  BY DEF TypeOK
<1>5. TotalCost = SumFunction(f) /\ SpentOf(records) = SumFunction(f)
  BY DEF TotalCost, SpentOf
<1> HIDE DEF f
<1>6. SumFunction(f) \in Nat
  BY <1>4, FamilyNat, InstancesAssumption
<1> QED
  BY <1>3, <1>5, <1>6

(* The counters that a --resume starts from.                               *)
LEMMA ResumeBooks ==
  ASSUME TypeOK, Ledger, Resume
  PROVE  /\ Ledger' /\ cumulative_cost' = cumulative_cost
         /\ tier_stats' \in [Tiers -> [attempted : Nat, resolved : Nat, cost : Nat]]
<1>1. Listed(records) /\ Books(records, cumulative_cost, tier_stats)
  BY DEF Ledger
<1>2. records' = records /\ cumulative_cost' = TotalCost /\ tier_stats' = StatsFromRecords
  BY DEF Resume
<1>3. TotalCost = cumulative_cost
  BY <1>1, StatsType DEF Books
<1>4. tier_stats' \in [Tiers -> [attempted : Nat, resolved : Nat, cost : Nat]]
  BY <1>1, <1>2, StatsType
<1>5. Books(records', cumulative_cost', tier_stats')
  BY <1>1, <1>2, <1>3, StatsAre DEF Books
<1> QED
  BY <1>1, <1>2, <1>3, <1>4, <1>5 DEF Ledger

(* The books agree: the property.                                          *)
LEMMA BooksAgree ==
  ASSUME TypeOK, Ledger
  PROVE  LedgerAgrees
<1>1. Listed(records) /\ Books(records, cumulative_cost, tier_stats)
  BY DEF Ledger
<1>2. ASSUME NEW i \in Instances
      PROVE  /\ \A t \in Tiers : Cardinality(AttemptsAt(i, t)) <= 1
             /\ records[i].total = SumFunction([t \in Tiers |-> CostAt(i, t)])
  <2>1. records[i].attempts \in Lists
    BY <1>1 DEF Listed
  <2>2. \A t : /\ CostAt(i, t) = Cost(records[i].attempts, t)
               /\ Cardinality(AttemptsAt(i, t)) = IF Any(records[i].attempts, t) THEN 1 ELSE 0
    BY <2>1, Reads
  <2>3. [t \in Tiers |-> CostAt(i, t)] = [t \in Tiers |-> Cost(records[i].attempts, t)]
    BY <2>2
  <2>4. records[i].total = SumFunction([t \in Tiers |-> CostAt(i, t)])
    BY <1>1, <2>3, Zenon DEF Books, Total
  <2> QED
    BY <2>2, <2>4
<1>3. cumulative_cost = TotalCost
  BY <1>1, StatsType DEF Books
<1>4. tier_stats = StatsFromRecords
  <2>1. /\ tier_stats \in [Tiers -> [attempted : Nat, resolved : Nat, cost : Nat]]
        /\ StatsFromRecords \in [Tiers -> [attempted : Nat, resolved : Nat, cost : Nat]]
    BY <1>1, StatsType DEF TypeOK
  <2>2. \A t \in Tiers : /\ tier_stats[t].attempted = StatsFromRecords[t].attempted
                         /\ tier_stats[t].resolved = StatsFromRecords[t].resolved
                         /\ tier_stats[t].cost = StatsFromRecords[t].cost
    BY <1>1, StatsAre DEF Books
  <2> DEFINE f == StatsFromRecords
  <2>3. f \in [Tiers -> [attempted : Nat, resolved : Nat, cost : Nat]]
        /\ \A t \in Tiers : /\ tier_stats[t].attempted = f[t].attempted
                            /\ tier_stats[t].resolved = f[t].resolved
                            /\ tier_stats[t].cost = f[t].cost
    BY <2>1, <2>2
  <2> HIDE DEF f
  <2>4. \A t \in Tiers : tier_stats[t] = f[t]
    BY <2>1, <2>3
  <2>5. tier_stats = f
    BY <2>1, <2>3, <2>4
  <2> QED
    BY <2>5 DEF f
<1> QED
  BY <1>2, <1>3, <1>4 DEF LedgerAgrees

----------------------------------------------------------------------------
(* The inductive invariant of the books.                                   *)
(* After Phase A every row has its attempt.                                *)
InTier == at \in {"sweep", "evaluate"} => tier \in Tiers
Recorded ==
  at = "evaluate" =>
    \A i \in Rowed : records[i].resolving = 0 =>
      /\ AttemptsAt(i, tier) # {}
      /\ rows[i].tag # "budget_halt" => RealAt(i, tier)
BooksInv == TypeOK /\ Ledger /\ FreeRows /\ InTier /\ Recorded

LEMMA LaunchTypes ==
  ASSUME TypeOK, tier \in Tiers, NEW ids \in SUBSET Instances, LaunchSweep(ids)
  PROVE  /\ todo' \in SUBSET Instances /\ running' \in SUBSET Instances
         /\ rows' \in [Instances -> RowSet] /\ spent' \in Nat
         /\ halted' \in BOOLEAN /\ cancelled' \in BOOLEAN
         /\ FreeRows'
<1> DEFINE done == {i \in ids : tier_dir[tier][i].tag \in Archived}
           charged == [i \in done |-> tier_dir[tier][i].cost]
<1>1. \A i \in Instances : tier_dir[tier][i] \in RowSet
  BY DEF TypeOK
<1>2. done \in SUBSET Instances /\ charged \in [done -> Nat]
  BY <1>1 DEF RowSet
<1>3. /\ spent' = SumFunction(charged)
      /\ halted' = (done # {} /\ spent' >= Remaining)
      /\ todo' = IF halted' THEN {} ELSE ids \ done
      /\ rows' = [i \in Instances |-> IF i \in done THEN tier_dir[tier][i]
                                      ELSE IF i \in ids /\ halted' THEN Row("budget_halt", 0)
                                      ELSE NoRow]
      /\ running' = {} /\ cancelled' = FALSE
  BY DEF LaunchSweep
<1>4. \A i \in done : tier_dir[tier][i].tag \notin {"none", "budget_halt"}
  BY DEF Archived
<1> HIDE DEF done, charged
<1>5. spent' \in Nat
  BY <1>2, <1>3, InstancesFinite, FamilyNat
<1>6. rows' \in [Instances -> RowSet]
  BY <1>1, <1>2, <1>3 DEF Row, NoRow, RowSet
<1>7. FreeRows'
  BY <1>2, <1>3, <1>4 DEF FreeRows, Row, NoRow
<1> QED
  BY <1>2, <1>3, <1>5, <1>6, <1>7

LEMMA NoSweepTypes ==
  ASSUME NoSweep
  PROVE  /\ todo' \in SUBSET Instances /\ running' \in SUBSET Instances
         /\ rows' \in [Instances -> RowSet] /\ spent' \in Nat
         /\ halted' \in BOOLEAN /\ cancelled' \in BOOLEAN
         /\ FreeRows'
  BY DEF NoSweep, FreeRows, NoRow, Row, RowSet

LEMMA RowedRecorded ==
  ASSUME BooksInv, at = "evaluate", NEW i \in Rowed, records[i].resolving = 0
  PROVE  Any(records[i].attempts, tier)
<1>1. i \in Instances /\ records[i].attempts \in Lists /\ AttemptsAt(i, tier) # {}
  BY DEF BooksInv, Recorded, Ledger, Listed, Rowed
<1> QED
  BY <1>1, Reads

(* Phase A leaves no row without its attempt.                              *)
LEMMA SpendRecords ==
  ASSUME TypeOK, Ledger, FreeRows, tier \in Tiers, RecordSpend, rows' = rows, tier' = tier,
         NEW i \in Rowed', records'[i].resolving = 0
  PROVE  /\ AttemptsAt(i, tier)' # {}
         /\ rows'[i].tag # "budget_halt" => RealAt(i, tier)'
<1>1. i \in Instances /\ i \in Rowed
  BY DEF Rowed
<1>2. /\ records[i].attempts \in Lists /\ records'[i].attempts \in Lists
      /\ i \notin NewAttempts => records'[i] = records[i]
      /\ i \in NewAttempts => \A h : Is(records'[i].attempts, tier, h) <=> h = Halt(i)
  <2>1. Listed(records) /\ Listed(records')
    BY SpendEffect DEF Ledger
  <2>2. /\ i \notin NewAttempts => records'[i] = records[i]
        /\ i \in NewAttempts => \A h : Is(records'[i].attempts, tier, h) <=> h = Halt(i)
    BY <1>1, SpendEffect DEF Ledger
  <2> QED
    BY <1>1, <2>1, <2>2 DEF Listed
<1>3. CASE i \in NewAttempts
  <2>1. Is(records'[i].attempts, tier, Halt(i))
    BY <1>2, <1>3
  <2>2. Any(records'[i].attempts, tier)
    BY <2>1, AnyIs
  <2>3. AttemptsAt(i, tier)' # {}
    <3>1. AttemptsAt(i, tier)' = {k \in DOMAIN records'[i].attempts : records'[i].attempts[k].tier = tier}
      BY DEF AttemptsAt
    <3> QED
      BY <2>2, <3>1 DEF Any
  <2>4. Halt(i) = "none" => RealAt(i, tier)'
    <3>1. RealAt(i, tier)' <=> HaltedAt(i, tier)' \ {"skipped_budget"} # {}
      BY DEF RealAt
    <3>2. HaltedAt(i, tier)' = {records'[i].attempts[k].halted :
              k \in {k \in DOMAIN records'[i].attempts : records'[i].attempts[k].tier = tier}}
      BY DEF HaltedAt, AttemptsAt
    <3>3. Halt(i) = "none" =>
            \E k \in DOMAIN records'[i].attempts :
              records'[i].attempts[k].tier = tier /\ records'[i].attempts[k].halted = "none"
      BY <2>1 DEF Is
    <3> QED
      BY <3>1, <3>2, <3>3
  <2> QED
    BY <2>3, <2>4 DEF Halt
<1>4. CASE i \notin NewAttempts
  <2>1. records[i].resolving = 0 /\ RealAt(i, tier)
    BY <1>1, <1>2, <1>4 DEF NewAttempts
  <2>2. records'[i] = records[i]
    BY <1>2, <1>4
  <2>3. AttemptsAt(i, tier)' = AttemptsAt(i, tier) /\ HaltedAt(i, tier)' = HaltedAt(i, tier)
    BY <2>2 DEF AttemptsAt, HaltedAt
  <2>4. RealAt(i, tier)' <=> RealAt(i, tier)
    BY <2>3 DEF RealAt
  <2>5. AttemptsAt(i, tier) # {}
    BY <2>1 DEF RealAt, HaltedAt
  <2> QED
    BY <2>1, <2>3, <2>4, <2>5
<1> QED
  BY <1>3, <1>4

LEMMA BooksInit == Init => BooksInv
<1> SUFFICES ASSUME Init PROVE BooksInv
  OBVIOUS
<1>1. TypeOK
  <2>1. limit \in Limits /\ tier \in 1 .. NumTiers + 1
    BY TiersAssumption, CostsAssumption DEF Init
  <2>2. rows \in [Instances -> RowSet] /\ tier_dir \in [Tiers -> [Instances -> RowSet]]
    BY DEF Init, NoRow, Row, RowSet
  <2>3. records \in [Instances -> [resolving : 0 .. NumTiers, total : Nat, attempts : Seq(AttemptSet)]]
    <3>1. 0 \in 0 .. NumTiers /\ <<>> \in Seq(AttemptSet)
      BY TiersAssumption
    <3> QED
      BY <3>1 DEF Init
  <2>4. tier_stats \in [Tiers -> [attempted : Nat, resolved : Nat, cost : Nat]]
    BY DEF Init
  <2>5. /\ at = "tier" /\ cumulative_cost = 0 /\ todo = {} /\ running = {} /\ spent = 0
        /\ restarts = 0 /\ halted \in BOOLEAN /\ cancelled \in BOOLEAN /\ raised \in BOOLEAN
        /\ missed = {}
    BY Zenon DEF Init
  <2>6. 0 \in Nat
    BY <2>1
  <2> QED
    BY <2>1, <2>2, <2>3, <2>4, <2>5, <2>6 DEF TypeOK
<1>2. Ledger
  <2>1. \A i \in Instances : records[i].attempts = <<>> /\ records[i].total = 0
    BY DEF Init
  <2>2. <<>> \in Lists
    BY DEF Lists, One, Free
  <2>3. Listed(records)
    BY <2>1, <2>2 DEF Listed
  <2>4. \A t : ~Any(<<>>, t)
    BY DEF Any
  <2>5. \A t : Cost(<<>>, t) = 0
    BY <2>2, <2>4, CostValue
  <2>6. Total(<<>>) = 0
    <3> DEFINE f == [t \in Tiers |-> Cost(<<>>, t)]
    <3>1. f \in [Tiers -> Nat] /\ \A t \in Tiers : f[t] = 0
      BY <2>5
    <3>2. Total(<<>>) = SumFunction(f)
      BY DEF Total
    <3> HIDE DEF f
    <3> QED
      BY <3>1, <3>2, FamilyZero, TiersFinite
  <2>7. SpentOf(records) = 0
    <3> DEFINE f == [i \in Instances |-> records[i].total]
    <3>1. f \in [Instances -> Nat] /\ \A i \in Instances : f[i] = 0
      BY <2>1
    <3>2. SpentOf(records) = SumFunction(f)
      BY DEF SpentOf
    <3> HIDE DEF f
    <3> QED
      BY <3>1, <3>2, FamilyZero, InstancesAssumption
  <2>8. ASSUME NEW t \in Tiers
        PROVE  /\ Cardinality(Attempted(records, t)) = 0 /\ Cardinality(Won(records, t)) = 0
               /\ CostOf(records, t) = 0
    <3>1. Attempted(records, t) = {} /\ Won(records, t) = {}
      BY <2>1, <2>4 DEF Attempted, Won
    <3> DEFINE f == [i \in Instances |-> Cost(records[i].attempts, t)]
    <3>2. f \in [Instances -> Nat] /\ \A i \in Instances : f[i] = 0
      BY <2>1, <2>5
    <3>3. CostOf(records, t) = SumFunction(f)
      BY DEF CostOf
    <3> HIDE DEF f
    <3>4. SumFunction(f) = 0
      BY <3>2, FamilyZero, InstancesAssumption
    <3> QED
      BY <3>1, <3>3, <3>4, FS_EmptySet
  <2>9. Books(records, cumulative_cost, tier_stats)
    BY <2>1, <2>6, <2>7, <2>8 DEF Init, Books
  <2> QED
    BY <2>3, <2>9 DEF Ledger
<1>3. FreeRows /\ InTier /\ Recorded
  BY DEF Init, FreeRows, InTier, Recorded, NoRow, Row
<1> QED
  BY <1>1, <1>2, <1>3 DEF BooksInv

LEMMA LedgerKept ==
  ASSUME Ledger, UNCHANGED stateVars
  PROVE  Ledger'
  BY DEF Ledger, stateVars

LEMMA BooksNext == BooksInv /\ [Next]_vars => BooksInv'
<1> SUFFICES ASSUME BooksInv, [Next]_vars PROVE BooksInv'
  OBVIOUS
<1>0. TypeOK /\ Ledger /\ FreeRows /\ InTier /\ Recorded /\ Listed(records)
  BY DEF BooksInv, Ledger
<1>t. /\ tier \in Tiers => tier + 1 \in 1 .. NumTiers + 1
      /\ 1 \in 1 .. NumTiers + 1
      /\ tier \in Tiers => tier \in 1 .. NumTiers + 1
  BY TiersAssumption DEF Tiers
<1>1. CASE SkipTier
  <2>1. TypeOK'
    BY <1>0, <1>1, <1>t DEF TypeOK, SkipTier, AtTier, stateVars, sweepVars
  <2>2. Ledger'
    BY <1>0, <1>1, LedgerKept DEF SkipTier
  <2>3. FreeRows' /\ InTier' /\ Recorded'
    BY <1>0, <1>1 DEF FreeRows, InTier, Recorded, SkipTier, AtTier, sweepVars
  <2> QED
    BY <2>1, <2>2, <2>3 DEF BooksInv
<1>2. CASE StopForBudget
  <2>1. tier \in Tiers /\ MarkSkipped /\ cumulative_cost' = cumulative_cost
    BY <1>2 DEF StopForBudget, AtTier
  <2>2. Ledger' /\ tier_stats' \in [Tiers -> [attempted : Nat, resolved : Nat, cost : Nat]]
    BY <1>0, <2>1, MarkedBooks
  <2>3. records' \in [Instances -> RecordSet]
    BY <1>0, <2>1, MarkedEffect
  <2>4. TypeOK'
    BY <1>0, <1>2, <2>2, <2>3 DEF TypeOK, StopForBudget, sweepVars, RecordSet
  <2>5. FreeRows' /\ InTier' /\ Recorded'
    BY <1>0, <1>2 DEF FreeRows, InTier, Recorded, StopForBudget, sweepVars
  <2> QED
    BY <2>2, <2>4, <2>5 DEF BooksInv
<1>3. CASE StartTier
  <2>1. tier \in Tiers /\ Pending(tier) \in SUBSET Instances /\ LaunchSweep(Pending(tier))
    BY <1>3 DEF StartTier, AtTier, Pending
  <2>2. /\ todo' \in SUBSET Instances /\ running' \in SUBSET Instances
        /\ rows' \in [Instances -> RowSet] /\ spent' \in Nat
        /\ halted' \in BOOLEAN /\ cancelled' \in BOOLEAN
        /\ FreeRows'
    BY <1>0, <2>1, LaunchTypes
  <2>3. TypeOK'
    BY <1>0, <1>3, <2>2 DEF TypeOK, StartTier, stateVars
  <2>4. Ledger'
    BY <1>0, <1>3, LedgerKept DEF StartTier
  <2>5. InTier' /\ Recorded'
    BY <1>3, <2>1 DEF InTier, Recorded, StartTier
  <2> QED
    BY <2>2, <2>3, <2>4, <2>5 DEF BooksInv
<1>4. CASE StartEvalRetry
  <2>1. /\ tier \in Tiers /\ EvalPending(tier) \in SUBSET Instances /\ LaunchSweep(EvalPending(tier))
        /\ MarkSkipped /\ cumulative_cost' = cumulative_cost
    BY <1>4 DEF StartEvalRetry, AtTier, EvalPending, Pending
  <2>2. /\ todo' \in SUBSET Instances /\ running' \in SUBSET Instances
        /\ rows' \in [Instances -> RowSet] /\ spent' \in Nat
        /\ halted' \in BOOLEAN /\ cancelled' \in BOOLEAN
        /\ FreeRows'
    BY <1>0, <2>1, LaunchTypes
  <2>3. Ledger' /\ tier_stats' \in [Tiers -> [attempted : Nat, resolved : Nat, cost : Nat]]
    BY <1>0, <2>1, MarkedBooks
  <2>4. records' \in [Instances -> RecordSet]
    BY <1>0, <2>1, MarkedEffect
  <2>5. TypeOK'
    BY <1>0, <1>4, <2>2, <2>3, <2>4 DEF TypeOK, StartEvalRetry, RecordSet
  <2>6. InTier' /\ Recorded'
    BY <1>4, <2>1 DEF InTier, Recorded, StartEvalRetry
  <2> QED
    BY <2>2, <2>3, <2>5, <2>6 DEF BooksInv
<1>5. CASE RefuseRest
  <2>1. rows' \in [Instances -> RowSet] /\ FreeRows'
    BY <1>0, <1>5 DEF TypeOK, RefuseRest, FreeRows, Row, RowSet
  <2>2. TypeOK'
    BY <1>0, <1>5, <2>1 DEF TypeOK, RefuseRest, stateVars
  <2>3. Ledger'
    BY <1>0, <1>5, LedgerKept DEF RefuseRest
  <2>4. InTier' /\ Recorded'
    BY <1>0, <1>5 DEF InTier, Recorded, RefuseRest
  <2> QED
    BY <2>1, <2>2, <2>3, <2>4 DEF BooksInv
<1>6. CASE CancelSweep
  <2>1. TypeOK'
    BY <1>0, <1>6 DEF TypeOK, CancelSweep, stateVars
  <2>2. Ledger'
    BY <1>0, <1>6, LedgerKept DEF CancelSweep
  <2>3. FreeRows' /\ InTier' /\ Recorded'
    BY <1>0, <1>6 DEF FreeRows, InTier, Recorded, CancelSweep
  <2> QED
    BY <2>1, <2>2, <2>3 DEF BooksInv
<1>7. CASE SweepFails
  <2>1. /\ todo' \in SUBSET Instances /\ running' \in SUBSET Instances
        /\ rows' \in [Instances -> RowSet] /\ spent' \in Nat
        /\ halted' \in BOOLEAN /\ cancelled' \in BOOLEAN
        /\ FreeRows'
    BY <1>7, NoSweepTypes DEF SweepFails
  <2>2. TypeOK'
    BY <1>0, <1>7, <2>1 DEF TypeOK, SweepFails, stateVars
  <2>3. Ledger'
    BY <1>0, <1>7, LedgerKept DEF SweepFails
  <2>4. InTier' /\ Recorded'
    BY <1>7 DEF InTier, Recorded, SweepFails
  <2> QED
    BY <2>1, <2>2, <2>3, <2>4 DEF BooksInv
<1>8. ASSUME NEW i \in Instances, StartRun(i) PROVE BooksInv'
  <2>1. TypeOK'
    BY <1>0, <1>8 DEF TypeOK, StartRun, stateVars
  <2>2. Ledger'
    BY <1>0, <1>8, LedgerKept DEF StartRun
  <2>3. FreeRows' /\ InTier' /\ Recorded'
    BY <1>0, <1>8 DEF FreeRows, InTier, Recorded, StartRun
  <2> QED
    BY <2>1, <2>2, <2>3 DEF BooksInv
<1>9. ASSUME NEW i \in Instances, RunEnds(i) PROVE BooksInv'
  <2>1. PICK tag \in {"submitted", "failed", "lost", "cancelled"}, cost \in Costs \cup {0} :
          EndRun(i, Row(tag, cost))
    BY <1>9 DEF RunEnds
  <2> DEFINE row == Row(tag, cost)
  <2>2. row \in RowSet /\ row.cost \in Nat /\ row.tag \notin {"none", "budget_halt"}
    BY CostsAssumption DEF Row, RowSet
  <2>3. tier \in Tiers
    BY <1>0, <2>1 DEF EndRun, InTier
  <2>4. EndRun(i, row)
    BY <2>1
  <2> HIDE DEF row
  <2>5. /\ running' = running \ {i} /\ rows' = [rows EXCEPT ![i] = row] /\ spent' = spent + row.cost
        /\ halted' \in BOOLEAN
        /\ tier_dir' = tier_dir \/ tier_dir' = [tier_dir EXCEPT ![tier][i] = row]
    BY <2>4 DEF EndRun
  <2>6. tier_dir' \in [Tiers -> [Instances -> RowSet]]
    <3> DEFINE dir == [tier_dir[tier] EXCEPT ![i] = row]
    <3>1. tier_dir \in [Tiers -> [Instances -> RowSet]]
      BY <1>0 DEF TypeOK
    <3>2. dir \in [Instances -> RowSet]
      BY <2>2, <2>3, <3>1
    <3>3. tier_dir' = tier_dir \/ tier_dir' = [tier_dir EXCEPT ![tier] = dir]
      BY <2>5
    <3> HIDE DEF dir
    <3> QED
      BY <2>3, <3>1, <3>2, <3>3
  <2>7. rows' \in [Instances -> RowSet] /\ spent' \in Nat
    BY <1>0, <2>2, <2>5 DEF TypeOK
  <2>8. TypeOK'
    BY <1>0, <2>4, <2>5, <2>6, <2>7 DEF TypeOK, EndRun, stateVars
  <2>9. Ledger'
    BY <1>0, <2>4, LedgerKept DEF EndRun
  <2>10. FreeRows'
    BY <1>0, <2>2, <2>5 DEF FreeRows, TypeOK
  <2>11. InTier' /\ Recorded'
    BY <1>0, <2>4 DEF InTier, Recorded, EndRun
  <2> QED
    BY <2>8, <2>9, <2>10, <2>11 DEF BooksInv
<1>10. CASE PhaseA
  <2>1. tier \in Tiers /\ RecordSpend /\ rows' = rows /\ tier' = tier
    BY <1>0, <1>10 DEF PhaseA, InTier, sweepVars
  <2>2. /\ Ledger' /\ tier_stats' \in [Tiers -> [attempted : Nat, resolved : Nat, cost : Nat]]
        /\ cumulative_cost' \in Nat
    BY <1>0, <2>1, SpendBooks
  <2>3. records' \in [Instances -> RecordSet]
    BY <1>0, <2>1, SpendEffect
  <2>4. at' \in {"over", "evaluate"}
    BY <1>10 DEF PhaseA, AfterSweep
  <2>5. TypeOK'
    BY <1>0, <1>10, <2>2, <2>3, <2>4 DEF TypeOK, PhaseA, sweepVars, RecordSet
  <2>6. FreeRows' /\ InTier'
    BY <1>0, <2>1 DEF FreeRows, InTier
  <2>7. Recorded'
    BY <1>0, <2>1, SpendRecords DEF Recorded
  <2> QED
    BY <2>2, <2>5, <2>6, <2>7 DEF BooksInv
<1>11. CASE EvaluatorAnswers
  <2>1. PICK resolved \in SUBSET {i \in Rowed : rows[i].tag = "submitted"} : Evaluate(resolved)
    BY <1>11 DEF EvaluatorAnswers
  <2>2. resolved \in SUBSET Rowed /\ at = "evaluate" /\ tier \in Tiers
    BY <1>0, <2>1 DEF Evaluate, InTier
  <2>3. \A i \in Rowed : records[i].resolving = 0 => Any(records[i].attempts, tier)
    BY <2>2, RowedRecorded
  <2>4. Ledger' /\ tier_stats' \in [Tiers -> [attempted : Nat, resolved : Nat, cost : Nat]]
    BY <1>0, <2>1, <2>2, <2>3, EvaluateBooks
  <2>5. records' \in [Instances -> RecordSet]
    BY <1>0, <2>1, <2>2, EvaluateEffect
  <2>6. /\ todo' \in SUBSET Instances /\ running' \in SUBSET Instances
        /\ rows' \in [Instances -> RowSet] /\ spent' \in Nat
        /\ halted' \in BOOLEAN /\ cancelled' \in BOOLEAN
        /\ FreeRows'
    BY <2>1, NoSweepTypes DEF Evaluate
  <2>7. TypeOK'
    BY <1>0, <1>t, <2>1, <2>2, <2>4, <2>5, <2>6 DEF TypeOK, Evaluate, RecordSet
  <2>8. InTier' /\ Recorded'
    BY <2>1 DEF InTier, Recorded, Evaluate
  <2> QED
    BY <2>4, <2>6, <2>7, <2>8 DEF BooksInv
<1>12. CASE EvaluatorFails
  <2>1. Ledger'
    BY <1>0, <1>12, FailBooks
  <2>2. records' \in [Instances -> RecordSet]
    BY <1>0, <1>12, FailEffect
  <2>3. TypeOK'
    BY <1>0, <1>12, <2>2 DEF TypeOK, EvaluatorFails, sweepVars, RecordSet
  <2>4. FreeRows' /\ InTier' /\ Recorded'
    BY <1>0, <1>12 DEF FreeRows, InTier, Recorded, EvaluatorFails, sweepVars
  <2> QED
    BY <2>1, <2>3, <2>4 DEF BooksInv
<1>13. CASE Resume
  <2>1. /\ Ledger' /\ cumulative_cost' = cumulative_cost
        /\ tier_stats' \in [Tiers -> [attempted : Nat, resolved : Nat, cost : Nat]]
    BY <1>0, <1>13, ResumeBooks
  <2>2. /\ todo' \in SUBSET Instances /\ running' \in SUBSET Instances
        /\ rows' \in [Instances -> RowSet] /\ spent' \in Nat
        /\ halted' \in BOOLEAN /\ cancelled' \in BOOLEAN
        /\ FreeRows'
    BY <1>13, NoSweepTypes DEF Resume
  <2>3. restarts' \in Nat /\ raised' \in BOOLEAN /\ limit' \in Limits
    BY <1>0, <1>13 DEF TypeOK, Resume
  <2>4. TypeOK'
    BY <1>0, <1>13, <1>t, <2>1, <2>2, <2>3 DEF TypeOK, Resume
  <2>5. InTier' /\ Recorded'
    BY <1>13 DEF InTier, Recorded, Resume
  <2> QED
    BY <2>1, <2>2, <2>4, <2>5 DEF BooksInv
<1>15. ASSUME NEW i \in Instances, RunPanics(i) PROVE BooksInv'
  <2>1. PICK tag \in {"none"} \cup Archived, cost \in Costs \cup {0} : WorkerPanics(i, Row(tag, cost))
    BY <1>15 DEF RunPanics
  <2> DEFINE left == Row(tag, cost)
  <2>2. left \in RowSet /\ WorkerPanics(i, left)
    BY <2>1, CostsAssumption DEF Row, RowSet, Archived
  <2> HIDE DEF left
  <2>3. tier \in Tiers /\ tier_dir \in [Tiers -> [Instances -> RowSet]]
    BY <1>0, <2>2 DEF WorkerPanics, InTier, TypeOK
  <2>4. tier_dir' \in [Tiers -> [Instances -> RowSet]]
    <3> DEFINE dir == [tier_dir[tier] EXCEPT ![i] = left]
    <3>1. dir \in [Instances -> RowSet]
      BY <2>2, <2>3
    <3>2. tier_dir' = tier_dir \/ tier_dir' = [tier_dir EXCEPT ![tier] = dir]
      BY <2>2 DEF WorkerPanics
    <3> HIDE DEF dir
    <3> QED
      BY <2>3, <3>1, <3>2
  <2>5. missed' \in SUBSET (Tiers \X Instances)
    BY <1>0, <2>2, <2>3 DEF WorkerPanics, TypeOK
  <2>6. TypeOK'
    BY <1>0, <2>2, <2>4, <2>5 DEF TypeOK, WorkerPanics, stateVars
  <2>7. Ledger'
    BY <1>0, <2>2, LedgerKept DEF WorkerPanics
  <2>8. FreeRows' /\ InTier' /\ Recorded'
    BY <1>0, <2>2 DEF FreeRows, InTier, Recorded, WorkerPanics
  <2> QED
    BY <2>6, <2>7, <2>8 DEF BooksInv
<1>14. CASE UNCHANGED vars
  <2>1. TypeOK'
    BY <1>0, <1>14 DEF TypeOK, vars, stateVars, sweepVars
  <2>2. Ledger'
    BY <1>0, <1>14, LedgerKept DEF vars
  <2>3. FreeRows' /\ InTier' /\ Recorded'
    <3>1. rows' = rows /\ at' = at /\ tier' = tier /\ records' = records
      BY <1>14 DEF vars, stateVars, sweepVars
    <3> QED
      BY <1>0, <3>1 DEF FreeRows, InTier, Recorded, Rowed, RealAt, HaltedAt, AttemptsAt
  <2> QED
    BY <2>1, <2>2, <2>3 DEF BooksInv
<1> QED
  BY <1>1, <1>2, <1>3, <1>4, <1>5, <1>6, <1>7, <1>8, <1>9, <1>10, <1>11, <1>12, <1>13, <1>14, <1>15
     DEF Next, Tier, TierSweep, Phases, Finished

(* The books, in every reachable state: lists of attempts with one at a    *)
(* tier, totals that are sums of their costs, counters that are sums over  *)
(* the records, rows and placeholders that are free when nothing ran, and  *)
(* in Phase B an attempt for every row (run() of src/run/cascade.rs).      *)
THEOREM CascadeBooks == Spec => []BooksInv
<1>1. Init => BooksInv
  BY BooksInit
<1>2. BooksInv /\ [Next]_vars => BooksInv'
  BY BooksNext
<1> QED
  BY <1>1, <1>2, PTL DEF Spec

(* Every variable has its shape, whatever the tiers, limits and costs.     *)
THEOREM TypeCorrect == Spec => []TypeOK
<1>1. BooksInv => TypeOK
  BY DEF BooksInv
<1> QED
  BY <1>1, CascadeBooks, PTL

(* Over any history of kills, cancellations, failed evaluators, raised     *)
(* limits and resumes, the running totals of run() are what a --resume     *)
(* would compute from cascade.json (StatsFromRecords), and every record's  *)
(* total is what its attempts cost.                                        *)
THEOREM TotalsAgree == Spec => []LedgerAgrees
<1>1. BooksInv => LedgerAgrees
  BY BooksAgree DEF BooksInv
<1> QED
  BY <1>1, CascadeBooks, PTL

----------------------------------------------------------------------------
(* The order of the tiers.  What it needs of the attempts: whether one at  *)
(* a tier was completed, was run at all, was refused, and whether the      *)
(* tier has still to try the instance.                                     *)
Done(R, i, t) == Is(R[i].attempts, t, "none")
Real(R, i, t) == Is(R[i].attempts, t, "none") \/ Is(R[i].attempts, t, "eval_pending")
Held(R, i, t) == Is(R[i].attempts, t, "skipped_budget")
Open(R, i, t) == R[i].resolving = 0 /\ ~Is(R[i].attempts, t, "none")

LEMMA RealIs ==
  ASSUME Listed(records), NEW i \in Instances, NEW t
  PROVE  RealAt(i, t) <=> Real(records, i, t)
<1>1. records[i].attempts \in Lists
  BY DEF Listed
<1> QED
  BY <1>1, Reads DEF Real

LEMMA OpenIs ==
  ASSUME Listed(records), NEW t \in Tiers
  PROVE  /\ Pending(t) = {i \in Instances : Open(records, i, t)}
         /\ EvalPending(t) \subseteq Pending(t)
         /\ \A i \in EvalPending(t) : Real(records, i, t)
<1>1. \A i \in Instances : i \in Pending(t) <=> Open(records, i, t)
  BY PendingIs DEF Open
<1>2. Pending(t) \subseteq Instances /\ EvalPending(t) \subseteq Pending(t)
  BY DEF Pending, EvalPending
<1>3. \A i \in EvalPending(t) : Real(records, i, t)
  BY <1>2, EvalPendingIs DEF Real
<1> QED
  BY <1>1, <1>2, <1>3

LEMMA MarkOrder ==
  ASSUME TypeOK, Listed(records), tier \in Tiers, MarkSkipped, NEW i \in Instances, NEW t
  PROVE  /\ Real(records', i, t) <=> Real(records, i, t)
         /\ Open(records', i, t) <=> Open(records, i, t)
         /\ records'[i].resolving = records[i].resolving
  BY MarkedEffect DEF Real, Open

LEMMA SpendOrder ==
  ASSUME TypeOK, Listed(records), FreeRows, tier \in Tiers, RecordSpend, NEW i \in Instances
  PROVE  /\ records'[i].resolving = records[i].resolving
         /\ \A t : t # tier \/ i \notin NewAttempts =>
              /\ Real(records', i, t) <=> Real(records, i, t)
              /\ Open(records', i, t) <=> Open(records, i, t)
              /\ Held(records', i, t) <=> Held(records, i, t)
         /\ i \in NewAttempts =>
              /\ ~Real(records, i, tier) /\ Open(records, i, tier)
              /\ Real(records', i, tier) <=> Halt(i) = "none"
              /\ Held(records', i, tier) <=> Halt(i) = "skipped_budget"
              /\ Open(records', i, tier) <=> Halt(i) # "none"
<1>1. CASE i \in NewAttempts
  <2>1. /\ ~Is(records[i].attempts, tier, "none") /\ ~Is(records[i].attempts, tier, "eval_pending")
        /\ records[i].resolving = 0 /\ records'[i].resolving = 0
        /\ \A t, h : Is(records'[i].attempts, t, h) <=>
             IF t = tier THEN h = Halt(i) ELSE Is(records[i].attempts, t, h)
    BY <1>1, SpendEffect
  <2>2. Halt(i) \in {"none", "skipped_budget"}
    BY DEF Halt
  <2> QED
    BY <1>1, <2>1, <2>2 DEF Real, Open, Held
<1>2. CASE i \notin NewAttempts
  <2>1. records'[i] = records[i]
    BY <1>2, SpendEffect
  <2> QED
    BY <1>2, <2>1 DEF Real, Open, Held
<1> QED
  BY <1>1, <1>2

LEMMA EvaluateOrder ==
  ASSUME TypeOK, Listed(records), tier \in Tiers, NEW resolved, Evaluate(resolved), NEW i \in Instances
  PROVE  /\ records'[i].resolving = IF i \in Rowed \cap resolved /\ records[i].resolving = 0 THEN tier
                                    ELSE records[i].resolving
         /\ \A t : /\ Real(records', i, t) <=> Real(records, i, t)
                   /\ Held(records', i, t) <=> Held(records, i, t)
                   /\ Open(records', i, t) => Open(records, i, t)
         /\ i \in Rowed /\ Real(records, i, tier) => ~Open(records', i, tier)
<1>1. /\ records'[i].resolving = IF i \in Rowed \cap resolved /\ records[i].resolving = 0 THEN tier
                                 ELSE records[i].resolving
      /\ \A t, h : t # tier \/ i \notin Rowed =>
           (Is(records'[i].attempts, t, h) <=> Is(records[i].attempts, t, h))
      /\ i \in Rowed =>
           \A h : Is(records'[i].attempts, tier, h) <=>
             \E g : /\ Is(records[i].attempts, tier, g)
                    /\ h = IF g = "eval_pending" THEN "none" ELSE g
  BY EvaluateEffect
<1>2. tier # 0
  BY TiersFinite
<1>3. ASSUME NEW t
      PROVE  /\ Real(records', i, t) <=> Real(records, i, t)
             /\ Held(records', i, t) <=> Held(records, i, t)
             /\ Done(records, i, t) => Done(records', i, t)
             /\ i \in Rowed /\ t = tier /\ Real(records, i, t) => Done(records', i, t)
  <2>1. CASE t # tier \/ i \notin Rowed
    BY <1>1, <2>1 DEF Real, Held, Done
  <2>2. CASE t = tier /\ i \in Rowed
    <3>1. Is(records'[i].attempts, t, "none") <=>
            Is(records[i].attempts, t, "none") \/ Is(records[i].attempts, t, "eval_pending")
      BY <1>1, <2>2
    <3>2. ~Is(records'[i].attempts, t, "eval_pending")
      BY <1>1, <2>2
    <3>3. Is(records'[i].attempts, t, "skipped_budget") <=> Is(records[i].attempts, t, "skipped_budget")
      BY <1>1, <2>2
    <3> QED
      BY <3>1, <3>2, <3>3 DEF Real, Held, Done
  <2> QED
    BY <2>1, <2>2
<1>4. ASSUME NEW t PROVE Open(records', i, t) => Open(records, i, t)
  BY <1>1, <1>2, <1>3 DEF Open, Done
<1> QED
  BY <1>1, <1>3, <1>4 DEF Open, Done

LEMMA FailOrder ==
  ASSUME TypeOK, Listed(records), EvaluatorFails, NEW i \in Instances
  PROVE  /\ records'[i].resolving = records[i].resolving
         /\ \A t : /\ Real(records', i, t) <=> Real(records, i, t)
                   /\ Held(records', i, t) <=> Held(records, i, t)
                   /\ t # tier \/ i \notin Rowed => (Open(records', i, t) <=> Open(records, i, t))
<1>1. /\ records'[i].resolving = records[i].resolving
      /\ \A t, h : t # tier \/ i \notin Rowed \/ h = "skipped_budget" =>
           (Is(records'[i].attempts, t, h) <=> Is(records[i].attempts, t, h))
      /\ Is(records'[i].attempts, tier, "none") \/ Is(records'[i].attempts, tier, "eval_pending")
           <=> Is(records[i].attempts, tier, "none") \/ Is(records[i].attempts, tier, "eval_pending")
  BY FailEffect
<1> QED
  BY <1>1 DEF Real, Held, Open

----------------------------------------------------------------------------
(* The sweep of a tier.  Its instances, in whatever stage, are those the   *)
(* tier has to try; what it spent is on its rows; a row is refused by the  *)
(* limit only; and what its directory holds is on a row.                   *)
Ids == todo \cup running \cup Rowed
Clean == \A i \in todo \cup running : rows[i].tag = "none" /\ tier_dir[tier][i].tag \notin Archived
Charges == spent = SumFunction([i \in Instances |-> rows[i].cost])
Refusals ==
  /\ \A i \in Instances : rows[i].tag = "budget_halt" => halted
  /\ halted => spent >= Remaining
  /\ ~halted /\ cumulative_cost < limit => spent < Remaining
Shown == \A i \in Ids : tier_dir[tier][i].tag \in Archived => rows[i] = tier_dir[tier][i]
SweepInv ==
  at = "sweep" =>
    /\ todo \cap running = {}
    /\ \A i \in Ids : Open(records, i, tier)
    /\ Clean /\ Charges /\ Refusals /\ Shown

(* The sweep that a tier launches, whatever its directory holds.           *)
LEMMA LaunchOrder ==
  ASSUME TypeOK, tier \in Tiers, NEW ids \in SUBSET Instances, LaunchSweep(ids),
         limit' = limit, cumulative_cost' = cumulative_cost, tier' = tier, tier_dir' = tier_dir
  PROVE  /\ Ids' = ids /\ todo' \cap running' = {}
         /\ Clean' /\ Charges' /\ Refusals' /\ Shown'
<1> DEFINE done == {i \in ids : tier_dir[tier][i].tag \in Archived}
           charged == [i \in done |-> tier_dir[tier][i].cost]
           costs == [i \in Instances |-> rows'[i].cost]
<1>1. \A i \in Instances : tier_dir[tier][i] \in RowSet
  BY DEF TypeOK
<1>2. /\ done \in SUBSET Instances /\ done \subseteq ids /\ charged \in [done -> Nat]
      /\ \A i \in done : tier_dir[tier][i].tag \in Archived
      /\ \A i \in ids \ done : tier_dir[tier][i].tag \notin Archived
  BY <1>1 DEF RowSet
<1>3. /\ spent' = SumFunction(charged)
      /\ halted' = (done # {} /\ spent' >= Remaining)
      /\ todo' = IF halted' THEN {} ELSE ids \ done
      /\ rows' = [i \in Instances |-> IF i \in done THEN tier_dir[tier][i]
                                      ELSE IF i \in ids /\ halted' THEN Row("budget_halt", 0)
                                      ELSE NoRow]
      /\ running' = {} /\ cancelled' = FALSE
  BY DEF LaunchSweep
<1>4. /\ \A i \in done : rows'[i] = tier_dir[tier][i]
      /\ \A i \in Instances \ done : rows'[i].cost = 0
      /\ \A i \in Instances \ done : rows'[i].tag = IF i \in ids /\ halted' THEN "budget_halt" ELSE "none"
      /\ \A i \in done : rows'[i].tag \in Archived
  BY <1>2, <1>3 DEF Row, NoRow
<1>5. \A i \in done : costs[i] = charged[i]
  BY <1>2, <1>4
<1>6. rows' \in [Instances -> RowSet]
  BY LaunchTypes
<1>7. costs \in [Instances -> Nat] /\ \A i \in Instances \ done : costs[i] = 0
  BY <1>4, <1>6 DEF RowSet
<1>8. Charges' <=> spent' = SumFunction(costs)
  BY DEF Charges
<1>9. done = {} \/ done # {}
  OBVIOUS
<1>10. limit \in Nat /\ cumulative_cost \in Nat /\ Remaining = limit - cumulative_cost /\ Remaining' = Remaining
  BY CostsAssumption DEF TypeOK, Remaining
<1>11. halted' \in BOOLEAN
  BY <1>3
<1> HIDE DEF charged, costs
<1>12. Charges'
  <2>1. IsFiniteSet(Instances) /\ done \subseteq Instances
    BY <1>2, InstancesAssumption
  <2>2. SumFunction(costs) = SumFunction(charged)
    BY <1>2, <1>5, <1>7, <2>1, FamilyWithin
  <2> QED
    BY <1>3, <1>8, <2>2
<1>13. spent' \in Nat /\ (done = {} => spent' = 0)
  <2>1. IsFiniteSet(done)
    BY <1>2, InstancesFinite
  <2>2. SumFunction(charged) \in Nat
    BY <1>2, <2>1, FamilyNat
  <2>3. done = {} => SumFunction(charged) = 0
    BY <1>2, <2>1, FamilyZero
  <2> QED
    BY <1>3, <2>2, <2>3
<1>14. Rowed' = IF halted' THEN ids ELSE done
  <2>1. Rowed' = {i \in Instances : rows'[i].tag # "none"}
    BY DEF Rowed
  <2> QED
    BY <1>2, <1>4, <2>1 DEF Archived
<1> HIDE DEF done
<1>15. Ids' = todo' \cup running' \cup Rowed'
  BY DEF Ids
<1>16. Ids' = ids /\ todo' \cap running' = {}
  BY <1>2, <1>3, <1>14, <1>15
<1>17. Clean'
  <2>1. ASSUME NEW i \in todo' \cup running'
        PROVE  rows'[i].tag = "none" /\ tier_dir'[tier'][i].tag \notin Archived
    <3>1. i \in ids /\ i \notin done /\ ~halted' /\ i \in Instances
      BY <1>3, <2>1
    <3> QED
      BY <1>2, <1>4, <3>1
  <2> QED
    BY <2>1 DEF Clean
<1>18. Refusals'
  <2>1. \A i \in Instances : rows'[i].tag = "budget_halt" => halted'
    BY <1>4, <1>2 DEF Archived
  <2>2. halted' => spent' >= Remaining'
    BY <1>3, <1>10
  <2>3. ~halted' /\ cumulative_cost' < limit' => spent' < Remaining'
    <3>1. ASSUME ~halted' PROVE done = {} \/ ~(spent' >= Remaining)
      BY <1>3, <3>1
    <3>2. spent' \in Nat /\ (done = {} => spent' = 0)
      BY <1>13
    <3>3. cumulative_cost' < limit' => 0 < Remaining
      BY <1>10
    <3>4. Remaining \in Int /\ Remaining' = Remaining
      BY <1>10
    <3> QED
      BY <3>1, <3>2, <3>3, <3>4
  <2> QED
    BY <2>1, <2>2, <2>3 DEF Refusals
<1>19. Shown'
  BY <1>2, <1>4, <1>16 DEF Shown
<1> QED
  BY <1>12, <1>16, <1>17, <1>18, <1>19

(* What a sweep does on its own: its instances change their stage only.    *)
InSweep == RefuseRest \/ CancelSweep \/ \E i \in Instances : StartRun(i) \/ RunEnds(i)

LEMMA IdsKept ==
  ASSUME TypeOK, InSweep
  PROVE  /\ Ids' = Ids
         /\ at = "sweep" /\ at' = "sweep" /\ tier' = tier /\ records' = records
         /\ limit' = limit /\ cumulative_cost' = cumulative_cost
<1>1. /\ at = "sweep" /\ at' = "sweep" /\ tier' = tier /\ records' = records
      /\ limit' = limit /\ cumulative_cost' = cumulative_cost
  BY DEF InSweep, RefuseRest, CancelSweep, StartRun, RunEnds, EndRun, stateVars
<1>2. CASE RefuseRest
  <2>1. /\ rows' = [i \in Instances |-> IF i \in todo THEN Row("budget_halt", 0) ELSE rows[i]]
        /\ todo' = {} /\ running' = running /\ todo \subseteq Instances
    BY <1>2 DEF RefuseRest, TypeOK
  <2>2. Rowed' = Rowed \cup todo
    BY <2>1 DEF Rowed, Row
  <2> QED
    BY <1>1, <2>1, <2>2 DEF Ids
<1>3. CASE CancelSweep
  BY <1>1, <1>3 DEF CancelSweep, Ids, Rowed
<1>4. ASSUME NEW i \in Instances, StartRun(i) PROVE Ids' = Ids
  <2>1. /\ i \in todo /\ todo' = todo \ {i} /\ running' = running \cup {i} /\ rows' = rows
    BY <1>4 DEF StartRun
  <2>2. todo' \cup running' = todo \cup running
    BY <2>1
  <2> QED
    BY <2>1, <2>2 DEF Ids, Rowed
<1>5. ASSUME NEW i \in Instances, RunEnds(i) PROVE Ids' = Ids
  <2>1. PICK tag \in {"submitted", "failed", "lost", "cancelled"}, cost \in Costs \cup {0} :
          EndRun(i, Row(tag, cost))
    BY <1>5 DEF RunEnds
  <2>2. /\ i \in running /\ todo' = todo /\ running' = running \ {i}
        /\ rows' = [rows EXCEPT ![i] = Row(tag, cost)] /\ rows \in [Instances -> RowSet]
    BY <2>1 DEF EndRun, TypeOK
  <2>3. /\ rows'[i].tag # "none" /\ \A j \in Instances \ {i} : rows'[j] = rows[j]
    BY <2>2 DEF Row
  <2>4. Rowed' = Rowed \cup {i}
    BY <2>3 DEF Rowed
  <2> QED
    BY <2>2, <2>4 DEF Ids
<1> QED
  BY <1>1, <1>2, <1>3, <1>4, <1>5 DEF InSweep

(* A worker that panics takes its instance out of the sweep, and may leave *)
(* a trajectory of it.                                                     *)
LEMMA PanicEffect ==
  ASSUME BooksInv, SweepInv, NEW i \in Instances, RunPanics(i)
  PROVE  /\ at = "sweep" /\ tier \in Tiers /\ i \in running /\ i \notin todo /\ rows[i].tag = "none"
         /\ Ids' = Ids \ {i} /\ todo' = todo /\ running' = running \ {i}
         /\ missed' = missed \cup {<<tier, i>>}
         /\ \A j \in Instances, u \in Tiers : ~(j = i /\ u = tier) => tier_dir'[u][j] = tier_dir[u][j]
         /\ UNCHANGED <<stateVars, rows, spent, halted, cancelled, limit, at, tier, restarts, raised>>
<1>1. PICK tag \in {"none"} \cup Archived, cost \in Costs \cup {0} : WorkerPanics(i, Row(tag, cost))
  BY DEF RunPanics
<1>2. /\ at = "sweep" /\ i \in running /\ todo' = todo /\ running' = running \ {i}
      /\ missed' = missed \cup {<<tier, i>>}
      /\ UNCHANGED <<stateVars, rows, spent, halted, cancelled, limit, at, tier, restarts, raised>>
  BY <1>1 DEF WorkerPanics
<1>3. tier \in Tiers /\ tier_dir \in [Tiers -> [Instances -> RowSet]]
  BY <1>2 DEF BooksInv, InTier, TypeOK
<1>4. i \notin todo /\ rows[i].tag = "none"
  BY <1>2 DEF SweepInv, Clean
<1>5. Ids' = Ids \ {i}
  <2>1. Rowed' = Rowed /\ i \notin Rowed
    BY <1>2, <1>4 DEF Rowed
  <2> QED
    BY <1>2, <1>4, <2>1 DEF Ids
<1>6. ASSUME NEW j \in Instances, NEW u \in Tiers, ~(j = i /\ u = tier)
      PROVE  tier_dir'[u][j] = tier_dir[u][j]
  <2> DEFINE dir == [tier_dir[tier] EXCEPT ![i] = Row(tag, cost)]
  <2>1. tier_dir' = tier_dir \/ tier_dir' = [tier_dir EXCEPT ![tier] = dir]
    BY <1>1 DEF WorkerPanics
  <2>2. j # i => dir[j] = tier_dir[tier][j]
    BY <1>3
  <2> HIDE DEF dir
  <2> QED
    BY <1>3, <1>6, <2>1, <2>2
<1> QED
  BY <1>2, <1>3, <1>4, <1>5, <1>6

(* A sweep keeps its accounts.                                             *)
LEMMA SweepNext == BooksInv /\ SweepInv /\ [Next]_vars => SweepInv'
<1> SUFFICES ASSUME BooksInv, SweepInv, [Next]_vars PROVE SweepInv'
  OBVIOUS
<1>0. TypeOK /\ Ledger /\ FreeRows /\ InTier /\ Listed(records)
  BY DEF BooksInv, Ledger
<1>n. /\ limit \in Nat /\ cumulative_cost \in Nat /\ spent \in Nat
      /\ Remaining = limit - cumulative_cost
  BY <1>0, CostsAssumption DEF TypeOK, Remaining
<1>1. CASE at' # "sweep"
  BY <1>1 DEF SweepInv
<1>2. CASE StartTier
  <2>1. tier \in Tiers /\ LaunchSweep(Pending(tier))
    BY <1>2 DEF StartTier, AtTier
  <2>2. Pending(tier) = {i \in Instances : Open(records, i, tier)} /\ Pending(tier) \in SUBSET Instances
    BY <1>0, <2>1, OpenIs
  <2>3. /\ limit' = limit /\ cumulative_cost' = cumulative_cost /\ tier' = tier /\ tier_dir' = tier_dir
        /\ records' = records
    BY <1>2 DEF StartTier, stateVars
  <2>4. /\ Ids' = Pending(tier) /\ todo' \cap running' = {}
        /\ Clean' /\ Charges' /\ Refusals' /\ Shown'
    BY <1>0, <2>1, <2>2, <2>3, LaunchOrder
  <2>5. \A i \in Ids' : Open(records', i, tier')
    BY <2>2, <2>3, <2>4
  <2> QED
    BY <2>4, <2>5 DEF SweepInv
<1>3. CASE StartEvalRetry
  <2>1. tier \in Tiers /\ LaunchSweep(EvalPending(tier)) /\ MarkSkipped
    BY <1>3 DEF StartEvalRetry, AtTier
  <2>2. /\ Pending(tier) = {i \in Instances : Open(records, i, tier)}
        /\ EvalPending(tier) \subseteq Pending(tier) /\ EvalPending(tier) \in SUBSET Instances
    BY <1>0, <2>1, OpenIs
  <2>3. limit' = limit /\ cumulative_cost' = cumulative_cost /\ tier' = tier /\ tier_dir' = tier_dir
    BY <1>3 DEF StartEvalRetry
  <2>4. /\ Ids' = EvalPending(tier) /\ todo' \cap running' = {}
        /\ Clean' /\ Charges' /\ Refusals' /\ Shown'
    BY <1>0, <2>1, <2>2, <2>3, LaunchOrder
  <2>5. \A i \in Instances : Open(records', i, tier) <=> Open(records, i, tier)
    BY <1>0, <2>1, MarkOrder
  <2>6. \A i \in Ids' : Open(records', i, tier')
    BY <2>2, <2>3, <2>4, <2>5
  <2> QED
    BY <2>4, <2>6 DEF SweepInv
<1>4. ASSUME at = "sweep"
      PROVE  /\ todo \cap running = {} /\ \A i \in Ids : Open(records, i, tier)
             /\ Clean /\ Charges /\ Refusals /\ Shown /\ tier \in Tiers
             /\ \A i \in todo \cup running : i \in Instances /\ rows[i].tag = "none"
                                             /\ tier_dir[tier][i].tag \notin Archived
  BY <1>0, <1>4 DEF SweepInv, InTier, Clean, TypeOK
<1>5. CASE RefuseRest
  <2>0. /\ at = "sweep" /\ halted /\ todo' = {} /\ running' = running /\ records' = records
        /\ rows' = [i \in Instances |-> IF i \in todo THEN Row("budget_halt", 0) ELSE rows[i]]
        /\ spent' = spent /\ halted' = halted /\ tier' = tier /\ limit' = limit
        /\ cumulative_cost' = cumulative_cost /\ tier_dir' = tier_dir /\ Remaining' = Remaining
    BY <1>5 DEF RefuseRest, stateVars, Remaining
  <2>1. \A i \in Instances :
          /\ rows'[i].tag = IF i \in todo THEN "budget_halt" ELSE rows[i].tag
          /\ i \notin todo => rows'[i] = rows[i]
          /\ rows'[i].cost = rows[i].cost
    <3>1. \A i \in todo : rows[i].cost = 0
      BY <1>0, <1>4, <2>0 DEF FreeRows
    <3> QED
      BY <2>0, <3>1 DEF Row
  <2>3. Ids' = Ids
    BY <1>0, <1>5, IdsKept DEF InSweep
  <2>4. Charges'
    <3>1. [i \in Instances |-> rows'[i].cost] = [i \in Instances |-> rows[i].cost]
      BY <2>1
    <3> QED
      BY <1>4, <2>0, <3>1 DEF Charges
  <2>5. Clean'
    <3>1. \A i \in running : rows'[i].tag = "none"
      BY <1>4, <2>0, <2>1
    <3> QED
      BY <1>4, <2>0, <3>1 DEF Clean
  <2>6. Refusals'
    BY <1>4, <2>0 DEF Refusals
  <2>7. Shown'
    <3>1. \A i \in Ids : tier_dir[tier][i].tag \in Archived => i \notin todo /\ i \in Instances
      BY <1>0, <1>4, <2>0 DEF Ids, Rowed, TypeOK
    <3> QED
      BY <1>4, <2>0, <2>1, <2>3, <3>1 DEF Shown
  <2> QED
    BY <1>4, <2>0, <2>3, <2>4, <2>5, <2>6, <2>7 DEF SweepInv
<1>6. CASE CancelSweep
  <2>0. /\ at = "sweep" /\ todo' = todo /\ running' = running /\ records' = records
        /\ rows' = rows /\ spent' = spent /\ halted' = halted /\ tier' = tier /\ limit' = limit
        /\ cumulative_cost' = cumulative_cost /\ tier_dir' = tier_dir
    BY <1>6 DEF CancelSweep, stateVars
  <2> QED
    BY <1>4, <2>0 DEF SweepInv, Ids, Rowed, Clean, Charges, Refusals, Remaining, Shown
<1>7. ASSUME NEW i \in Instances, StartRun(i) PROVE SweepInv'
  <2>0. /\ at = "sweep" /\ i \in todo /\ todo' = todo \ {i} /\ running' = running \cup {i}
        /\ records' = records
        /\ rows' = rows /\ spent' = spent /\ halted' = halted /\ tier' = tier /\ limit' = limit
        /\ cumulative_cost' = cumulative_cost /\ tier_dir' = tier_dir
    BY <1>7 DEF StartRun, stateVars
  <2>1. todo' \cup running' = todo \cup running /\ todo' \cap running' = {}
    BY <1>4, <2>0
  <2>2. Ids' = Ids
    BY <1>0, <1>7, IdsKept DEF InSweep
  <2> QED
    BY <1>4, <2>0, <2>1, <2>2 DEF SweepInv, Clean, Charges, Refusals, Remaining, Shown
<1>8. ASSUME NEW i \in Instances, RunEnds(i) PROVE SweepInv'
  <2>1. PICK tag \in {"submitted", "failed", "lost", "cancelled"}, cost \in Costs \cup {0} :
          EndRun(i, Row(tag, cost))
    BY <1>8 DEF RunEnds
  <2> DEFINE row == Row(tag, cost)
  <2>2. /\ row \in RowSet /\ row.cost \in Nat /\ row.tag \notin {"none", "budget_halt"}
        /\ row.tag = "lost" => row.tag \notin Archived
    BY CostsAssumption DEF Row, RowSet, Archived
  <2>3. EndRun(i, row)
    BY <2>1
  <2> HIDE DEF row
  <2>4. /\ at = "sweep" /\ i \in running /\ todo' = todo /\ running' = running \ {i}
        /\ records' = records
        /\ rows' = [rows EXCEPT ![i] = row] /\ spent' = spent + row.cost
        /\ halted' = (halted \/ spent' >= Remaining)
        /\ tier' = tier /\ limit' = limit
        /\ cumulative_cost' = cumulative_cost /\ Remaining' = Remaining
    BY <2>3 DEF EndRun, stateVars, Remaining
  <2>5. rows \in [Instances -> RowSet] /\ tier \in Tiers
    BY <1>0, <1>4, <2>4 DEF TypeOK
  <2>6. /\ rows'[i] = row /\ \A j \in Instances \ {i} : rows'[j] = rows[j]
        /\ rows' \in [Instances -> RowSet]
        /\ rows[i].tag = "none" /\ rows[i].cost = 0 /\ tier_dir[tier][i].tag \notin Archived
    BY <1>0, <1>4, <2>2, <2>4, <2>5 DEF FreeRows
  <2>7. /\ tier_dir'[tier][i] = row \/ tier_dir'[tier][i].tag \notin Archived
        /\ \A j \in Instances \ {i} : tier_dir'[tier][j] = tier_dir[tier][j]
    <3>1. tier_dir' = tier_dir \/ tier_dir' = [tier_dir EXCEPT ![tier][i] = row]
      BY <2>3 DEF EndRun
    <3> DEFINE dir == [tier_dir[tier] EXCEPT ![i] = row]
    <3>2. tier_dir' = tier_dir \/ tier_dir' = [tier_dir EXCEPT ![tier] = dir]
      BY <3>1
    <3>3. /\ tier_dir \in [Tiers -> [Instances -> RowSet]]
          /\ dir[i] = row /\ \A j \in Instances \ {i} : dir[j] = tier_dir[tier][j]
      BY <1>0, <2>5 DEF TypeOK
    <3> HIDE DEF dir
    <3> QED
      BY <2>5, <2>6, <3>2, <3>3
  <2>9. Ids' = Ids
    BY <1>0, <1>8, IdsKept DEF InSweep
  <2>10. Charges'
    <3> DEFINE f == [j \in Instances |-> rows[j].cost]
               h == [j \in Instances |-> rows'[j].cost]
    <3>1. f \in [Instances -> Nat] /\ h \in [Instances -> Nat]
      BY <2>5, <2>6 DEF RowSet
    <3>2. h[i] = f[i] + row.cost /\ \A j \in Instances \ {i} : h[j] = f[j]
      BY <2>2, <2>6
    <3>3. spent = SumFunction(f) /\ (Charges' <=> spent' = SumFunction(h))
      BY <1>4, <2>4 DEF Charges
    <3> HIDE DEF f, h
    <3>4. SumFunction(h) = SumFunction(f) + row.cost
      BY <2>2, <3>1, <3>2, InstancesAssumption, FamilyAddOne
    <3> QED
      BY <2>4, <3>3, <3>4
  <2>11. Clean'
    <3>1. \A j \in todo' \cup running' : j \in todo \cup running /\ j # i /\ j \in Instances
      BY <1>4, <2>4
    <3> QED
      BY <1>4, <2>4, <2>6, <2>7, <3>1 DEF Clean
  <2>12. Refusals'
    <3>1. \A j \in Instances : rows'[j].tag = "budget_halt" => rows[j].tag = "budget_halt"
      BY <2>2, <2>6
    <3>2. (\A j \in Instances : rows[j].tag = "budget_halt" => halted) /\ (halted => spent >= Remaining)
      BY <1>4, <2>4 DEF Refusals
    <3>3. halted' <=> halted \/ spent' >= Remaining
      BY <2>4
    <3>4. spent >= Remaining => spent' >= Remaining
      BY <1>n, <2>2, <2>4
    <3>5. spent' \in Int /\ Remaining \in Int
      BY <1>n, <2>2, <2>4
    <3>6. \A j \in Instances : rows'[j].tag = "budget_halt" => halted'
      BY <3>1, <3>2, <3>3
    <3>7. halted' => spent' >= Remaining'
      BY <2>4, <3>2, <3>3, <3>4
    <3>8. ~halted' => spent' < Remaining'
      BY <2>4, <3>3, <3>5
    <3> QED
      BY <3>6, <3>7, <3>8 DEF Refusals
  <2>13. Shown'
    <3>1. ASSUME NEW j \in Ids', tier_dir'[tier'][j].tag \in Archived
          PROVE  rows'[j] = tier_dir'[tier'][j]
      <4>1. j \in Ids /\ j \in Instances /\ tier' = tier
        BY <1>0, <2>4, <2>9, <3>1 DEF Ids, Rowed, TypeOK
      <4>2. CASE j = i
        BY <2>6, <2>7, <3>1, <4>1, <4>2
      <4>3. CASE j # i
        BY <1>4, <2>4, <2>6, <2>7, <3>1, <4>1, <4>3 DEF Shown
      <4> QED
        BY <4>2, <4>3
    <3> QED
      BY <3>1 DEF Shown
  <2> QED
    BY <1>4, <2>4, <2>9, <2>10, <2>11, <2>12, <2>13 DEF SweepInv
<1>9. CASE UNCHANGED vars
  BY <1>9 DEF SweepInv, Ids, Rowed, Clean, Charges, Refusals, Remaining, Shown, vars, stateVars, sweepVars
<1>10. CASE SkipTier \/ StopForBudget \/ SweepFails \/ PhaseA \/ EvaluatorAnswers \/ EvaluatorFails \/ Resume
  <2>1. at' # "sweep"
    BY <1>10 DEF SkipTier, AtTier, StopForBudget, SweepFails, PhaseA, AfterSweep, EvaluatorAnswers, Evaluate,
                 EvaluatorFails, Resume
  <2> QED
    BY <1>1, <2>1
<1>11. ASSUME NEW i \in Instances, RunPanics(i) PROVE SweepInv'
  <2>1. /\ at = "sweep" /\ tier \in Tiers /\ i \notin todo /\ rows[i].tag = "none"
        /\ Ids' = Ids \ {i} /\ todo' = todo /\ running' = running \ {i}
        /\ \A j \in Instances : j # i => tier_dir'[tier][j] = tier_dir[tier][j]
        /\ UNCHANGED <<stateVars, rows, spent, halted, limit, tier>>
    BY <1>11, PanicEffect
  <2>2. Ids \subseteq Instances
    BY <1>0 DEF Ids, Rowed, TypeOK
  <2>3. Clean'
    <3>1. \A j \in todo' \cup running' : j \in todo \cup running /\ j # i /\ j \in Instances
      BY <1>4, <2>1
    <3> QED
      BY <1>4, <2>1, <3>1 DEF Clean
  <2>4. Charges' /\ Refusals'
    BY <1>4, <2>1 DEF Charges, Refusals, Remaining, stateVars
  <2>5. Shown'
    BY <1>4, <2>1, <2>2 DEF Shown
  <2>6. /\ todo' \cap running' = {}
        /\ \A j \in Ids' : Open(records', j, tier')
    BY <1>4, <2>1 DEF stateVars
  <2> QED
    BY <2>3, <2>4, <2>5, <2>6 DEF SweepInv
<1> QED
  BY <1>2, <1>3, <1>5, <1>6, <1>7, <1>8, <1>9, <1>10, <1>11
     DEF Next, Tier, TierSweep, Phases, Finished

----------------------------------------------------------------------------
(* While no --resume raised the limit and money is left, nothing is        *)
(* refused and a tier begins when the ones below it are through; except    *)
(* where a worker panicked, which leaves its instance open at its tier.    *)
Missed(i, t) == <<t, i>> \in missed
Below == cumulative_cost < limit
Unrefused == Below => \A i \in Instances, t \in Tiers : Held(records, i, t) => Missed(i, t)
Downward ==
  \A i \in Instances, t \in Tiers, u \in Tiers :
    u < t /\ Real(records, i, t) => Real(records, i, u) \/ Missed(i, u)
Together ==
  Below => \A t \in Tiers : \A i \in Instances, j \in Instances :
    Open(records, i, t) /\ Open(records, j, t) /\ Real(records, i, t)
      => Real(records, j, t) \/ Missed(j, t)
Through ==
  Below /\ at \in {"tier", "sweep", "evaluate"} =>
    \A t \in Tiers, i \in Instances : t < tier /\ Open(records, i, t) => Missed(i, t)
Sweeping ==
  at = "sweep" =>
    /\ \A i \in Ids, t \in Tiers : t < tier => Real(records, i, t) \/ Missed(i, t)
    /\ Below => \A i \in Instances : Open(records, i, tier) => i \in Ids \/ Missed(i, tier)
    /\ ~Below => \A i \in Ids : Real(records, i, tier)
Evaluating ==
  at = "evaluate" /\ Below =>
    /\ \A i \in Instances : Open(records, i, tier) => i \in Rowed \/ Missed(i, tier)
    /\ \A i \in Rowed :
         records[i].resolving = 0 => Real(records, i, tier) \/ Missed(i, tier)
Order == Unrefused /\ Downward /\ Together /\ Through /\ Sweeping /\ Evaluating
OrderInv == ~raised => Order

LEMMA MissedKept ==
  ASSUME missed \subseteq missed', NEW i, NEW t, Missed(i, t)
  PROVE  Missed(i, t)'
  BY DEF Missed

(* What is left of the order when the attempts are left alone.             *)
LEMMA OrderSame ==
  ASSUME Order, records' = records, cumulative_cost' = cumulative_cost, limit' = limit,
         missed \subseteq missed'
  PROVE  Unrefused' /\ Downward' /\ Together'
  BY MissedKept DEF Order, Unrefused, Downward, Together, Below

(* A tier that may spend starts with all instances it has to try.          *)
LEMMA StartTierOrder ==
  ASSUME BooksInv, Order, StartTier
  PROVE  Order'
<1>0. TypeOK /\ Listed(records) /\ tier \in Tiers
  BY DEF BooksInv, Ledger, StartTier, AtTier
<1>1. /\ records' = records /\ cumulative_cost' = cumulative_cost /\ limit' = limit /\ tier' = tier
      /\ at = "tier" /\ at' = "sweep" /\ tier_dir' = tier_dir /\ LaunchSweep(Pending(tier))
      /\ ~BudgetExhausted /\ missed' = missed
  BY DEF StartTier, AtTier, stateVars
<1>2. /\ Pending(tier) = {i \in Instances : Open(records, i, tier)}
      /\ Pending(tier) \in SUBSET Instances
  BY <1>0, OpenIs
<1>3. Ids' = Pending(tier)
  BY <1>0, <1>1, <1>2, LaunchOrder
<1>4. Below /\ Below'
  <2>1. limit \in Nat /\ cumulative_cost \in Nat
    BY <1>0, CostsAssumption DEF TypeOK
  <2> QED
    BY <1>1, <2>1 DEF Below, BudgetExhausted
<1>5. \A t \in Tiers, i \in Instances : t < tier /\ Open(records, i, t) => Missed(i, t)
  BY <1>1, <1>4 DEF Order, Through
<1>m. \A i, t : Missed(i, t)' <=> Missed(i, t)
  BY <1>1 DEF Missed
<1>6. ASSUME NEW i \in Ids', NEW t \in Tiers, t < tier PROVE Real(records, i, t) \/ Missed(i, t)
  <2>1. i \in Instances /\ Open(records, i, tier) /\ (Open(records, i, t) => Missed(i, t))
    BY <1>2, <1>3, <1>5, <1>6
  <2> QED
    BY <2>1 DEF Open, Real
<1>7. \A i \in Instances : Open(records, i, tier) => i \in Ids'
  BY <1>2, <1>3
<1>8. Sweeping'
  BY <1>1, <1>4, <1>6, <1>7, <1>m DEF Sweeping
<1>9. Through' /\ Evaluating'
  BY <1>1, <1>5, <1>m DEF Through, Evaluating
<1> QED
  BY <1>1, <1>8, <1>9, OrderSame DEF Order

(* With the money gone, what is run again was run before.                  *)
LEMMA SpentUpOrder ==
  ASSUME BooksInv, Order, StartEvalRetry \/ StopForBudget
  PROVE  Order'
<1>0. TypeOK /\ Listed(records) /\ tier \in Tiers
  BY DEF BooksInv, Ledger, StartEvalRetry, StopForBudget, AtTier
<1>1. /\ MarkSkipped /\ cumulative_cost' = cumulative_cost /\ limit' = limit /\ tier' = tier
      /\ BudgetExhausted /\ missed' = missed
      /\ at' = "over" \/ (at' = "sweep" /\ tier_dir' = tier_dir /\ LaunchSweep(EvalPending(tier)))
  BY DEF StartEvalRetry, StopForBudget
<1>2. ~Below /\ ~Below'
  <2>1. limit \in Nat /\ cumulative_cost \in Nat
    BY <1>0, CostsAssumption DEF TypeOK
  <2> QED
    BY <1>1, <2>1 DEF Below, BudgetExhausted
<1>3. \A i \in Instances, t \in Tiers : Real(records', i, t) <=> Real(records, i, t)
  BY <1>0, <1>1, MarkOrder
<1>m. \A i, t : Missed(i, t)' <=> Missed(i, t)
  BY <1>1 DEF Missed
<1>4. Downward'
  BY <1>3, <1>m DEF Order, Downward
<1>5. ASSUME at' = "sweep" PROVE Sweeping'
  <2>1. /\ EvalPending(tier) \subseteq Instances
        /\ \A i \in EvalPending(tier) : Real(records, i, tier)
    BY <1>0, OpenIs
  <2>2. Ids' = EvalPending(tier)
    BY <1>0, <1>1, <1>5, <2>1, LaunchOrder
  <2>3. \A i \in Ids' : i \in Instances /\ Real(records', i, tier)
    BY <1>0, <1>3, <2>1, <2>2
  <2>4. \A i \in Ids', t \in Tiers : t < tier => Real(records', i, t) \/ Missed(i, t)'
    BY <1>0, <1>4, <2>3 DEF Downward
  <2> QED
    BY <1>1, <1>2, <2>3, <2>4 DEF Sweeping
<1>6. Unrefused' /\ Together' /\ Through' /\ Evaluating'
  BY <1>2 DEF Unrefused, Together, Through, Evaluating
<1>7. Sweeping'
  BY <1>5 DEF Sweeping
<1> QED
  BY <1>4, <1>6, <1>7 DEF Order

(* The attempts of a sweep that leaves money: all its instances were run.  *)
(* (One that lost a worker at this tier may be back beside some that wait  *)
(* for their evaluator, are charged again, and exhaust the sweep alone.)   *)
LEMMA NothingRefused ==
  ASSUME BooksInv, SweepInv, Order, at = "sweep", PhaseA, Below',
         NEW i \in NewAttempts, ~Missed(i, tier)
  PROVE  Halt(i) = "none"
<1> SUFFICES ASSUME Halt(i) # "none" PROVE FALSE
  OBVIOUS
<1>0. TypeOK /\ Ledger /\ FreeRows /\ Listed(records) /\ tier \in Tiers
  BY DEF BooksInv, Ledger, InTier
<1>1. /\ RecordSpend /\ limit' = limit
      /\ NewAttempts = {j \in Rowed : records[j].resolving = 0 /\ ~RealAt(j, tier)}
  BY DEF PhaseA, NewAttempts
<1>2. /\ \A j \in Ids : Open(records, j, tier)
      /\ Charges /\ Refusals
  BY DEF SweepInv
<1> DEFINE Fresh == NewAttempts
           part == [j \in Fresh |-> rows[j].cost]
           costs == [j \in Instances |-> rows[j].cost]
<1>3. cumulative_cost' = cumulative_cost + SumFunction(part)
  BY <1>0, <1>1, SpendBooks
<1>4. /\ rows \in [Instances -> RowSet] /\ limit \in Nat /\ cumulative_cost \in Nat /\ spent \in Nat
      /\ Remaining = limit - cumulative_cost
  BY <1>0, CostsAssumption DEF TypeOK, Remaining
<1>5. Rowed \subseteq Instances /\ Rowed \subseteq Ids /\ Fresh \subseteq Rowed /\ i \in Rowed
  BY <1>1 DEF Rowed, Ids
<1>6. costs \in [Instances -> Nat] /\ part \in [Fresh -> Nat]
  BY <1>4, <1>5 DEF RowSet
<1>7. \A j \in Fresh : costs[j] = part[j]
  BY <1>5
<1>8. \A j \in Instances \ Rowed : costs[j] = 0
  BY <1>0 DEF FreeRows, Rowed
<1>9. spent = SumFunction(costs)
  BY <1>2 DEF Charges
<1> HIDE DEF part, costs
<1>10. SumFunction(part) \in Nat
  BY <1>5, <1>6, InstancesFinite, FamilyNat
<1>11. Below
  BY <1>1, <1>3, <1>4, <1>10 DEF Below
<1>12. halted /\ spent >= Remaining
  BY <1>2, <1>5 DEF Halt, Refusals
<1>13. \A j \in Rowed : records[j].resolving = 0 /\ (RealAt(j, tier) <=> Real(records, j, tier))
  BY <1>0, <1>2, <1>5, RealIs DEF Open
<1>14. \A j \in Rowed : ~Real(records, j, tier)
  <2>1. ~Real(records, i, tier) /\ Open(records, i, tier)
    BY <1>1, <1>2, <1>5, <1>13
  <2>2. ASSUME NEW j \in Rowed, Real(records, j, tier) PROVE FALSE
    BY <1>0, <1>2, <1>5, <1>11, <2>1, <2>2 DEF Order, Together
  <2> QED
    BY <2>2
<1>15. Fresh = Rowed
  BY <1>1, <1>13, <1>14
<1> HIDE DEF Fresh
<1>16. SumFunction(costs) = SumFunction(part)
  <2>1. IsFiniteSet(Instances) /\ Fresh \subseteq Instances
    BY <1>5, InstancesAssumption
  <2>2. \A j \in Instances \ Fresh : costs[j] = 0
    BY <1>8, <1>15
  <2> QED
    BY <1>6, <1>7, <2>1, <2>2, FamilyWithin
<1>17. cumulative_cost' = cumulative_cost + spent
  BY <1>3, <1>9, <1>16
<1>18. ~(cumulative_cost' < limit')
  BY <1>1, <1>4, <1>12, <1>17
<1> QED
  BY <1>18 DEF Below

(* Phase A.                                                                *)
LEMMA PhaseAInOrder ==
  ASSUME BooksInv, SweepInv, Order, PhaseA
  PROVE  Order'
<1>0. /\ TypeOK /\ Ledger /\ FreeRows /\ Listed(records) /\ tier \in Tiers
      /\ at = "sweep"
  BY DEF BooksInv, Ledger, InTier, PhaseA
<1>1. /\ RecordSpend /\ limit' = limit /\ tier' = tier /\ rows' = rows /\ Rowed' = Rowed
      /\ running = {} /\ (todo = {} \/ cancelled)
      /\ at' = "over" \/ (at' = "evaluate" /\ ~cancelled)
  BY DEF PhaseA, AfterSweep, sweepVars, Rowed
<1>m. \A i, t : Missed(i, t)' <=> Missed(i, t)
  BY DEF PhaseA, Missed
<1>2. \A i \in Ids : Open(records, i, tier)
  BY <1>0 DEF SweepInv
<1>3. NewAttempts = {i \in Rowed : records[i].resolving = 0 /\ ~RealAt(i, tier)}
  BY DEF NewAttempts
<1>4. Rowed \subseteq Instances /\ Rowed \subseteq Ids /\ NewAttempts \subseteq Rowed
  BY <1>3 DEF Rowed, Ids
<1>5. /\ \A i \in Instances : records'[i].resolving = records[i].resolving
      /\ \A i \in Instances : \A t : t # tier \/ i \notin NewAttempts =>
           /\ Real(records', i, t) <=> Real(records, i, t)
           /\ Open(records', i, t) <=> Open(records, i, t)
           /\ Held(records', i, t) <=> Held(records, i, t)
      /\ \A i \in NewAttempts :
           /\ i \in Instances
           /\ ~Real(records, i, tier) /\ Open(records, i, tier)
           /\ Real(records', i, tier) <=> Halt(i) = "none"
           /\ Held(records', i, tier) <=> Halt(i) = "skipped_budget"
           /\ Open(records', i, tier) <=> Halt(i) # "none"
  BY <1>0, <1>1, <1>4, SpendOrder
<1>6. Below' => Below
  <2> DEFINE part == [j \in NewAttempts |-> rows[j].cost]
  <2>1. cumulative_cost' = cumulative_cost + SumFunction(part)
    BY <1>0, <1>1, SpendBooks
  <2>2. part \in [NewAttempts -> Nat] /\ NewAttempts \in SUBSET Instances
    BY <1>0, <1>4 DEF TypeOK, RowSet
  <2> HIDE DEF part
  <2>3. SumFunction(part) \in Nat
    BY <2>2, InstancesFinite, FamilyNat
  <2>4. limit \in Nat /\ cumulative_cost \in Nat
    BY <1>0, CostsAssumption DEF TypeOK
  <2> QED
    BY <1>1, <2>1, <2>3, <2>4 DEF Below
<1>7. Below' => \A i \in NewAttempts : Halt(i) = "none" \/ Missed(i, tier)
  BY <1>0, NothingRefused
<1>8. Unrefused'
  <2>1. ASSUME Below', NEW i \in Instances, NEW t \in Tiers, Held(records', i, t) PROVE Missed(i, t)
    <3>1. Held(records, i, t) => Missed(i, t)
      BY <1>6, <2>1 DEF Order, Unrefused
    <3>2. CASE t = tier /\ i \in NewAttempts
      BY <1>5, <1>7, <2>1, <3>2
    <3>3. CASE t # tier \/ i \notin NewAttempts
      BY <1>5, <2>1, <3>1, <3>3
    <3> QED
      BY <3>2, <3>3
  <2> QED
    BY <1>m, <2>1 DEF Unrefused
<1>9. Downward'
  <2>1. ASSUME NEW i \in Instances, NEW t \in Tiers, NEW u \in Tiers, u < t, Real(records', i, t)
        PROVE  Real(records', i, u) \/ Missed(i, u)
    <3>1. tier \in Int /\ u \in Int /\ t \in Int
      BY <1>0 DEF Tiers
    <3>2. CASE i \notin NewAttempts
      BY <1>5, <2>1, <3>2 DEF Order, Downward
    <3>3. CASE i \in NewAttempts /\ t = tier
      <4>1. Real(records, i, u) \/ Missed(i, u)
        BY <1>0, <1>4, <2>1, <3>3 DEF Order, Sweeping
      <4> QED
        BY <1>5, <2>1, <3>1, <3>3, <4>1
    <3>4. CASE i \in NewAttempts /\ t # tier
      <4>1. Real(records, i, t)
        BY <1>5, <2>1, <3>4
      <4>2. Real(records, i, u) \/ Missed(i, u)
        BY <2>1, <4>1 DEF Order, Downward
      <4>3. Real(records, i, u) => u # tier
        BY <1>5, <3>4
      <4> QED
        BY <1>5, <4>2, <4>3
    <3> QED
      BY <3>2, <3>3, <3>4
  <2> QED
    BY <1>m, <2>1 DEF Downward
<1>10. Together'
  <2>1. ASSUME Below', NEW t \in Tiers, NEW i \in Instances, NEW j \in Instances,
               Open(records', i, t), Open(records', j, t), Real(records', i, t),
               ~Missed(j, t)
        PROVE  Real(records', j, t)
    <3>1. t # tier \/ (i \notin NewAttempts /\ j \notin NewAttempts)
      BY <1>5, <1>7, <2>1
    <3>2. Open(records, i, t) /\ Open(records, j, t) /\ Real(records, i, t)
      BY <1>5, <2>1, <3>1
    <3>3. Real(records, j, t)
      BY <1>6, <2>1, <3>2 DEF Order, Together
    <3> QED
      BY <1>5, <3>1, <3>3
  <2> QED
    BY <1>m, <2>1 DEF Together
<1>11. Through'
  <2>1. ASSUME Below', at' = "evaluate", NEW t \in Tiers, NEW i \in Instances, t < tier,
               Open(records', i, t)
        PROVE  Missed(i, t)
    <3>1. t # tier
      BY <1>0, <2>1 DEF Tiers
    <3>2. Open(records, i, t) => Missed(i, t)
      BY <1>0, <1>6, <2>1 DEF Order, Through
    <3> QED
      BY <1>5, <2>1, <3>1, <3>2
  <2> QED
    BY <1>1, <1>m, <2>1 DEF Through
<1>12. Evaluating'
  <2>1. ASSUME Below', at' = "evaluate", NEW i \in Instances, Open(records', i, tier)
        PROVE  i \in Rowed \/ Missed(i, tier)
    <3>1. Open(records, i, tier)
      BY <1>5, <2>1
    <3>2. i \in Ids \/ Missed(i, tier)
      BY <1>0, <1>6, <2>1, <3>1 DEF Order, Sweeping
    <3> QED
      BY <1>1, <2>1, <3>2 DEF Ids
  <2>2. ASSUME Below', NEW i \in Rowed, records'[i].resolving = 0
        PROVE  Real(records', i, tier) \/ Missed(i, tier)
    <3>1. CASE i \in NewAttempts
      BY <1>5, <1>7, <2>2, <3>1
    <3>2. CASE i \notin NewAttempts
      <4>1. i \in Instances /\ RealAt(i, tier)
        BY <1>3, <1>4, <1>5, <2>2, <3>2
      <4>2. Real(records, i, tier)
        BY <1>0, <4>1, RealIs
      <4> QED
        BY <1>5, <3>2, <4>1, <4>2
    <3> QED
      BY <3>1, <3>2
  <2> QED
    BY <1>1, <1>m, <2>1, <2>2 DEF Evaluating
<1>13. Sweeping'
  BY <1>1 DEF Sweeping
<1> QED
  BY <1>8, <1>9, <1>10, <1>11, <1>12, <1>13 DEF Order

(* A tier that is through when the next one begins.                        *)
LEMMA EvaluateInOrder ==
  ASSUME BooksInv, Order, NEW resolved, Evaluate(resolved)
  PROVE  Order'
<1>0. TypeOK /\ Listed(records) /\ tier \in Tiers /\ at = "evaluate"
  BY DEF BooksInv, Ledger, InTier, Evaluate
<1>1. cumulative_cost' = cumulative_cost /\ limit' = limit /\ tier' = tier + 1 /\ at' = "tier"
  BY DEF Evaluate
<1>2. \A i \in Instances :
        /\ records'[i].resolving = 0 => records[i].resolving = 0
        /\ \A t : /\ Real(records', i, t) <=> Real(records, i, t)
                  /\ Held(records', i, t) <=> Held(records, i, t)
                  /\ Open(records', i, t) => Open(records, i, t)
        /\ i \in Rowed /\ Real(records, i, tier) => ~Open(records', i, tier)
  <2>1. tier # 0
    BY <1>0, TiersFinite
  <2> QED
    BY <1>0, <2>1, EvaluateOrder
<1>3. Below' <=> Below
  BY <1>1 DEF Below
<1>m. \A i, t : Missed(i, t)' <=> Missed(i, t)
  BY DEF Evaluate, Missed
<1>4. Unrefused' /\ Downward' /\ Together'
  BY <1>2, <1>3, <1>m DEF Order, Unrefused, Downward, Together
<1>5. Through'
  <2>1. ASSUME Below, NEW t \in Tiers, NEW i \in Instances, t < tier + 1, Open(records', i, t), ~Missed(i, t)
        PROVE  FALSE
    <3>1. t < tier \/ t = tier
      BY <1>0, <2>1 DEF Tiers
    <3>2. Open(records, i, t) /\ records'[i].resolving = 0
      BY <1>2, <2>1 DEF Open
    <3>3. CASE t < tier
      BY <1>0, <2>1, <3>2, <3>3 DEF Order, Through
    <3>4. CASE t = tier
      <4>1. i \in Rowed /\ records[i].resolving = 0
        BY <1>0, <1>2, <2>1, <3>2, <3>4 DEF Order, Evaluating
      <4>2. Real(records, i, tier)
        BY <1>0, <2>1, <3>4, <4>1 DEF Order, Evaluating
      <4> QED
        BY <1>2, <2>1, <3>4, <4>1, <4>2
    <3> QED
      BY <3>1, <3>3, <3>4
  <2> QED
    BY <1>1, <1>3, <1>m, <2>1 DEF Through
<1>6. Sweeping' /\ Evaluating'
  BY <1>1 DEF Sweeping, Evaluating
<1> QED
  BY <1>4, <1>5, <1>6 DEF Order

(* What waits for its verdict was run.                                     *)
LEMMA FailInOrder ==
  ASSUME BooksInv, Order, EvaluatorFails
  PROVE  Order'
<1>0. TypeOK /\ Listed(records) /\ tier \in Tiers /\ at = "evaluate"
  BY DEF BooksInv, Ledger, InTier, EvaluatorFails
<1>1. cumulative_cost' = cumulative_cost /\ limit' = limit /\ at' = "failed"
  BY DEF EvaluatorFails
<1>2. \A i \in Instances :
        /\ records'[i].resolving = records[i].resolving
        /\ \A t : /\ Real(records', i, t) <=> Real(records, i, t)
                  /\ Held(records', i, t) <=> Held(records, i, t)
                  /\ t # tier \/ i \notin Rowed => (Open(records', i, t) <=> Open(records, i, t))
  BY <1>0, FailOrder
<1>3. Below' <=> Below
  BY <1>1 DEF Below
<1>m. \A i, t : Missed(i, t)' <=> Missed(i, t)
  BY DEF EvaluatorFails, Missed
<1>4. Unrefused' /\ Downward'
  BY <1>2, <1>3, <1>m DEF Order, Unrefused, Downward
<1>5. Together'
  <2>1. ASSUME Below, NEW t \in Tiers, NEW i \in Instances, NEW j \in Instances,
               Open(records', i, t), Open(records', j, t), Real(records', i, t), ~Missed(j, t)
        PROVE  Real(records', j, t)
    <3>1. Real(records, i, t) /\ records[j].resolving = 0
      BY <1>2, <2>1 DEF Open
    <3>2. CASE t # tier
      BY <1>2, <2>1, <3>1, <3>2 DEF Order, Together
    <3>3. CASE t = tier
      <4>1. CASE j \in Rowed
        BY <1>0, <1>2, <2>1, <3>1, <3>3, <4>1 DEF Order, Evaluating
      <4>2. CASE j \notin Rowed
        BY <1>0, <1>2, <2>1, <3>3, <4>2 DEF Order, Evaluating
      <4> QED
        BY <4>1, <4>2
    <3> QED
      BY <3>2, <3>3
  <2> QED
    BY <1>3, <1>m, <2>1 DEF Together
<1>6. Through' /\ Sweeping' /\ Evaluating'
  BY <1>1 DEF Through, Sweeping, Evaluating
<1> QED
  BY <1>4, <1>5, <1>6 DEF Order

(* A new invocation whose limit is no higher begins with the same books.   *)
LEMMA ResumeInOrder ==
  ASSUME BooksInv, Order, Resume, ~raised'
  PROVE  Order'
<1>1. /\ records' = records /\ tier' = 1 /\ at' = "tier" /\ limit' \in Nat /\ limit \in Nat
      /\ ~(limit' > limit)
  BY CostsAssumption DEF Resume, BooksInv, TypeOK
<1>2. cumulative_cost' = cumulative_cost /\ cumulative_cost \in Nat
  BY ResumeBooks DEF BooksInv, TypeOK
<1>3. Below' => Below
  BY <1>1, <1>2 DEF Below
<1>m. \A i, t : Missed(i, t)' <=> Missed(i, t)
  BY DEF Resume, Missed
<1>4. Unrefused' /\ Downward' /\ Together'
  BY <1>1, <1>3, <1>m DEF Order, Unrefused, Downward, Together
<1>5. \A t \in Tiers : ~(t < 1)
  BY DEF Tiers
<1>6. Through' /\ Sweeping' /\ Evaluating'
  BY <1>1, <1>5 DEF Through, Sweeping, Evaluating
<1> QED
  BY <1>4, <1>6 DEF Order

LEMMA SweepInOrder ==
  ASSUME BooksInv, Order, InSweep
  PROVE  Order'
<1>1. /\ Ids' = Ids
      /\ at = "sweep" /\ at' = "sweep" /\ tier' = tier /\ records' = records
      /\ limit' = limit /\ cumulative_cost' = cumulative_cost
  BY IdsKept DEF BooksInv
<1>2. Below' <=> Below
  BY <1>1 DEF Below
<1>5. missed' = missed
  BY DEF InSweep, RefuseRest, CancelSweep, StartRun, RunEnds, EndRun
<1>m. \A i, t : Missed(i, t)' <=> Missed(i, t)
  BY <1>5 DEF Missed
<1>3. Through' /\ Evaluating'
  BY <1>1, <1>2, <1>m DEF Order, Through, Evaluating
<1>4. Sweeping'
  BY <1>1, <1>2, <1>m DEF Order, Sweeping
<1> QED
  BY <1>1, <1>3, <1>4, <1>5, OrderSame DEF Order

(* A panic takes one instance out of the sweep, and says so.               *)
LEMMA PanicInOrder ==
  ASSUME BooksInv, SweepInv, Order, NEW i \in Instances, RunPanics(i)
  PROVE  Order'
<1>1. /\ at = "sweep" /\ at' = "sweep" /\ tier' = tier /\ records' = records /\ tier \in Tiers
      /\ limit' = limit /\ cumulative_cost' = cumulative_cost
      /\ Ids' = Ids \ {i} /\ missed' = missed \cup {<<tier, i>>}
  BY PanicEffect DEF stateVars
<1>2. Below' <=> Below
  BY <1>1 DEF Below
<1>3. /\ \A j, t : Missed(j, t) => Missed(j, t)'
      /\ Missed(i, tier)'
  BY <1>1 DEF Missed
<1>4. Through' /\ Evaluating'
  BY <1>1, <1>2, <1>3 DEF Order, Through, Evaluating
<1>5. Sweeping'
  BY <1>1, <1>2, <1>3 DEF Order, Sweeping
<1> QED
  BY <1>1, <1>4, <1>5, OrderSame DEF Order

LEMMA OrderNext == BooksInv /\ SweepInv /\ OrderInv /\ [Next]_vars => OrderInv'
<1> SUFFICES ASSUME BooksInv, SweepInv, OrderInv, [Next]_vars, ~raised' PROVE Order'
  BY DEF OrderInv
<1>0. TypeOK /\ Listed(records)
  BY DEF BooksInv, Ledger
<1>1. CASE SkipTier
  <2>1. /\ records' = records /\ limit' = limit /\ cumulative_cost' = cumulative_cost
        /\ tier' = tier + 1 /\ at' = at /\ at = "tier" /\ tier \in Tiers /\ Pending(tier) = {}
        /\ raised' = raised /\ missed' = missed
    BY <1>1 DEF SkipTier, AtTier, stateVars
  <2>2. Order
    BY <2>1 DEF OrderInv
  <2>3. \A i \in Instances : ~Open(records, i, tier)
    BY <1>0, <2>1, OpenIs
  <2>4. Below' <=> Below
    BY <2>1 DEF Below
  <2>5. \A t \in Tiers : t < tier + 1 => t < tier \/ t = tier
    BY <2>1 DEF Tiers
  <2>6. Through'
    BY <2>1, <2>2, <2>3, <2>4, <2>5 DEF Order, Through, Missed
  <2>7. Sweeping' /\ Evaluating'
    BY <2>1 DEF Sweeping, Evaluating
  <2> QED
    BY <2>1, <2>2, <2>6, <2>7, OrderSame DEF Order
<1>2. CASE StartTier
  <2>1. Order
    BY <1>2 DEF OrderInv, StartTier
  <2> QED
    BY <1>2, <2>1, StartTierOrder
<1>3. CASE StartEvalRetry \/ StopForBudget
  <2>1. Order
    BY <1>3 DEF OrderInv, StartEvalRetry, StopForBudget
  <2> QED
    BY <1>3, <2>1, SpentUpOrder
<1>4. CASE InSweep
  <2>1. raised' = raised
    BY <1>4 DEF InSweep, RefuseRest, CancelSweep, StartRun, RunEnds, EndRun
  <2>2. Order
    BY <2>1 DEF OrderInv
  <2> QED
    BY <1>4, <2>2, SweepInOrder
<1>5. CASE SweepFails
  <2>1. /\ records' = records /\ limit' = limit /\ cumulative_cost' = cumulative_cost
        /\ at' = "failed" /\ raised' = raised /\ missed' = missed
    BY <1>5 DEF SweepFails, stateVars
  <2>2. Through' /\ Sweeping' /\ Evaluating'
    BY <2>1 DEF Through, Sweeping, Evaluating
  <2> QED
    BY <2>1, <2>2, OrderSame DEF Order, OrderInv
<1>6. CASE PhaseA
  <2>1. Order
    BY <1>6 DEF OrderInv, PhaseA
  <2> QED
    BY <1>6, <2>1, PhaseAInOrder
<1>7. CASE EvaluatorAnswers
  <2>1. PICK resolved \in SUBSET {i \in Rowed : rows[i].tag = "submitted"} : Evaluate(resolved)
    BY <1>7 DEF EvaluatorAnswers
  <2>2. Order
    BY <2>1 DEF OrderInv, Evaluate
  <2> QED
    BY <2>1, <2>2, EvaluateInOrder
<1>8. CASE EvaluatorFails
  <2>1. Order
    BY <1>8 DEF OrderInv, EvaluatorFails
  <2> QED
    BY <1>8, <2>1, FailInOrder
<1>9. CASE Resume
  <2>1. ~raised
    BY <1>9 DEF Resume
  <2> QED
    BY <1>9, <2>1, ResumeInOrder DEF OrderInv
<1>10. CASE UNCHANGED vars
  BY <1>10 DEF OrderInv, Order, Unrefused, Downward, Together, Through, Sweeping, Evaluating, Below,
               Missed, Ids, Rowed, vars, stateVars, sweepVars
<1>11. ASSUME NEW i \in Instances, RunPanics(i) PROVE Order'
  <2>1. raised' = raised
    BY <1>11, PanicEffect
  <2> QED
    BY <1>11, <2>1, PanicInOrder DEF OrderInv
<1> QED
  BY <1>1, <1>2, <1>3, <1>4, <1>5, <1>6, <1>7, <1>8, <1>9, <1>10, <1>11
     DEF Next, Tier, TierSweep, Phases, Finished, InSweep

LEMMA OrderInit == Init => SweepInv /\ OrderInv
<1> SUFFICES ASSUME Init PROVE SweepInv /\ OrderInv
  OBVIOUS
<1>1. \A i \in Instances : \A t, h : ~Is(records[i].attempts, t, h)
  BY DEF Init, Is
<1>2. at = "tier" /\ tier = 1
  BY DEF Init
<1>3. \A t \in Tiers : ~(t < 1)
  BY DEF Tiers
<1> QED
  BY <1>1, <1>2, <1>3 DEF SweepInv, OrderInv, Order, Unrefused, Downward, Together, Through, Sweeping,
     Evaluating, Held, Real

(* The order of the tiers, in every reachable state.                       *)
THEOREM CascadeOrder == Spec => [](BooksInv /\ SweepInv /\ OrderInv)
<1>1. Init => BooksInv /\ SweepInv /\ OrderInv
  BY BooksInit, OrderInit
<1>2. BooksInv /\ SweepInv /\ OrderInv /\ [Next]_vars => (BooksInv /\ SweepInv /\ OrderInv)'
  BY BooksNext, SweepNext, OrderNext
<1> QED
  BY <1>1, <1>2, PTL DEF Spec

(* What starts a run.                                                      *)
LEMMA RunStarts ==
  ASSUME TypeOK, [Next]_vars, NEW i \in running' \ running
  PROVE  i \in Instances /\ StartRun(i)
<1>1. ASSUME NEW j \in Instances, StartRun(j) PROVE i = j
  BY <1>1 DEF StartRun
<1>2. ASSUME NEW ids, LaunchSweep(ids) PROVE FALSE
  BY <1>2 DEF LaunchSweep
<1>3. ASSUME NEW j, RunEnds(j) PROVE FALSE
  BY <1>3 DEF RunEnds, EndRun
<1>10. ASSUME NEW j, RunPanics(j) PROVE FALSE
  BY <1>10 DEF RunPanics, WorkerPanics
<1>4. running' # running
  OBVIOUS
<1>5. ASSUME NoSweep PROVE FALSE
  BY <1>5 DEF NoSweep
<1>6. ~(SkipTier \/ StopForBudget \/ StartTier \/ StartEvalRetry)
  BY <1>2, <1>4 DEF SkipTier, StopForBudget, StartTier, StartEvalRetry, sweepVars
<1>7. ~(RefuseRest \/ CancelSweep \/ SweepFails)
  BY <1>4, <1>5 DEF RefuseRest, CancelSweep, SweepFails
<1>8. ~(PhaseA \/ EvaluatorAnswers \/ EvaluatorFails \/ Resume)
  BY <1>4, <1>5 DEF PhaseA, EvaluatorAnswers, Evaluate, EvaluatorFails, Resume, sweepVars
<1>9. ~UNCHANGED vars
  BY <1>4 DEF vars, sweepVars
<1> QED
  BY <1>1, <1>3, <1>6, <1>7, <1>8, <1>9, <1>10 DEF Next, Tier, TierSweep, Phases, Finished

(* As long as no --resume raised the limit, for what a sweep starts a      *)
(* worker was started at every tier below, which left an attempt unless it *)
(* panicked, whatever was killed, cancelled or refused before.             *)
THEOREM TiersTriedInOrder == Spec => NeverSkipsTier
<1>1. BooksInv /\ SweepInv /\ OrderInv /\ [Next]_vars =>
        [\A i \in running' \ running : raised \/ \A t \in 1 .. tier - 1 : StartedAt(i, t)]_vars
  <2> SUFFICES ASSUME BooksInv, SweepInv, OrderInv, [Next]_vars, NEW i \in running' \ running, ~raised,
                      NEW t \in 1 .. tier - 1
               PROVE  StartedAt(i, t)
    OBVIOUS
  <2>1. TypeOK /\ Listed(records) /\ i \in Instances /\ StartRun(i)
    BY RunStarts DEF BooksInv, Ledger
  <2>2. at = "sweep" /\ i \in Ids /\ tier \in Tiers
    BY <2>1 DEF StartRun, Ids, BooksInv, InTier
  <2>3. t \in Tiers /\ t < tier
    BY <2>2, TiersAssumption DEF Tiers
  <2>4. Real(records, i, t) \/ Missed(i, t)
    BY <2>2, <2>3 DEF OrderInv, Order, Sweeping
  <2> QED
    BY <2>1, <2>4, RealIs DEF StartedAt, Missed
<1> QED
  BY <1>1, CascadeOrder, PTL DEF Spec, NeverSkipsTier

----------------------------------------------------------------------------
(* What a killed or cancelled sweep leaves on disk without an attempt is   *)
(* of a tier its instance has not gone beyond, unless a worker of the      *)
(* instance panicked there or below.                                       *)
Unrecorded(j, u) ==
  tier_dir[u][j].tag \in Archived /\ ~Real(records, j, u) /\ ~Panicked(j, u)
Reached ==
  \A j \in Instances, u \in Tiers : Unrecorded(j, u) =>
    /\ records[j].resolving = 0
    /\ \A t \in Tiers : t < u => ~Open(records, j, t)
NoneAbove ==
  at \in {"sweep", "evaluate"} => \A j \in Ids, u \in Tiers : tier < u => ~Unrecorded(j, u)
Ceiling == Reached /\ NoneAbove
CeilingInv == ~raised => Ceiling

(* A step that opens nothing, unmakes no run and writes no trajectory.     *)
LEMMA CeilingSame ==
  ASSUME Ceiling, tier_dir' = tier_dir, missed' = missed,
         \A i \in Instances : /\ records[i].resolving = 0 => records'[i].resolving = 0
                              /\ \A t \in Tiers : /\ Real(records, i, t) => Real(records', i, t)
                                                  /\ Open(records', i, t) => Open(records, i, t)
  PROVE  /\ Reached'
         /\ \A j \in Instances, u \in Tiers : Unrecorded(j, u)' => Unrecorded(j, u)
<1>1. \A j \in Instances, u \in Tiers : Unrecorded(j, u)' => Unrecorded(j, u)
  BY DEF Unrecorded, Panicked
<1> QED
  BY <1>1 DEF Ceiling, Reached

LEMMA StartKeepsCeiling ==
  ASSUME BooksInv, Ceiling, StartTier \/ StartEvalRetry
  PROVE  Ceiling'
<1>0. TypeOK /\ Listed(records) /\ tier \in Tiers
  BY DEF BooksInv, Ledger, StartTier, StartEvalRetry, AtTier
<1>1. /\ tier_dir' = tier_dir /\ tier' = tier /\ missed' = missed
      /\ limit' = limit /\ cumulative_cost' = cumulative_cost
      /\ records' = records \/ MarkSkipped
      /\ LaunchSweep(Pending(tier)) \/ LaunchSweep(EvalPending(tier))
  BY DEF StartTier, StartEvalRetry, stateVars
<1>2. \A i \in Instances : /\ records'[i].resolving = records[i].resolving
                           /\ \A t : /\ Real(records', i, t) <=> Real(records, i, t)
                                     /\ Open(records', i, t) <=> Open(records, i, t)
  BY <1>0, <1>1, MarkOrder
<1>3. \A i \in Ids' : i \in Instances /\ Open(records, i, tier)
  <2>1. /\ Pending(tier) = {i \in Instances : Open(records, i, tier)}
        /\ EvalPending(tier) \subseteq Pending(tier)
    BY <1>0, OpenIs
  <2>2. Ids' = Pending(tier) \/ Ids' = EvalPending(tier)
    <3>1. Pending(tier) \in SUBSET Instances /\ EvalPending(tier) \in SUBSET Instances
      BY <2>1
    <3> QED
      BY <1>0, <1>1, <3>1, LaunchOrder
  <2> QED
    BY <2>1, <2>2
<1>4. \A j \in Ids', u \in Tiers : tier < u => ~Unrecorded(j, u)
  BY <1>0, <1>3 DEF Ceiling, Reached
<1>5. /\ Reached' /\ \A j \in Instances, u \in Tiers : Unrecorded(j, u)' => Unrecorded(j, u)
  BY <1>1, <1>2, CeilingSame
<1> QED
  BY <1>1, <1>3, <1>4, <1>5 DEF Ceiling, NoneAbove

(* A trajectory is written by the tier that has the floor.                 *)
LEMMA EndKeepsCeiling ==
  ASSUME BooksInv, SweepInv, Order, Ceiling, NEW i \in Instances, RunEnds(i)
  PROVE  Ceiling'
<1>1. PICK tag \in {"submitted", "failed", "lost", "cancelled"}, cost \in Costs \cup {0} :
        EndRun(i, Row(tag, cost))
  BY DEF RunEnds
<1>2. /\ at = "sweep" /\ at' = "sweep" /\ i \in running /\ i \in Ids /\ tier' = tier /\ records' = records
      /\ tier_dir' = tier_dir \/ tier_dir' = [tier_dir EXCEPT ![tier][i] = Row(tag, cost)]
  BY <1>1 DEF EndRun, stateVars, Ids
<1>9. Ids' = Ids /\ missed' = missed
  BY <1>1, IdsKept DEF InSweep, EndRun, BooksInv
<1>3. /\ tier \in Tiers /\ tier_dir \in [Tiers -> [Instances -> RowSet]]
      /\ Open(records, i, tier)
  BY <1>2 DEF BooksInv, InTier, TypeOK, SweepInv
<1>4. ASSUME NEW j \in Instances, NEW u \in Tiers, ~(j = i /\ u = tier)
      PROVE  tier_dir'[u][j] = tier_dir[u][j]
  <2> DEFINE dir == [tier_dir[tier] EXCEPT ![i] = Row(tag, cost)]
  <2>1. tier_dir' = tier_dir \/ tier_dir' = [tier_dir EXCEPT ![tier] = dir]
    BY <1>2
  <2>2. j # i => dir[j] = tier_dir[tier][j]
    BY <1>3
  <2> HIDE DEF dir
  <2> QED
    BY <1>3, <1>4, <2>1, <2>2
<1>5. \A j \in Instances, u \in Tiers :
        ~(j = i /\ u = tier) => (Unrecorded(j, u)' <=> Unrecorded(j, u))
  BY <1>2, <1>4, <1>9 DEF Unrecorded, Panicked
<1>6. ASSUME NEW u \in Tiers, u = tier, Unrecorded(i, u)', NEW t \in Tiers, t < u
      PROVE  ~Open(records, i, t)
  <2>1. ~Real(records, i, tier) /\ ~Panicked(i, tier)
    BY <1>2, <1>6, <1>9 DEF Unrecorded, Panicked
  <2>2. Below
    BY <1>2, <2>1 DEF Order, Sweeping
  <2>3. t \in 1 .. tier
    BY <1>3, <1>6 DEF Tiers
  <2>4. ~Missed(i, t)
    BY <2>1, <2>3 DEF Panicked, Missed
  <2> QED
    BY <1>2, <1>6, <2>2, <2>4 DEF Order, Through
<1>7. Reached'
  <2>1. ASSUME NEW j \in Instances, NEW u \in Tiers, Unrecorded(j, u)'
        PROVE  /\ records[j].resolving = 0
               /\ \A t \in Tiers : t < u => ~Open(records, j, t)
    <3>1. CASE j = i /\ u = tier
      <4>1. Unrecorded(i, u)' /\ records[j].resolving = 0
        BY <1>3, <2>1, <3>1 DEF Open
      <4> QED
        BY <1>6, <3>1, <4>1
    <3>2. CASE ~(j = i /\ u = tier)
      <4>1. Unrecorded(j, u)
        BY <1>5, <2>1, <3>2
      <4> QED
        BY <4>1 DEF Ceiling, Reached
    <3> QED
      BY <3>1, <3>2
  <2> QED
    BY <1>2, <2>1 DEF Reached
<1>8. NoneAbove'
  <2>1. ASSUME NEW j \in Ids, NEW u \in Tiers, tier < u, Unrecorded(j, u)' PROVE FALSE
    <3>0. j \in Instances
      BY DEF BooksInv, TypeOK, Ids, Rowed
    <3>1. u # tier
      BY <1>3, <2>1 DEF Tiers
    <3>2. Unrecorded(j, u)
      BY <1>5, <2>1, <3>0, <3>1
    <3> QED
      BY <1>2, <2>1, <3>2 DEF Ceiling, NoneAbove
  <2> QED
    BY <1>2, <1>9, <2>1 DEF NoneAbove
<1> QED
  BY <1>7, <1>8 DEF Ceiling

(* What a panicked worker leaves is of a pair that has its excuse.         *)
LEMMA PanicKeepsCeiling ==
  ASSUME BooksInv, SweepInv, Ceiling, NEW i \in Instances, RunPanics(i)
  PROVE  Ceiling'
<1>1. /\ at = "sweep" /\ tier' = tier /\ tier \in Tiers /\ records' = records
      /\ Ids' = Ids \ {i} /\ missed' = missed \cup {<<tier, i>>}
      /\ \A j \in Instances, u \in Tiers : ~(j = i /\ u = tier) => tier_dir'[u][j] = tier_dir[u][j]
  BY PanicEffect DEF stateVars
<1>2. Ids \subseteq Instances
  BY DEF BooksInv, TypeOK, Ids, Rowed
<1>3. Panicked(i, tier)'
  BY <1>1 DEF Panicked, Tiers
<1>4. \A j \in Instances, u \in Tiers : Unrecorded(j, u)' => Unrecorded(j, u)
  <2>1. ASSUME NEW j \in Instances, NEW u \in Tiers, Unrecorded(j, u)' PROVE Unrecorded(j, u)
    <3>1. ~(j = i /\ u = tier)
      BY <1>1, <1>3, <2>1 DEF Unrecorded
    <3>2. ~Panicked(j, u)
      BY <1>1, <2>1 DEF Unrecorded, Panicked
    <3> QED
      BY <1>1, <2>1, <3>1, <3>2 DEF Unrecorded
  <2> QED
    BY <2>1
<1> QED
  BY <1>1, <1>2, <1>4 DEF Ceiling, Reached, NoneAbove

LEMMA PhaseAKeepsCeiling ==
  ASSUME BooksInv, SweepInv, Ceiling, PhaseA
  PROVE  Ceiling'
<1>0. TypeOK /\ FreeRows /\ Listed(records) /\ tier \in Tiers /\ at = "sweep"
  BY DEF BooksInv, Ledger, InTier, PhaseA
<1>1. RecordSpend /\ tier' = tier /\ tier_dir' = tier_dir /\ missed' = missed
      /\ Ids' = Ids /\ Ids \subseteq Instances
  BY <1>0 DEF PhaseA, Ids, Rowed, sweepVars, TypeOK
<1>2. \A i \in Instances : /\ records'[i].resolving = records[i].resolving
                           /\ \A t \in Tiers : /\ Real(records, i, t) => Real(records', i, t)
                                               /\ Open(records', i, t) => Open(records, i, t)
  <2>1. ASSUME NEW i \in Instances, NEW t \in Tiers
        PROVE  /\ records'[i].resolving = records[i].resolving
               /\ Real(records, i, t) => Real(records', i, t)
               /\ Open(records', i, t) => Open(records, i, t)
    <3>1. CASE t # tier \/ i \notin NewAttempts
      BY <1>0, <1>1, <3>1, SpendOrder
    <3>2. CASE t = tier /\ i \in NewAttempts
      BY <1>0, <1>1, <3>2, SpendOrder
    <3> QED
      BY <3>1, <3>2
  <2>2. ASSUME NEW i \in Instances PROVE records'[i].resolving = records[i].resolving
    BY <1>0, <1>1, SpendOrder
  <2> QED
    BY <2>1, <2>2
<1>3. Reached' /\ \A j \in Instances, u \in Tiers : Unrecorded(j, u)' => Unrecorded(j, u)
  BY <1>1, <1>2, CeilingSame
<1> QED
  BY <1>0, <1>1, <1>3 DEF Ceiling, NoneAbove

(* The evaluator resolves what was submitted, which has its attempt.       *)
LEMMA EvaluateKeepsCeiling ==
  ASSUME BooksInv, Order, Ceiling,
         NEW resolved \in SUBSET {i \in Rowed : rows[i].tag = "submitted"}, Evaluate(resolved)
  PROVE  Ceiling'
<1>0. TypeOK /\ Listed(records) /\ Recorded /\ tier \in Tiers /\ at = "evaluate"
  BY DEF BooksInv, Ledger, InTier, Evaluate
<1>1. tier_dir' = tier_dir /\ at' = "tier" /\ missed' = missed
  BY DEF Evaluate
<1>2. \A i \in Instances :
        /\ records'[i].resolving = IF i \in Rowed \cap resolved /\ records[i].resolving = 0 THEN tier
                                   ELSE records[i].resolving
        /\ \A t : /\ Real(records', i, t) <=> Real(records, i, t)
                  /\ Open(records', i, t) => Open(records, i, t)
  BY <1>0, EvaluateOrder
<1>3. \A j \in Instances, u \in Tiers : Unrecorded(j, u)' => Unrecorded(j, u)
  BY <1>1, <1>2 DEF Unrecorded, Panicked
<1>4. ASSUME NEW j \in Instances, NEW u \in Tiers, Unrecorded(j, u), records[j].resolving = 0,
             j \in resolved
      PROVE  FALSE
  <2>1. j \in Rowed /\ rows[j].tag # "budget_halt"
    BY <1>4
  <2>2. Real(records, j, tier)
    BY <1>0, <1>4, <2>1, RealIs DEF Recorded
  <2>3. ~(tier < u)
    BY <1>0, <1>4, <2>1 DEF Ceiling, NoneAbove, Ids
  <2>4. u < tier \/ u = tier
    BY <1>0, <2>3 DEF Tiers
  <2>5. ~Missed(j, u)
    <3>1. u \in 1 .. u
      BY DEF Tiers
    <3> QED
      BY <1>4, <3>1 DEF Unrecorded, Panicked, Missed
  <2>6. Real(records, j, u)
    BY <1>0, <2>2, <2>4, <2>5 DEF Order, Downward
  <2> QED
    BY <1>4, <2>6 DEF Unrecorded
<1>5. ASSUME NEW j \in Instances, NEW u \in Tiers, Unrecorded(j, u)'
      PROVE  /\ records'[j].resolving = 0
             /\ \A t \in Tiers : t < u => ~Open(records', j, t)
  <2>1. Unrecorded(j, u)
    BY <1>3, <1>5
  <2>2. /\ records[j].resolving = 0
        /\ \A t \in Tiers : t < u => ~Open(records, j, t)
    BY <2>1 DEF Ceiling, Reached
  <2> QED
    BY <1>2, <1>4, <2>1, <2>2
<1>6. Reached'
  BY <1>5 DEF Reached
<1> QED
  BY <1>1, <1>6 DEF Ceiling, NoneAbove

LEMMA FailKeepsCeiling ==
  ASSUME BooksInv, Ceiling, EvaluatorFails
  PROVE  Ceiling'
<1>0. TypeOK /\ Listed(records) /\ tier \in Tiers /\ at = "evaluate"
  BY DEF BooksInv, Ledger, InTier, EvaluatorFails
<1>1. tier_dir' = tier_dir /\ at' = "failed" /\ missed' = missed
  BY DEF EvaluatorFails
<1>2. \A i \in Instances :
        /\ records'[i].resolving = records[i].resolving
        /\ \A t : /\ Real(records', i, t) <=> Real(records, i, t)
                  /\ t # tier \/ i \notin Rowed => (Open(records', i, t) <=> Open(records, i, t))
  BY <1>0, FailOrder
<1>3. ASSUME NEW j \in Instances, NEW u \in Tiers, Unrecorded(j, u)'
      PROVE  /\ records'[j].resolving = 0
             /\ \A t \in Tiers : t < u => ~Open(records', j, t)
  <2>1. Unrecorded(j, u)
    BY <1>1, <1>2, <1>3 DEF Unrecorded, Panicked
  <2>2. /\ records[j].resolving = 0
        /\ \A t \in Tiers : t < u => ~Open(records, j, t)
        /\ j \in Rowed => ~(tier < u)
    BY <1>0, <2>1 DEF Ceiling, Reached, NoneAbove, Ids
  <2>3. j \in Rowed => \A t \in Tiers : t < u => t # tier
    BY <1>0, <2>2 DEF Tiers
  <2> QED
    BY <1>2, <2>2, <2>3
<1>4. Reached'
  BY <1>3 DEF Reached
<1> QED
  BY <1>1, <1>4 DEF Ceiling, NoneAbove

LEMMA CeilingNext == BooksInv /\ SweepInv /\ OrderInv /\ CeilingInv /\ [Next]_vars => CeilingInv'
<1> SUFFICES ASSUME BooksInv, SweepInv, OrderInv, CeilingInv, [Next]_vars, ~raised' PROVE Ceiling'
  BY DEF CeilingInv
<1>1. ~raised => Order /\ Ceiling
  BY DEF OrderInv, CeilingInv
<1>t. TypeOK
  BY DEF BooksInv
<1>2. CASE StartTier \/ StartEvalRetry
  <2>1. ~raised
    BY <1>2 DEF StartTier, StartEvalRetry
  <2> QED
    BY <1>1, <1>2, <2>1, StartKeepsCeiling
<1>3. ASSUME NEW i \in Instances, RunEnds(i) PROVE Ceiling'
  <2>1. ~raised
    BY <1>3 DEF RunEnds, EndRun
  <2> QED
    BY <1>1, <1>3, <2>1, EndKeepsCeiling
<1>4. CASE PhaseA
  <2>1. ~raised
    BY <1>4 DEF PhaseA
  <2> QED
    BY <1>1, <1>4, <2>1, PhaseAKeepsCeiling
<1>5. CASE EvaluatorAnswers
  <2>1. PICK resolved \in SUBSET {i \in Rowed : rows[i].tag = "submitted"} : Evaluate(resolved)
    BY <1>5 DEF EvaluatorAnswers
  <2>2. ~raised
    BY <2>1 DEF Evaluate
  <2> QED
    BY <1>1, <2>1, <2>2, EvaluateKeepsCeiling
<1>6. CASE EvaluatorFails
  <2>1. ~raised
    BY <1>6 DEF EvaluatorFails
  <2> QED
    BY <1>1, <1>6, <2>1, FailKeepsCeiling
<1>7. CASE StopForBudget
  <2>1. ~raised /\ tier_dir' = tier_dir /\ missed' = missed /\ at' = "over" /\ tier \in Tiers /\ MarkSkipped
    BY <1>7 DEF StopForBudget, AtTier
  <2>2. TypeOK /\ Listed(records)
    BY DEF BooksInv, Ledger
  <2>3. \A i \in Instances : /\ records'[i].resolving = records[i].resolving
                             /\ \A t : /\ Real(records', i, t) <=> Real(records, i, t)
                                       /\ Open(records', i, t) <=> Open(records, i, t)
    BY <2>1, <2>2, MarkOrder
  <2>4. Reached'
    BY <1>1, <2>1, <2>3, CeilingSame
  <2> QED
    BY <2>1, <2>4 DEF Ceiling, NoneAbove
<1>8. CASE SkipTier \/ SweepFails \/ Resume
  <2>1. /\ ~raised /\ tier_dir' = tier_dir /\ missed' = missed /\ records' = records
        /\ at' \notin {"sweep", "evaluate"}
    <3>1. CASE SkipTier
      BY <3>1 DEF SkipTier, AtTier, stateVars
    <3>2. CASE SweepFails
      BY <3>2 DEF SweepFails, stateVars
    <3>3. CASE Resume
      BY <3>3 DEF Resume
    <3> QED
      BY <1>8, <3>1, <3>2, <3>3
  <2>2. Reached'
    BY <1>1, <2>1, CeilingSame
  <2> QED
    BY <2>1, <2>2 DEF Ceiling, NoneAbove
<1>9. ASSUME raised' = raised, tier_dir' = tier_dir, missed' = missed, records' = records,
             at' = at, tier' = tier, Ids' = Ids
      PROVE  Ceiling'
  <2>1. Ceiling
    BY <1>1, <1>9
  <2>2. Reached' /\ \A j \in Instances, u \in Tiers : Unrecorded(j, u)' => Unrecorded(j, u)
    BY <1>9, <2>1, CeilingSame
  <2>3. Ids \subseteq Instances
    BY <1>t DEF Ids, Rowed, TypeOK
  <2> QED
    BY <1>9, <2>1, <2>2, <2>3 DEF Ceiling, NoneAbove
<1>10. CASE RefuseRest \/ CancelSweep
  <2>1. Ids' = Ids /\ at' = at /\ tier' = tier /\ records' = records
    BY <1>t, <1>10, IdsKept DEF InSweep
  <2> QED
    BY <1>9, <1>10, <2>1 DEF RefuseRest, CancelSweep
<1>11. ASSUME NEW i \in Instances, StartRun(i) PROVE Ceiling'
  <2>1. Ids' = Ids /\ at' = at /\ tier' = tier /\ records' = records
    BY <1>t, <1>11, IdsKept DEF InSweep
  <2> QED
    BY <1>9, <1>11, <2>1 DEF StartRun
<1>12. CASE UNCHANGED vars
  BY <1>9, <1>12 DEF vars, stateVars, sweepVars, Ids, Rowed
<1>13. ASSUME NEW i \in Instances, RunPanics(i) PROVE Ceiling'
  <2>1. raised' = raised
    BY <1>13, PanicEffect
  <2> QED
    BY <1>1, <1>13, <2>1, PanicKeepsCeiling
<1> QED
  BY <1>2, <1>3, <1>4, <1>5, <1>6, <1>7, <1>8, <1>10, <1>11, <1>12, <1>13
     DEF Next, Tier, TierSweep, Phases, Finished

LEMMA CeilingInit == Init => CeilingInv
<1> SUFFICES ASSUME Init PROVE Ceiling
  BY DEF CeilingInv
<1>1. \A t \in Tiers, i \in Instances : tier_dir[t][i].tag = "none"
  BY DEF Init, NoRow, Row
<1>2. at = "tier"
  BY DEF Init
<1> QED
  BY <1>1, <1>2 DEF Ceiling, Reached, NoneAbove, Unrecorded, Archived

(* What is known to be spent is what the books and the sweep say.          *)
LEMMA KnownWithin ==
  ASSUME BooksInv, SweepInv, Order, Ceiling, at = "sweep", Below
  PROVE  Known \in Nat /\ Known <= cumulative_cost + spent
<1>0. /\ TypeOK /\ Listed(records) /\ tier \in Tiers
      /\ Books(records, cumulative_cost, tier_stats)
      /\ records \in [Instances -> RecordSet] /\ rows \in [Instances -> RowSet]
      /\ tier_dir \in [Tiers -> [Instances -> RowSet]]
      /\ IsFiniteSet(Tiers) /\ IsFiniteSet(Instances)
  BY TiersFinite, InstancesAssumption DEF BooksInv, Ledger, InTier, TypeOK, RecordSet
<1>1. ASSUME NEW j \in Instances, NEW t \in Tiers
      PROVE  /\ OnDisk(j, t) \in Nat /\ Cost(records[j].attempts, t) \in Nat /\ rows[j].cost \in Nat
             /\ OnDisk(j, t) <= IF t = tier THEN Cost(records[j].attempts, t) + rows[j].cost
                                ELSE Cost(records[j].attempts, t)
  <2>1. /\ CostAt(j, t) = Cost(records[j].attempts, t)
        /\ RealAt(j, t) <=> Real(records, j, t)
        /\ Cost(records[j].attempts, t) \in Nat
    <3>1. records[j].attempts \in Lists
      BY <1>0 DEF Listed
    <3> QED
      BY <1>0, <3>1, Reads, RealIs, CostValue
  <2>2. rows[j].cost \in Nat /\ tier_dir[t][j].cost \in Nat
    BY <1>0 DEF RowSet
  <2>3. CASE Real(records, j, t)
    <3>1. OnDisk(j, t) = Cost(records[j].attempts, t)
      BY <2>1, <2>3 DEF OnDisk
    <3> QED
      BY <2>1, <2>2, <3>1
  <2>4. CASE ~(Unrecorded(j, t) /\ t <= tier) /\ ~Real(records, j, t)
    <3>1. OnDisk(j, t) = 0
      BY <2>1, <2>4 DEF OnDisk, Seen, Unrecorded
    <3> QED
      BY <2>1, <2>2, <3>1
  <2>5. CASE Unrecorded(j, t) /\ t <= tier
    <3>1. records[j].resolving = 0
      BY <2>5 DEF Ceiling, Reached
    <3>2. ~Real(records, j, t) /\ tier_dir[t][j].tag \in Archived /\ ~Panicked(j, t)
      BY <2>5 DEF Unrecorded
    <3>9. ~Missed(j, t)
      <4>1. t \in 1 .. t
        BY DEF Tiers
      <4> QED
        BY <3>2, <4>1 DEF Panicked, Missed
    <3>3. Open(records, j, t)
      BY <3>1, <3>2 DEF Open, Real
    <3>4. ~(t < tier)
      BY <3>3, <3>9 DEF Order, Through
    <3>5. t = tier
      BY <1>0, <2>5, <3>4 DEF Tiers
    <3>6. j \in Ids
      BY <3>3, <3>5, <3>9 DEF Order, Sweeping
    <3>7. rows[j] = tier_dir[tier][j]
      BY <3>2, <3>5, <3>6 DEF SweepInv, Shown
    <3>8. OnDisk(j, t) = rows[j].cost
      <4>1. OnDisk(j, t) = tier_dir[t][j].cost
        BY <2>1, <2>5, <3>2 DEF OnDisk, Seen
      <4> QED
        BY <3>5, <3>7, <4>1
    <3> QED
      BY <2>1, <2>2, <3>5, <3>8
  <2> QED
    BY <2>3, <2>4, <2>5 DEF Unrecorded
<1>2. ASSUME NEW j \in Instances
      PROVE  /\ SumFunction([t \in Tiers |-> OnDisk(j, t)]) \in Nat
             /\ SumFunction([t \in Tiers |-> OnDisk(j, t)]) <= records[j].total + rows[j].cost
  <2> DEFINE a == [t \in Tiers |-> OnDisk(j, t)]
             f == [t \in Tiers |-> Cost(records[j].attempts, t)]
             h == [t \in Tiers |-> IF t = tier THEN Cost(records[j].attempts, t) + rows[j].cost
                                   ELSE Cost(records[j].attempts, t)]
  <2>1. a \in [Tiers -> Nat] /\ f \in [Tiers -> Nat] /\ h \in [Tiers -> Nat] /\ rows[j].cost \in Nat
    BY <1>0, <1>1
  <2>2. \A t \in Tiers : a[t] <= h[t]
    BY <1>1
  <2>3. h[tier] = f[tier] + rows[j].cost /\ \A t \in Tiers \ {tier} : h[t] = f[t]
    BY <1>0
  <2>4. records[j].total = SumFunction(f)
    BY <1>0 DEF Books, Total
  <2> HIDE DEF a, f, h
  <2>5. SumFunction(h) = SumFunction(f) + rows[j].cost
    <3>1. tier \in Tiers /\ IsFiniteSet(Tiers)
      BY <1>0
    <3> QED
      BY <2>1, <2>3, <3>1, FamilyAddOne
  <2>6. SumFunction(a) <= SumFunction(h) /\ SumFunction(a) \in Nat
    <3>1. IsFiniteSet(Tiers)
      BY <1>0
    <3> QED
      BY <2>1, <2>2, <3>1, FamilyLess, FamilyNat
  <2>7. SumFunction(a) \in Nat /\ SumFunction(a) <= records[j].total + rows[j].cost
    BY <2>4, <2>5, <2>6
  <2> QED
    BY <2>7 DEF a
<1> DEFINE k == [j \in Instances |-> SumFunction([t \in Tiers |-> OnDisk(j, t)])]
           p == [j \in Instances |-> records[j].total]
           q == [j \in Instances |-> rows[j].cost]
           s == [j \in Instances |-> records[j].total + rows[j].cost]
<1>3. \A j \in Instances : records[j].total \in Nat /\ rows[j].cost \in Nat
  BY <1>0 DEF RecordSet, RowSet
<1>4. /\ k \in [Instances -> Nat] /\ p \in [Instances -> Nat] /\ q \in [Instances -> Nat]
      /\ s \in [Instances -> Nat]
  BY <1>2, <1>3
<1>5. \A j \in Instances : k[j] <= s[j]
  BY <1>2
<1>6. \A j \in Instances : s[j] = p[j] + q[j]
  OBVIOUS
<1>7. Known = SumFunction(k)
  BY DEF Known
<1>8. cumulative_cost = SumFunction(p)
  BY <1>0 DEF Books, SpentOf
<1>9. spent = SumFunction(q)
  BY DEF SweepInv, Charges
<1> HIDE DEF k, p, q, s
<1>10. SumFunction(k) \in Nat /\ SumFunction(k) <= SumFunction(s)
  BY <1>0, <1>4, <1>5, FamilyNat, FamilyLess
<1>11. SumFunction(s) = SumFunction(p) + SumFunction(q)
  BY <1>0, <1>4, <1>6, FamilyPlus
<1> QED
  BY <1>7, <1>8, <1>9, <1>10, <1>11

(* The limit is shared by all tiers and invocations: without a raised      *)
(* limit a run that has no attempt yet starts only while what the records  *)
(* and the archived trajectories say was spent is below the limit.         *)
THEOREM CeilingKept == Spec => CeilingShared
<1>1. Init => BooksInv /\ SweepInv /\ OrderInv /\ CeilingInv
  BY BooksInit, OrderInit, CeilingInit
<1>2. BooksInv /\ SweepInv /\ OrderInv /\ CeilingInv /\ [Next]_vars
        => (BooksInv /\ SweepInv /\ OrderInv /\ CeilingInv)'
  BY BooksNext, SweepNext, OrderNext, CeilingNext
<1>3. BooksInv /\ SweepInv /\ OrderInv /\ CeilingInv /\ [Next]_vars =>
        [\A i \in running' \ running : raised \/ RealAt(i, tier) \/ Known < limit]_vars
  <2> SUFFICES ASSUME BooksInv, SweepInv, OrderInv, CeilingInv, [Next]_vars,
                      NEW i \in running' \ running, ~raised, ~RealAt(i, tier)
               PROVE  Known < limit
    OBVIOUS
  <2>1. TypeOK /\ Listed(records) /\ i \in Instances /\ StartRun(i) /\ Order /\ Ceiling
    BY RunStarts DEF BooksInv, Ledger, OrderInv, CeilingInv
  <2>2. at = "sweep" /\ i \in Ids /\ ~halted
    BY <2>1 DEF StartRun, Ids
  <2>3. Below
    BY <2>1, <2>2, RealIs DEF Order, Sweeping
  <2>4. spent < Remaining
    BY <2>2, <2>3 DEF SweepInv, Refusals, Below
  <2>5. Known \in Nat /\ Known <= cumulative_cost + spent
    BY <2>1, <2>2, <2>3, KnownWithin
  <2>6. spent \in Nat /\ cumulative_cost \in Nat /\ limit \in Nat /\ Remaining = limit - cumulative_cost
    BY <2>1, CostsAssumption DEF TypeOK, Remaining
  <2> QED
    BY <2>4, <2>5, <2>6
<1> QED
  BY <1>1, <1>2, <1>3, PTL DEF Spec, CeilingShared
=============================================================================
