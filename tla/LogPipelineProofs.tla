------------------------- MODULE LogPipelineProofs -------------------------
(***************************************************************************)
(* TLAPS proofs about the log pipeline: LogFetch, what the fetch stage     *)
(* reads, for any cluster and index; and LogReduce, what a model is shown  *)
(* of it, for any lines, windows, thresholds and limits.                   *)
(***************************************************************************)
EXTENDS LogFetch, LogReduce, FiniteSetTheorems, SequenceTheorems, WellFoundedInduction, TLAPS

-----------------------------------------------------------------------------
(* LogFetch: who comes first. *)

(* A set of numbers has a least one. *)
LEMMA LeastTurn ==
    ASSUME NEW S \in SUBSET Nat, S # {}
    PROVE  \E x \in S : \A y \in S : x <= y
<1> DEFINE Less == {ss \in Nat \X Nat : ss[1] < ss[2]}
<1>1. IsWellFoundedOn(Less, Nat)
  BY NatLessThanWellFounded, Zenon DEF OpToRel
<1>2. \E x \in S : \A y \in S : ~(<<y, x>> \in Less)
  <2> HIDE DEF Less
  <2> QED
    BY <1>1, WFMin
<1>3. \A x, y \in Nat : y < x => <<y, x>> \in Less
  OBVIOUS
<1> HIDE DEF Less
<1>4. PICK x \in S : \A y \in S : ~(<<y, x>> \in Less)
  BY <1>2
<1>5. \A y \in S : ~(y < x)
  BY <1>3, <1>4
<1> QED
  BY <1>5

(* Whatever distinct numbers decide who comes first, the places of a       *)
(* finite set are 1 to its size, each taken once, in their order.          *)
LEMMA RanksAre ==
    ASSUME NEW key, IsFiniteSet(DOMAIN key), \A p \in DOMAIN key : key[p] \in Nat,
           \A p, q \in DOMAIN key : key[p] = key[q] => p = q
    PROVE  LET n == Cardinality(DOMAIN key) IN
           /\ n \in Nat
           /\ \A p \in DOMAIN key : Rank(key, p) \in 1..n
           /\ \A p, q \in DOMAIN key : key[p] < key[q] => Rank(key, p) < Rank(key, q)
           /\ \A p, q \in DOMAIN key : Rank(key, p) = Rank(key, q) => p = q
           /\ \A i \in 1..n : \E p \in DOMAIN key : Rank(key, p) = i
<1> DEFINE D == DOMAIN key
           n == Cardinality(D)
           upTo(p) == {q \in D : key[q] <= key[p]}
           rank == [p \in D |-> Rank(key, p)]
<1>1. IsFiniteSet(D) /\ n \in Nat
  BY FS_CardinalityType
<1>2. ASSUME NEW p \in D
      PROVE  IsFiniteSet(upTo(p)) /\ Rank(key, p) \in 1..n /\ Rank(key, p) = Cardinality(upTo(p))
  <2>1. upTo(p) \in SUBSET D /\ upTo(p) # {} /\ Rank(key, p) = Cardinality(upTo(p))
    BY DEF Rank
  <2> HIDE DEF D, upTo
  <2>2. /\ IsFiniteSet(upTo(p)) /\ Cardinality(upTo(p)) <= n
        /\ Cardinality(upTo(p)) \in Nat /\ Cardinality(upTo(p)) # 0
    BY <2>1, <1>1, FS_Subset, FS_CardinalityType, FS_EmptySet
  <2> QED
    BY <2>1, <2>2, <1>1
<1>3. ASSUME NEW p \in D, NEW q \in D, key[p] < key[q]
      PROVE  Rank(key, p) < Rank(key, q)
  <2>1. upTo(p) \in SUBSET upTo(q) /\ q \in upTo(q) /\ q \notin upTo(p)
    BY <1>3
  <2> HIDE DEF D, upTo
  <2>2. Cardinality(upTo(p)) <= Cardinality(upTo(q)) /\ Cardinality(upTo(p)) # Cardinality(upTo(q))
    BY <2>1, <1>2, FS_Subset
  <2> QED
    BY <2>2, <1>2, <1>1
<1>4. ASSUME NEW p \in D, NEW q \in D, Rank(key, p) = Rank(key, q)
      PROVE  p = q
  <2> HIDE DEF D, n, upTo
  <2>1. Rank(key, p) \in Nat
    BY <1>2, <1>1
  <2>3. key[p] \in Nat /\ key[q] \in Nat
    BY DEF D
  <2>2. ~(key[p] < key[q]) /\ ~(key[q] < key[p])
    BY <2>1, <1>3, <1>4
  <2> QED
    BY <2>2, <2>3 DEF D
<1>5. rank \in Injection(D, 1..n)
  BY <1>2, <1>4 DEF Injection, IsInjective
<1>6. rank \in Surjection(D, 1..n)
  <2>1. IsFiniteSet(1..n) /\ Cardinality(1..n) = n
    BY <1>1, FS_Interval
  <2> HIDE DEF rank
  <2> QED
    BY <2>1, <1>5, FS_Injection
<1>7. \A i \in 1..n : \E p \in D : Rank(key, p) = i
  BY <1>6 DEF Surjection
<1> QED
  BY <1>1, <1>2, <1>3, <1>4, <1>7

(* The k first are k, or all; and whoever comes before one of them is one. *)
LEMMA FirstIs ==
    ASSUME NEW key, IsFiniteSet(DOMAIN key), \A p \in DOMAIN key : key[p] \in Nat,
           \A p, q \in DOMAIN key : key[p] = key[q] => p = q, NEW k \in Nat
    PROVE  LET n == Cardinality(DOMAIN key) IN
           /\ IsFiniteSet(First(key, k))
           /\ Cardinality(First(key, k)) = IF k < n THEN k ELSE n
           /\ n <= k => First(key, k) = DOMAIN key
           /\ \A p, q \in DOMAIN key :
                  q \in First(key, k) /\ key[p] < key[q] => p \in First(key, k)
<1> DEFINE D == DOMAIN key
           n == Cardinality(D)
           m == IF k < n THEN k ELSE n
           rank == [p \in First(key, k) |-> Rank(key, p)]
<1>1. /\ n \in Nat
      /\ \A p \in D : Rank(key, p) \in 1..n
      /\ \A p, q \in D : key[p] < key[q] => Rank(key, p) < Rank(key, q)
      /\ \A p, q \in D : Rank(key, p) = Rank(key, q) => p = q
      /\ \A i \in 1..n : \E p \in D : Rank(key, p) = i
  BY RanksAre
<1>2. First(key, k) \in SUBSET D /\ \A p \in D : p \in First(key, k) <=> Rank(key, p) <= k
  BY DEF First
<1>3. IsFiniteSet(First(key, k))
  BY <1>2, FS_Subset
<1> HIDE DEF D, n
<1>4. m \in Nat /\ rank \in [First(key, k) -> 1..m]
  BY <1>1, <1>2
<1>5. \A i \in 1..m : \E p \in First(key, k) : Rank(key, p) = i
  BY <1>1, <1>2
<1>6. rank \in Bijection(First(key, k), 1..m)
  BY <1>1, <1>2, <1>4, <1>5 DEF Bijection, Injection, IsInjective, Surjection
<1> HIDE DEF rank, m
<1>7. Cardinality(1..m) = m
  BY <1>4, FS_Interval
<1>8. Cardinality(First(key, k)) = m
  BY <1>3, <1>6, <1>7, FS_Bijection DEF ExistsBijection
<1>9. n <= k => First(key, k) = D
  BY <1>1, <1>2
<1>10. \A p, q \in D : q \in First(key, k) /\ key[p] < key[q] => p \in First(key, k)
  BY <1>1, <1>2
<1> QED
  BY <1>3, <1>8, <1>9, <1>10 DEF m, n, D

(* A turn names its round and its service. *)
LEMMA TurnsDiffer ==
    ASSUME NEW a \in Nat, NEW b \in Nat, NEW n \in Nat, NEW s \in 1..n, NEW u \in 1..n,
           a < b
    PROVE  a * n + s < b * n + u
<1>1. PICK d \in Nat : b = a + 1 + d
  <2>1. b - a - 1 \in Nat /\ b = a + 1 + (b - a - 1)
    OBVIOUS
  <2> QED
    BY <2>1
<1>2. b * n = a * n + n + d * n
  BY <1>1
<1>3. a * n \in Nat /\ b * n \in Nat /\ d * n \in Nat
  OBVIOUS
<1> HIDE <1>1
<1> QED
  BY <1>2, <1>3

-----------------------------------------------------------------------------
(* LogFetch: discovery. *)

LEMMA WorldIs ==
    ASSUME world \in World
    PROVE  /\ Len(world.match) \in Nat /\ \A s \in Services : world.match[s] \in Seq(Pod)
           /\ world.maxPods \in Nat /\ world.maxTotal \in Nat /\ world.docs \in Nat
           /\ Len(Chain) \in Nat \ {0}
           /\ \A i \in 1..Len(Chain) : Chain[i] \in {"kubernetes", "elastic"}
<1>1. world \in WorldType
  BY FetchAssumption
<1>2. world.match \in Seq(Seq(Pod))
  BY <1>1 DEF WorldType
<1>3. Len(world.match) \in Nat /\ \A s \in Services : world.match[s] \in Seq(Pod)
  BY <1>2 DEF Services
<1>4. world.chain \in Seq({"kubernetes", "elastic"}) /\ world.chain # <<>>
  BY <1>1 DEF WorldType
<1>5. /\ Len(Chain) \in Nat \ {0}
      /\ \A i \in 1..Len(Chain) : Chain[i] \in {"kubernetes", "elastic"}
  BY <1>4 DEF Chain
<1>6. world.maxPods \in Nat /\ world.maxTotal \in Nat /\ world.docs \in Nat
  BY <1>1 DEF WorldType
<1> QED
  BY <1>3, <1>5, <1>6

LEMMA ListedAtIs ==
    ASSUME world \in World, NEW s \in Services
    PROVE  /\ Eligible(s) \subseteq Pod /\ IsFiniteSet(Eligible(s))
           /\ DOMAIN ListedAt(s) = Eligible(s)
           /\ \A p \in Eligible(s) : ListedAt(s)[p] \in Nat
           /\ \A p, q \in Eligible(s) : ListedAt(s)[p] = ListedAt(s)[q] => p = q
<1> DEFINE m == world.match[s]
<1>1. m \in Seq(Pod) /\ Len(m) \in Nat /\ DOMAIN m = 1..Len(m)
  BY WorldIs
<1>2. ToSet(m) = {m[i] : i \in DOMAIN m}
  BY DEF ToSet
<1>3. Eligible(s) \subseteq ToSet(m)
  BY DEF Eligible
<1>4. ASSUME NEW p \in Eligible(s)
      PROVE  p \in Pod /\ ListedAt(s)[p] \in DOMAIN m /\ m[ListedAt(s)[p]] = p
  <2>1. PICK i \in DOMAIN m : m[i] = p
    BY <1>2, <1>3
  <2>2. ListedAt(s)[p] = CHOOSE j \in DOMAIN m : m[j] = p
    BY DEF ListedAt
  <2> HIDE DEF m
  <2> QED
    BY <1>1, <2>1, <2>2
<1>5. IsFiniteSet(Eligible(s))
  <2> DEFINE at == [p \in Eligible(s) |-> ListedAt(s)[p]]
  <2>1. IsFiniteSet(1..Len(m))
    BY <1>1, FS_Interval
  <2> HIDE DEF m
  <2>2. at \in Injection(Eligible(s), 1..Len(m))
    BY <1>1, <1>4 DEF Injection, IsInjective
  <2> HIDE DEF at
  <2> QED
    BY <2>1, <2>2, FS_Injection
<1>6. DOMAIN ListedAt(s) = Eligible(s)
  BY DEF ListedAt
<1>7. \A p \in Eligible(s) : ListedAt(s)[p] \in Nat
  <2> HIDE DEF m
  <2> QED
    BY <1>1, <1>4
<1> HIDE DEF m
<1> QED
  BY <1>4, <1>5, <1>6, <1>7

(* A service's pods, newest first, up to the cap. *)
LEMMA PodsOfIs ==
    ASSUME world \in World, NEW s \in Services
    PROVE  LET n == Cardinality(Eligible(s))
               m == Cardinality(PodsOf(s)) IN
           /\ PodsOf(s) \subseteq Eligible(s) /\ IsFiniteSet(PodsOf(s)) /\ m \in Nat
           /\ ~OverCap(s) => PodsOf(s) = Eligible(s)
           /\ \A p \in PodsOf(s) : Rank(ListedAt(s), p) \in 1..m
           /\ \A p, q \in PodsOf(s) : Rank(ListedAt(s), p) = Rank(ListedAt(s), q) => p = q
           /\ \A i \in 1..m : \E p \in PodsOf(s) : Rank(ListedAt(s), p) = i
<1> DEFINE key == ListedAt(s)
           n == Cardinality(Eligible(s))
           m == Cardinality(PodsOf(s))
<1>1. /\ IsFiniteSet(DOMAIN key) /\ DOMAIN key = Eligible(s)
      /\ \A p \in DOMAIN key : key[p] \in Nat
      /\ \A p, q \in DOMAIN key : key[p] = key[q] => p = q
      /\ world.maxPods \in Nat
  BY ListedAtIs, WorldIs
<1> HIDE DEF key
<1>2. /\ n \in Nat
      /\ \A p \in Eligible(s) : Rank(key, p) \in 1..n
      /\ \A p, q \in Eligible(s) : Rank(key, p) = Rank(key, q) => p = q
      /\ \A i \in 1..n : \E p \in Eligible(s) : Rank(key, p) = i
  BY <1>1, RanksAre
<1>3. PodsOf(s) = First(key, world.maxPods)
  BY DEF PodsOf, key
<1>4. /\ IsFiniteSet(PodsOf(s)) /\ m = (IF world.maxPods < n THEN world.maxPods ELSE n)
      /\ n <= world.maxPods => PodsOf(s) = Eligible(s)
  BY <1>1, <1>3, FirstIs
<1>5. PodsOf(s) = {p \in Eligible(s) : Rank(key, p) <= world.maxPods}
  BY <1>1, <1>3 DEF First
<1>6. ~OverCap(s) => n <= world.maxPods
  BY <1>1, <1>2 DEF OverCap
<1> HIDE DEF n, m
<1>7. m \in Nat /\ \A p \in PodsOf(s) : Rank(key, p) \in 1..m
  BY <1>1, <1>2, <1>4, <1>5
<1>8. \A i \in 1..m : \E p \in PodsOf(s) : Rank(key, p) = i
  BY <1>1, <1>2, <1>4, <1>5
<1> QED
  BY <1>2, <1>4, <1>5, <1>6, <1>7, <1>8 DEF key, n, m

(* The first turns of the pods found are distinct numbers. *)
LEMMA FirstTurnIs ==
    ASSUME world \in World, NEW up \in SUBSET Services
    PROVE  LET turn == FirstTurn(up) IN
           /\ Found(up) \subseteq Pod /\ IsFiniteSet(Found(up)) /\ DOMAIN turn = Found(up)
           /\ \A p \in Found(up) : turn[p] \in Nat
           /\ \A p, q \in Found(up) : turn[p] = turn[q] => p = q
           /\ \A p \in Found(up) : \E s \in up : p \in PodsOf(s) /\ turn[p] = Turn(s, p)
           /\ \A p \in Found(up), s \in up : p \in PodsOf(s) => turn[p] <= Turn(s, p)
<1> DEFINE n == Len(world.match)
           turn == FirstTurn(up)
           of(p) == {Turn(s, p) : s \in {u \in up : p \in PodsOf(u)}}
<1>1. n \in Nat /\ up \subseteq 1..n /\ up \subseteq Services
  BY WorldIs DEF Services
<1>2. ASSUME NEW s \in up, NEW p \in PodsOf(s)
      PROVE  /\ Rank(ListedAt(s), p) \in Nat /\ Turn(s, p) \in Nat
             /\ Turn(s, p) = Rank(ListedAt(s), p) * n + s
  <2>1. Rank(ListedAt(s), p) \in 1..Cardinality(PodsOf(s)) /\ Cardinality(PodsOf(s)) \in Nat
    BY <1>1, PodsOfIs
  <2>2. Turn(s, p) = Rank(ListedAt(s), p) * n + s
    BY DEF Turn
  <2> HIDE DEF n
  <2>3. Rank(ListedAt(s), p) \in Nat /\ s \in Nat
    BY <1>1, <2>1
  <2> QED
    BY <1>1, <2>2, <2>3
<1>3. Found(up) \subseteq Pod /\ IsFiniteSet(Found(up))
  <2>1. \A s \in up : PodsOf(s) \subseteq Pod /\ IsFiniteSet(PodsOf(s))
    BY <1>1, PodsOfIs, ListedAtIs
  <2>2. IsFiniteSet(up)
    <3>1. IsFiniteSet(1..n) /\ up \in SUBSET (1..n)
      BY <1>1, FS_Interval
    <3> QED
      BY <3>1, FS_Subset
  <2> DEFINE all == {PodsOf(s) : s \in up}
  <2>3. IsFiniteSet(all)
    <3> DEFINE pods == [s \in up |-> PodsOf(s)]
    <3>1. pods \in Surjection(up, all)
      BY DEF Surjection
    <3> HIDE DEF pods, all
    <3> QED
      BY <2>2, <3>1, FS_Surjection
  <2>4. \A T \in all : IsFiniteSet(T)
    BY <2>1
  <2>5. Found(up) = UNION all
    BY DEF Found
  <2> HIDE DEF all
  <2>6. IsFiniteSet(Found(up))
    BY <2>3, <2>4, <2>5, FS_UNION
  <2> QED
    BY <2>1, <2>6 DEF Found
<1>4. DOMAIN turn = Found(up)
  BY DEF FirstTurn
<1>5. ASSUME NEW p \in Found(up)
      PROVE  /\ turn[p] \in of(p)
             /\ \A s \in up : p \in PodsOf(s) => turn[p] <= Turn(s, p)
  <2>1. of(p) \in SUBSET Nat /\ of(p) # {}
    BY <1>2 DEF Found
  <2>2. PICK k \in of(p) : \A m \in of(p) : k <= m
    <3> HIDE DEF of
    <3> QED
      BY <2>1, LeastTurn
  <2>3. turn[p] = CHOOSE m \in of(p) : \A s \in up : p \in PodsOf(s) => m <= Turn(s, p)
    BY DEF FirstTurn
  <2>4. \A s \in up : p \in PodsOf(s) => k <= Turn(s, p)
    BY <2>2
  <2> HIDE DEF of, turn
  <2> QED
    BY <2>2, <2>3, <2>4
<1> HIDE DEF turn
<1>6. \A p \in Found(up) : \E s \in up : p \in PodsOf(s) /\ turn[p] = Turn(s, p)
  BY <1>5
<1>7. \A p \in Found(up) : turn[p] \in Nat
  BY <1>6, <1>2
<1>8. ASSUME NEW p \in Found(up), NEW q \in Found(up), turn[p] = turn[q]
      PROVE  p = q
  <2>1. PICK s \in up : p \in PodsOf(s) /\ turn[p] = Turn(s, p)
    BY <1>6
  <2>2. PICK u \in up : q \in PodsOf(u) /\ turn[q] = Turn(u, q)
    BY <1>6
  <2> DEFINE a == Rank(ListedAt(s), p)
             b == Rank(ListedAt(u), q)
  <2>3. /\ a \in Nat /\ b \in Nat /\ turn[p] = a * n + s /\ turn[q] = b * n + u
    BY <1>2, <2>1, <2>2
  <2> HIDE DEF a, b, n
  <2>4. s \in 1..n /\ u \in 1..n
    BY <1>1
  <2>5. ~(a < b) /\ ~(b < a)
    <3>1. a < b => a * n + s < b * n + u
      BY <1>1, <2>3, <2>4, TurnsDiffer
    <3>2. b < a => b * n + u < a * n + s
      BY <1>1, <2>3, <2>4, TurnsDiffer
    <3>3. a * n + s = b * n + u
      BY <1>8, <2>3
    <3>4. a * n \in Nat /\ s \in Nat
      BY <1>1, <2>3, <2>4
    <3>5. a * n + s \in Nat
      BY <3>4
    <3> QED
      BY <3>1, <3>2, <3>3, <3>5
  <2>6. a = b
    BY <2>3, <2>5
  <2>7. s = u
    <3>1. a * n \in Nat
      BY <1>1, <2>3
    <3>2. a * n + s = a * n + u
      BY <1>8, <2>3, <2>6
    <3> QED
      BY <3>1, <3>2, <2>4
  <2> QED
    BY <1>1, <2>1, <2>2, <2>6, <2>7, PodsOfIs DEF a, b
<1> QED
  BY <1>3, <1>4, <1>5, <1>6, <1>7, <1>8 DEF turn

(* The pods to read: all that were found, or as many as the cap allows,    *)
(* whose turns come first.                                                 *)
LEMMA TargetsAre ==
    ASSUME world \in World, NEW up \in SUBSET Services
    PROVE  /\ Targets(up) \subseteq Found(up) /\ Found(up) \subseteq Pod
           /\ IsFiniteSet(Targets(up))
           /\ ~TotalCapped(up) => Targets(up) = Found(up)
           /\ TotalCapped(up) => Cardinality(Targets(up)) = world.maxTotal
           /\ \A p, q \in Found(up) :
                 q \in Targets(up) /\ FirstTurn(up)[p] < FirstTurn(up)[q] => p \in Targets(up)
<1> DEFINE key == FirstTurn(up)
<1>1. /\ Found(up) \subseteq Pod /\ IsFiniteSet(DOMAIN key) /\ DOMAIN key = Found(up)
      /\ \A p \in DOMAIN key : key[p] \in Nat
      /\ \A p, q \in DOMAIN key : key[p] = key[q] => p = q
      /\ world.maxTotal \in Nat
  BY FirstTurnIs, WorldIs
<1>2. Cardinality(Found(up)) \in Nat
  BY <1>1, FS_CardinalityType
<1>3. CASE TotalCapped(up)
  <2>1. Targets(up) = First(key, world.maxTotal) /\ world.maxTotal < Cardinality(Found(up))
    BY <1>1, <1>2, <1>3 DEF Targets, TotalCapped
  <2> HIDE DEF key
  <2>2. First(key, world.maxTotal) \subseteq Found(up)
    BY <1>1 DEF First
  <2>3. /\ IsFiniteSet(First(key, world.maxTotal))
        /\ Cardinality(First(key, world.maxTotal)) = world.maxTotal
        /\ \A p, q \in DOMAIN key :
              q \in First(key, world.maxTotal) /\ key[p] < key[q] => p \in First(key, world.maxTotal)
    BY <1>1, <2>1, FirstIs
  <2> QED
    BY <1>1, <1>3, <2>1, <2>2, <2>3 DEF key
<1>4. CASE ~TotalCapped(up)
  BY <1>1, <1>4 DEF Targets
<1> QED
  BY <1>3, <1>4

(* Without a gap, every pod that was found is read. *)
LEMMA NoGapNoLoss ==
    ASSUME world \in World, NEW up \in SUBSET Services, DiscoveryGaps(up) = {}
    PROVE  UNION {Eligible(s) : s \in Services} \subseteq Targets(up)
<1>1. up = Services /\ ~TotalCapped(up) /\ \A s \in up : ~OverCap(s)
  BY Zenon DEF DiscoveryGaps
<1>2. \A s \in Services : PodsOf(s) = Eligible(s)
  BY <1>1, PodsOfIs
<1> QED
  BY <1>1, <1>2, TargetsAre DEF Found

(* Every service keeps what it has, or about as much as the others: of one *)
(* that keeps c of its pods, the last has its turn in round c or later, and *)
(* the first c - 1 of the other have had theirs.                           *)
LEMMA SharesAreFair ==
    ASSUME world \in World, NEW s \in Services, NEW t \in Services,
           Cardinality(PodsOf(s) \cap Targets(Services)) < Cardinality(PodsOf(s)),
           \A u \in Services \ {t} : PodsOf(u) \cap PodsOf(t) = {}
    PROVE  Cardinality(PodsOf(t) \cap Targets(Services))
              <= Cardinality(PodsOf(s) \cap Targets(Services)) + 1
<1> DEFINE n == Len(world.match)
           keptS == PodsOf(s) \cap Targets(Services)
           keptT == PodsOf(t) \cap Targets(Services)
           c == Cardinality(keptT)
           at(u, p) == Rank(ListedAt(u), p)
           turn == FirstTurn(Services)
<1>1. n \in Nat /\ s \in 1..n /\ t \in 1..n
  BY WorldIs DEF Services
<1>2. /\ IsFiniteSet(PodsOf(s)) /\ Cardinality(PodsOf(s)) \in Nat
      /\ \A p \in PodsOf(s) : at(s, p) \in 1..Cardinality(PodsOf(s))
      /\ \A i \in 1..Cardinality(PodsOf(s)) : \E p \in PodsOf(s) : at(s, p) = i
  BY PodsOfIs
<1>3. /\ IsFiniteSet(PodsOf(t)) /\ Cardinality(PodsOf(t)) \in Nat
      /\ \A p \in PodsOf(t) : at(t, p) \in 1..Cardinality(PodsOf(t))
      /\ \A p, q \in PodsOf(t) : at(t, p) = at(t, q) => p = q
  BY PodsOfIs
<1>4. PodsOf(s) \subseteq Found(Services) /\ PodsOf(t) \subseteq Found(Services)
  BY DEF Found
<1>5. /\ \A p \in Found(Services) : turn[p] \in Nat
      /\ \A p \in Found(Services), u \in Services : p \in PodsOf(u) => turn[p] <= Turn(u, p)
      /\ \A p \in PodsOf(t) : turn[p] = Turn(t, p)
  <2>1. Services \in SUBSET Services
    OBVIOUS
  <2>2. /\ \A p \in Found(Services) : turn[p] \in Nat
        /\ \A p \in Found(Services) : \E u \in Services : p \in PodsOf(u) /\ turn[p] = Turn(u, p)
        /\ \A p \in Found(Services), u \in Services : p \in PodsOf(u) => turn[p] <= Turn(u, p)
    BY <2>1, FirstTurnIs
  <2>3. ASSUME NEW p \in PodsOf(t), NEW u \in Services, p \in PodsOf(u)
        PROVE  u = t
    BY <2>3
  <2> HIDE DEF turn
  <2> QED
    BY <2>2, <2>3, <1>4
<1>6. /\ \A u \in Services : \A p : Turn(u, p) = at(u, p) * n + u
      /\ \A p, q \in Found(Services) :
            q \in Targets(Services) /\ turn[p] < turn[q] => p \in Targets(Services)
  BY TargetsAre DEF Turn
<1> HIDE DEF turn, at, n
<1>7. IsFiniteSet(keptS) /\ IsFiniteSet(keptT) /\ Cardinality(keptS) \in Nat /\ c \in Nat
  BY <1>2, <1>3, FS_Subset, FS_CardinalityType
<1>8. keptS \subseteq PodsOf(s) /\ keptT \subseteq PodsOf(t)
  OBVIOUS
<1>9. CASE c = 0
  BY <1>7, <1>9
<1>10. CASE c # 0
  <2>1. PICK p \in keptT : c <= at(t, p)
    <3>1. SUFFICES ASSUME \A p \in keptT : ~(c <= at(t, p)) PROVE FALSE
      OBVIOUS
    <3> DEFINE placeOf == [p \in keptT |-> at(t, p)]
    <3> HIDE DEF c
    <3>2. \A p \in keptT : at(t, p) \in 1..(c - 1)
      BY <3>1, <1>3, <1>7, <1>8
    <3>3. placeOf \in Injection(keptT, 1..(c - 1))
      BY <3>2, <1>3, <1>8 DEF Injection, IsInjective
    <3>4. IsFiniteSet(1..(c - 1)) /\ Cardinality(1..(c - 1)) = c - 1
      BY <1>7, <1>10, FS_Interval
    <3> HIDE DEF placeOf, keptT
    <3>5. Cardinality(keptT) <= Cardinality(1..(c - 1))
      BY <3>3, <3>4, FS_Injection
    <3> QED
      BY <3>4, <3>5, <1>7 DEF c
  <2>2. ASSUME NEW q \in PodsOf(s), at(s, q) \in 1..(c - 1)
        PROVE  q \in keptS
    <3> HIDE DEF c
    <3>1. at(s, q) \in Nat /\ at(t, p) \in Nat /\ at(s, q) < at(t, p)
      BY <2>1, <2>2, <1>2, <1>3, <1>7, <1>8
    <3>2. at(s, q) * n + s < at(t, p) * n + t
      BY <3>1, <1>1, TurnsDiffer
    <3>3. turn[q] <= at(s, q) * n + s /\ turn[p] = at(t, p) * n + t
      BY <1>4, <1>5, <1>6, <1>8, <2>1
    <3>4. turn[q] < turn[p]
      <4>1. turn[q] \in Nat /\ turn[p] \in Nat
        BY <1>4, <1>5, <1>8, <2>1
      <4>2. at(s, q) * n + s \in Nat
        BY <3>1, <1>1
      <4> QED
        BY <3>2, <3>3, <4>1, <4>2
    <3>5. p \in Found(Services) /\ q \in Found(Services) /\ p \in Targets(Services)
      BY <1>4, <1>8, <2>1
    <3> QED
      BY <1>6, <3>4, <3>5
  <2>3. c - 1 < Cardinality(PodsOf(s))
    <3>1. SUFFICES ASSUME Cardinality(PodsOf(s)) <= c - 1 PROVE FALSE
      BY <1>2, <1>7
    <3> HIDE DEF c
    <3>2. \A q \in PodsOf(s) : at(s, q) \in 1..(c - 1)
      BY <3>1, <1>2, <1>7
    <3>3. keptS = PodsOf(s)
      BY <3>2, <2>2, <1>8
    <3> QED
      BY <3>3, <1>2
  <2> DEFINE nth == [i \in 1..(c - 1) |-> CHOOSE q \in PodsOf(s) : at(s, q) = i]
  <2> HIDE DEF c, keptS
  <2>4. \A i \in 1..(c - 1) : nth[i] \in PodsOf(s) /\ at(s, nth[i]) = i
    <3> TAKE i \in 1..(c - 1)
    <3>1. i \in 1..Cardinality(PodsOf(s))
      BY <2>3, <1>2, <1>7
    <3> QED
      BY <3>1, <1>2
  <2> HIDE DEF nth
  <2>5. nth \in Injection(1..(c - 1), keptS)
    <3>1. nth \in [1..(c - 1) -> keptS]
      BY <2>2, <2>4 DEF nth
    <3> QED
      BY <3>1, <2>4 DEF Injection, IsInjective
  <2>6. Cardinality(1..(c - 1)) <= Cardinality(keptS)
    BY <2>5, <1>7, FS_Injection
  <2>7. Cardinality(1..(c - 1)) = c - 1
    BY <1>7, <1>10, FS_Interval
  <2> QED
    BY <2>6, <2>7, <1>7 DEF keptS, c
<1> QED
  BY <1>9, <1>10

-----------------------------------------------------------------------------
(* LogFetch: the invariant, then one action after the other. *)

(* Gaps that announce pods whose lines are missing, and those a reuse      *)
(* judges again.                                                           *)
LossGaps == {"SERVICE_UNAVAILABLE", "TRUNCATED", "POD_VANISHED"}
Rejudgeable == {"LOG_ROTATION", "POD_REPLACED"}

FetchPlace == {"idle", "ask", "read", "saveRecords", "saveMeta", "page", "answered", "failed",
               "render", "done"}
ReadState == {"unread", "previous", "current", "ok", "vanished", "error"}
ReadEnd == {"unread", "ok", "vanished", "error"}
FetchedLine == (Pod \cup {"index"}) \X {"previous", "current", "document"}
                                    \X {"current", "document"}
SnapType == [records : SUBSET FetchedLine, raw : BOOLEAN, meta : BOOLEAN,
             gaps : SUBSET GapType, targets : SUBSET Pod, reads : [Pod -> ReadEnd]]

FetchTyped ==
    /\ world \in World /\ place \in FetchPlace
    /\ src \in 1..Len(Chain) /\ skipped \subseteq 1..Len(Chain) /\ looked \subseteq 1..Len(Chain)
    /\ targets \subseteq Pod /\ reads \in [Pod -> ReadState] /\ gaps \subseteq GapType
    /\ lines \subseteq FetchedLine /\ raw \subseteq lines
    /\ docs \in 0..MaxDocs /\ snapshot \in SnapType

BusyInv == IsFiniteSet(Busy) /\ Cardinality(Busy) <= Concurrency

(* A capture with its meta announces what it lacks by a gap that a reuse   *)
(* keeps; the others are those its spans are judged to again.              *)
SnapInv ==
    /\ snapshot.raw = FALSE
    /\ snapshot.records = {} => ~snapshot.meta
    /\ snapshot.meta =>
        /\ Missing(snapshot.reads) # {} => snapshot.gaps \cap LossGaps # {}
        /\ snapshot.gaps \cap Rejudgeable \subseteq SpanGapsOf(snapshot.targets, snapshot.reads)

(* While pods are read: only what an unfinished read returned is raw, and  *)
(* no gap so far means that every pod found is a target.                   *)
ReadingInv ==
    place = "read" =>
        /\ Chain[src] = "kubernetes" /\ snapshot.records = {} /\ targets # {}
        /\ gaps \subseteq LossGaps
        /\ \A p \in Pod : reads[p] # "unread" => p \in targets
        /\ \A p \in Pod : reads[p] = "vanished" => "POD_VANISHED" \in gaps
        /\ \A r \in raw : r[1] \in Pod /\ reads[r[1]] = "current"
        /\ gaps = {} => UNION {Eligible(s) : s \in Services} \subseteq targets
        /\ "SERVICE_UNAVAILABLE" \notin gaps => targets = Targets(Services)

(* While a capture is stored. *)
SavingInv ==
    place \in {"saveRecords", "saveMeta"} =>
        /\ Chain[src] = "kubernetes" /\ lines # {} /\ raw = {}
        /\ reads \in [Pod -> ReadEnd]
        /\ Missing(reads) # {} => gaps \cap LossGaps # {}
        /\ gaps \cap Rejudgeable \subseteq SpanGapsOf(targets, reads)
        /\ note => gaps \cap SpanGaps = {}
        /\ IF place = "saveRecords" THEN snapshot.records = {}
           ELSE snapshot.records = lines /\ snapshot.reads = reads /\ ~snapshot.meta

(* Paging stops at the cap. *)
PagingInv ==
    place = "page" =>
        /\ Chain[src] = "elastic" /\ docs < MaxDocs /\ docs <= world.docs
        /\ targets = {} /\ raw = {}

FailedInv == place = "failed" => Chain[src] = "kubernetes" /\ lines = {}

(* What a source answered, and then the trace to be rendered, says of      *)
(* itself what the trace will.                                             *)
AnsweredInv ==
    place \in {"answered", "render"} =>
        /\ Chain[src] = "kubernetes" /\ lines # {} =>
            /\ snapshot.meta \/ targets # {} => (Missing(reads) # {} => gaps # {})
            /\ snapshot.meta => /\ snapshot.gaps \subseteq gaps
                                /\ note => snapshot.gaps \cap SpanGaps = {}
        /\ Chain[src] = "elastic" =>
            /\ docs = IF world.docs < MaxDocs THEN world.docs ELSE MaxDocs
            /\ world.docs > MaxDocs => "TRUNCATED" \in gaps

ConfirmedInv ==
    /\ place \in {"answered", "render"} /\ lines = {} /\ gaps = {} /\ targets # {}
        => \E p \in targets : reads[p] = "ok"
    /\ place = "render" /\ lines = {} /\ gaps = {} => looked = 1..Len(Chain)

(* A trace, once rendered, is final. *)
TraceInv ==
    trace # NoTrace =>
        /\ place = "done"
        /\ UnreadAnnounced /\ AbsenceConfirmed /\ ReuseKeepsGaps /\ PagesComplete

FetchInv ==
    /\ FetchTyped /\ BusyInv /\ SnapInv /\ ReadingInv /\ SavingInv /\ PagingInv
    /\ FailedInv /\ AnsweredInv /\ ConfirmedInv /\ TraceInv

USE DEF FetchPlace, ReadState, ReadEnd

LEMMA FetchStarts == FetchInit => FetchInv
<1> SUFFICES ASSUME FetchInit PROVE FetchInv
  OBVIOUS
<1>1. world \in World /\ Len(Chain) \in Nat \ {0}
  BY WorldIs DEF FetchInit
<1>2. NoSnap \in SnapType
  BY DEF NoSnap, SnapType
<1>3. FetchTyped
  BY <1>1, <1>2, FetchAssumption DEF FetchInit, FetchTyped
<1>4. BusyInv
  <2>1. Busy = {}
    BY DEF FetchInit, Busy
  <2> QED
    BY <2>1, FS_EmptySet, FetchAssumption DEF BusyInv
<1>5. SnapInv
  BY DEF FetchInit, SnapInv, NoSnap
<1> QED
  BY <1>3, <1>4, <1>5 DEF FetchInit, FetchInv, ReadingInv, SavingInv, PagingInv, FailedInv,
     AnsweredInv, ConfirmedInv, TraceInv

(* Nothing happens to a trace that was rendered. *)
LEMMA TraceStays ==
    ASSUME TraceInv, UNCHANGED trace, place # "done" \/ trace = NoTrace
    PROVE  TraceInv'
BY DEF TraceInv, NoTrace

LEMMA SnapStays ==
    ASSUME SnapInv, UNCHANGED <<world, snapshot>>
    PROVE  SnapInv'
BY DEF SnapInv, Missing, SpanGapsOf, RotationGap, Eligible, Services

LEMMA NobodyReads ==
    ASSUME \A p \in Pod : reads'[p] \in ReadEnd
    PROVE  BusyInv'
<1>1. Busy' = {}
  BY DEF Busy
<1> QED
  BY <1>1, FS_EmptySet, FetchAssumption DEF BusyInv

(* The rest of an invariant says nothing of a fetch that is between two    *)
(* sources or over.                                                        *)
LEMMA Between ==
    ASSUME place' \in {"idle", "ask", "done"}
    PROVE  (ReadingInv /\ SavingInv /\ PagingInv /\ FailedInv /\ AnsweredInv /\ ConfirmedInv)'
BY DEF ReadingInv, SavingInv, PagingInv, FailedInv, AnsweredInv, ConfirmedInv

LEMMA BeginFetchKeeps == ASSUME FetchInv, BeginFetch PROVE FetchInv'
<1>1. FetchTyped'
  <2>1. Len(Chain) \in Nat \ {0}
    BY WorldIs DEF FetchInv, FetchTyped
  <2> QED
    BY <2>1, FetchAssumption DEF FetchInv, FetchTyped, BeginFetch, NewResult, Goes1, Chain
<1>2. BusyInv'
  BY NobodyReads DEF BeginFetch, NewResult
<1>3. SnapInv' /\ TraceInv'
  BY SnapStays, TraceStays DEF FetchInv, BeginFetch
<1> QED
  BY <1>1, <1>2, <1>3, Between DEF FetchInv, BeginFetch, Goes1

LEMMA FetchCrashKeeps == ASSUME FetchInv, FetchCrash PROVE FetchInv'
<1>1. FetchTyped'
  BY DEF FetchInv, FetchTyped, FetchCrash, Goes1, Chain
<1>2. BusyInv'
  BY DEF FetchInv, BusyInv, Busy, FetchCrash
<1>3. SnapInv' /\ TraceInv'
  BY SnapStays, TraceStays DEF FetchInv, FetchCrash, Unfinished
<1> QED
  BY <1>1, <1>2, <1>3, Between DEF FetchInv, FetchCrash, Goes1

LEMMA K8sUnavailableKeeps == ASSUME FetchInv, K8sUnavailable PROVE FetchInv'
<1>1. FetchTyped'
  BY DEF FetchInv, FetchTyped, K8sUnavailable, NewResult, Goes1, Chain
<1>2. BusyInv'
  BY NobodyReads DEF K8sUnavailable, NewResult
<1>3. SnapInv' /\ TraceInv'
  BY SnapStays, TraceStays DEF FetchInv, K8sUnavailable, Asks
<1>4. FailedInv'
  BY DEF K8sUnavailable, FailedInv, Asks, NewResult, Chain
<1> QED
  BY <1>1, <1>2, <1>3, <1>4 DEF FetchInv, K8sUnavailable, Goes1, ReadingInv, SavingInv,
     PagingInv, AnsweredInv, ConfirmedInv

LEMMA ReuseSnapshotKeeps == ASSUME FetchInv, ReuseSnapshot PROVE FetchInv'
<1>1. /\ place = "ask" /\ place' = "answered" /\ Chain[src] = "kubernetes"
      /\ UNCHANGED <<world, fetches, src, skipped, looked, docs, snapshot, trace>>
      /\ gaps' = Rejudged(snapshot) /\ lines' = snapshot.records /\ reads' = snapshot.reads
      /\ note' = (snapshot.meta /\ CoverageNote(snapshot.targets, snapshot.reads, gaps'))
      /\ raw' = (IF snapshot.raw THEN snapshot.records ELSE {})
      /\ targets' = {} /\ snapshot.records # {}
  BY DEF ReuseSnapshot, Asks, Goes1
<1>2. FetchTyped /\ SnapInv /\ TraceInv
  BY DEF FetchInv
<1>3. snapshot \in SnapType
  BY <1>2 DEF FetchTyped
<1>4. snapshot.meta => snapshot.gaps \subseteq Rejudged(snapshot)
  BY <1>2 DEF SnapInv, Rejudged, RejudgedAway, Rejudgeable
<1>5. SpanGapsOf(snapshot.targets, snapshot.reads) \subseteq GapType
  BY DEF SpanGapsOf, GapType
<1>6. Rejudged(snapshot) \subseteq GapType
  BY <1>3, <1>5 DEF Rejudged, RejudgedAway, SnapType
<1>7. /\ snapshot.reads \in [Pod -> ReadEnd] /\ snapshot.records \subseteq FetchedLine
      /\ snapshot.raw = FALSE
  BY <1>2, <1>3 DEF SnapType, SnapInv
<1>8. FetchTyped'
  BY <1>1, <1>2, <1>6, <1>7 DEF FetchTyped, Chain
<1>9. BusyInv'
  BY <1>1, <1>7, NobodyReads
<1>10. SnapInv' /\ TraceInv'
  BY <1>1, <1>2, SnapStays, TraceStays
<1>11. AnsweredInv'
  <2>1. Chain' = Chain /\ src' = src
    BY <1>1 DEF Chain
  <2>2. Missing(reads)' = Missing(snapshot.reads)
    BY <1>1 DEF Missing, Eligible, Services
  <2>3. snapshot.meta => (Missing(snapshot.reads) # {} => gaps' # {})
    <3>1. snapshot.meta => (Missing(snapshot.reads) # {} => snapshot.gaps \cap LossGaps # {})
      BY <1>2 DEF SnapInv
    <3> QED
      BY <3>1, <1>1, <1>4
  <2>4. note' => gaps' \cap SpanGaps = {}
    BY <1>1 DEF CoverageNote
  <2> QED
    BY <1>1, <1>4, <2>1, <2>2, <2>3, <2>4 DEF AnsweredInv
<1> QED
  BY <1>1, <1>8, <1>9, <1>10, <1>11 DEF FetchInv, ReadingInv, SavingInv, PagingInv, FailedInv,
     ConfirmedInv

LEMMA DiscoverKeeps == ASSUME FetchInv, Discover PROVE FetchInv'
<1>1. PICK up \in SUBSET Services \ {{}} :
        /\ targets' = Targets(up) /\ gaps' = DiscoveryGaps(up)
        /\ place' = (IF Targets(up) = {} THEN "answered" ELSE "read")
  BY DEF Discover, Goes1
<1>2. /\ place = "ask" /\ Chain[src] = "kubernetes" /\ snapshot.records = {}
      /\ UNCHANGED <<world, fetches, src, skipped, looked, docs, snapshot, trace>>
      /\ lines' = {} /\ raw' = {} /\ reads' = [p \in Pod |-> "unread"]
  BY DEF Discover, Asks, NewResult
<1>3. Chain' = Chain
  BY <1>2 DEF Chain
<1>4. FetchTyped /\ world \in World
  BY DEF FetchInv, FetchTyped
<1>5. DiscoveryGaps(up) \subseteq LossGaps /\ LossGaps \subseteq GapType
  BY DEF DiscoveryGaps, LossGaps, GapType
<1>6. Targets(up) \subseteq Pod
  BY <1>4, TargetsAre
<1>7. FetchTyped'
  BY <1>1, <1>2, <1>3, <1>4, <1>5, <1>6 DEF FetchTyped
<1>8. BusyInv'
  BY <1>2, NobodyReads
<1>9. SnapInv' /\ TraceInv'
  BY <1>2, SnapStays, TraceStays DEF FetchInv
<1>10. ReadingInv'
  <2>1. gaps' = {} => UNION {Eligible(s) : s \in Services} \subseteq targets'
    BY <1>1, <1>4, NoGapNoLoss
  <2>2. (UNION {Eligible(s) : s \in Services})' = UNION {Eligible(s) : s \in Services}
    BY <1>2 DEF Eligible, Services
  <2>3. "SERVICE_UNAVAILABLE" \notin gaps' => up = Services
    BY <1>1 DEF DiscoveryGaps
  <2>4. Targets(Services)' = Targets(Services)
    BY <1>2 DEF Targets, TotalCapped, FirstTurn, Turn, Found, PodsOf, ListedAt, Eligible, Services
  <2>5. place' = "read" => targets' # {}
    BY <1>1
  <2> QED
    BY <1>1, <1>2, <1>3, <1>5, <2>1, <2>2, <2>3, <2>4, <2>5 DEF ReadingInv
<1>11. AnsweredInv' /\ ConfirmedInv'
  BY <1>1, <1>2, <1>3 DEF AnsweredInv, ConfirmedInv
<1> QED
  BY <1>1, <1>7, <1>8, <1>9, <1>10, <1>11 DEF FetchInv, SavingInv, PagingInv, FailedInv

(* What the reads of pods do not touch. *)
LEMMA WhileReading ==
    ASSUME FetchInv, place = "read", place' = "read",
           UNCHANGED <<world, src, targets, snapshot, trace>>
    PROVE  /\ (SnapInv /\ TraceInv /\ SavingInv /\ PagingInv /\ FailedInv /\ AnsweredInv
                 /\ ConfirmedInv)'
           /\ Chain' = Chain /\ Targets(Services)' = Targets(Services)
           /\ (UNION {Eligible(s) : s \in Services})' = UNION {Eligible(s) : s \in Services}
<1>1. SnapInv' /\ TraceInv'
  BY SnapStays, TraceStays DEF FetchInv
<1>2. (SavingInv /\ PagingInv /\ FailedInv /\ AnsweredInv /\ ConfirmedInv)'
  BY DEF SavingInv, PagingInv, FailedInv, AnsweredInv, ConfirmedInv
<1>3. /\ Chain' = Chain /\ Targets(Services)' = Targets(Services)
      /\ (UNION {Eligible(s) : s \in Services})' = UNION {Eligible(s) : s \in Services}
  BY DEF Chain, Targets, TotalCapped, FirstTurn, Turn, Found, PodsOf, ListedAt, Eligible, Services
<1> QED
  BY <1>1, <1>2, <1>3

LEMMA StartReadKeeps == ASSUME FetchInv, NEW p \in Pod, StartRead(p) PROVE FetchInv'
<1>1. /\ place = "read" /\ p \in targets /\ reads[p] = "unread" /\ Cardinality(Busy) < Concurrency
      /\ UNCHANGED <<world, fetches, place, src, skipped, looked, targets, lines, raw, gaps,
                     note, docs, snapshot, trace>>
      /\ reads' = [reads EXCEPT ![p] = IF p \in world.restarted THEN "previous" ELSE "current"]
  BY DEF StartRead, IsTarget
<1>2. FetchTyped /\ BusyInv /\ ReadingInv
  BY DEF FetchInv
<1>3. reads \in [Pod -> ReadState]
  BY <1>2 DEF FetchTyped
<1>4. /\ (SnapInv /\ TraceInv /\ SavingInv /\ PagingInv /\ FailedInv /\ AnsweredInv
            /\ ConfirmedInv)'
      /\ Chain' = Chain /\ Targets(Services)' = Targets(Services)
      /\ (UNION {Eligible(s) : s \in Services})' = UNION {Eligible(s) : s \in Services}
  BY <1>1, WhileReading
<1>5. FetchTyped'
  BY <1>1, <1>2, <1>3, <1>4 DEF FetchTyped
<1>6. BusyInv'
  <2>1. Busy' = Busy \cup {p} /\ p \notin Busy
    BY <1>1, <1>3 DEF Busy
  <2>2. IsFiniteSet(Busy \cup {p}) /\ Cardinality(Busy \cup {p}) = Cardinality(Busy) + 1
    BY <1>2, <2>1, FS_AddElement DEF BusyInv
  <2>3. Cardinality(Busy) \in Nat
    BY <1>2, FS_CardinalityType DEF BusyInv
  <2> QED
    BY <1>1, <2>1, <2>2, <2>3, FetchAssumption DEF BusyInv
<1>7. ReadingInv'
  BY <1>1, <1>2, <1>3, <1>4 DEF ReadingInv
<1> QED
  BY <1>4, <1>5, <1>6, <1>7 DEF FetchInv

LEMMA ReadPreviousKeeps == ASSUME FetchInv, NEW p \in Pod, ReadPrevious(p) PROVE FetchInv'
<1>1. /\ place = "read" /\ reads[p] = "previous"
      /\ UNCHANGED <<world, fetches, place, src, skipped, looked, targets, gaps, note, docs,
                     snapshot, trace>>
      /\ reads' = [reads EXCEPT ![p] = "current"]
      /\ \/ lines' = lines \cup Holds(p, "previous") /\ raw' = raw \cup Holds(p, "previous")
         \/ UNCHANGED <<lines, raw>>
  BY DEF ReadPrevious
<1>2. FetchTyped /\ BusyInv /\ ReadingInv
  BY DEF FetchInv
<1>3. reads \in [Pod -> ReadState]
  BY <1>2 DEF FetchTyped
<1>4. /\ (SnapInv /\ TraceInv /\ SavingInv /\ PagingInv /\ FailedInv /\ AnsweredInv
            /\ ConfirmedInv)'
      /\ Chain' = Chain /\ Targets(Services)' = Targets(Services)
      /\ (UNION {Eligible(s) : s \in Services})' = UNION {Eligible(s) : s \in Services}
  BY <1>1, WhileReading
<1>5. Holds(p, "previous") \subseteq FetchedLine /\ \A r \in Holds(p, "previous") : r[1] = p
  BY DEF Holds, FetchedLine
<1>6. FetchTyped'
  BY <1>1, <1>2, <1>3, <1>4, <1>5 DEF FetchTyped
<1>7. BusyInv'
  <2>1. Busy' = Busy
    BY <1>1, <1>3 DEF Busy
  <2> QED
    BY <1>2, <2>1 DEF BusyInv
<1>8. ReadingInv'
  <2>1. \A r \in raw' : r[1] \in Pod /\ reads'[r[1]] = "current"
    BY <1>1, <1>2, <1>3, <1>5 DEF ReadingInv
  <2> QED
    BY <1>1, <1>2, <1>3, <1>4, <2>1 DEF ReadingInv
<1> QED
  BY <1>4, <1>6, <1>7, <1>8 DEF FetchInv

LEMMA ReadCurrentKeeps == ASSUME FetchInv, NEW p \in Pod, ReadCurrent(p) PROVE FetchInv'
<1>1. /\ place = "read" /\ reads[p] = "current"
      /\ UNCHANGED <<world, fetches, place, src, skipped, looked, targets, note, docs, snapshot,
                     trace>>
      /\ raw' = raw \ (RecordsOf(p) \cup Holds(p, "current"))
  BY DEF ReadCurrent
<1>2. PICK end \in {"ok", "vanished", "error"} :
        /\ reads' = [reads EXCEPT ![p] = end]
        /\ lines' \in {lines, lines \cup Holds(p, "current")}
        /\ gaps' \in {gaps, gaps \cup {"TRUNCATED"}, gaps \cup {"POD_VANISHED"}}
        /\ end = "vanished" => "POD_VANISHED" \in gaps'
  BY DEF ReadCurrent
<1>3. FetchTyped /\ BusyInv /\ ReadingInv
  BY DEF FetchInv
<1>4. reads \in [Pod -> ReadState]
  BY <1>3 DEF FetchTyped
<1>5. /\ (SnapInv /\ TraceInv /\ SavingInv /\ PagingInv /\ FailedInv /\ AnsweredInv
            /\ ConfirmedInv)'
      /\ Chain' = Chain /\ Targets(Services)' = Targets(Services)
      /\ (UNION {Eligible(s) : s \in Services})' = UNION {Eligible(s) : s \in Services}
  BY <1>1, WhileReading
<1>6. Holds(p, "current") \subseteq FetchedLine
  BY DEF Holds, FetchedLine
<1>7. gaps \subseteq gaps' /\ gaps' \subseteq gaps \cup {"TRUNCATED", "POD_VANISHED"}
      /\ ("SERVICE_UNAVAILABLE" \in gaps' => "SERVICE_UNAVAILABLE" \in gaps)
  BY <1>2
<1>8. FetchTyped'
  <2>1. gaps' \subseteq GapType
    BY <1>3, <1>7 DEF FetchTyped, GapType
  <2>2. reads' \in [Pod -> ReadState] /\ lines' \subseteq FetchedLine /\ raw' \subseteq lines'
    BY <1>1, <1>2, <1>3, <1>4, <1>6 DEF FetchTyped
  <2> QED
    BY <1>1, <1>3, <1>5, <2>1, <2>2 DEF FetchTyped
<1>9. BusyInv'
  <2>1. Busy' = Busy \ {p} /\ p \in Busy
    BY <1>1, <1>2, <1>4 DEF Busy
  <2>2. IsFiniteSet(Busy \ {p}) /\ Cardinality(Busy \ {p}) = Cardinality(Busy) - 1
    BY <1>3, <2>1, FS_RemoveElement DEF BusyInv
  <2>3. Cardinality(Busy) \in Nat
    BY <1>3, FS_CardinalityType DEF BusyInv
  <2> QED
    BY <1>3, <2>1, <2>2, <2>3, FetchAssumption DEF BusyInv
<1>10. ReadingInv'
  <2>1. raw' \subseteq raw /\ \A r \in raw' : r[1] # p
    BY <1>1, <1>3 DEF RecordsOf, FetchTyped
  <2>2. \A r \in raw' : r[1] \in Pod /\ reads'[r[1]] = "current"
    BY <1>1, <1>2, <1>3, <1>4, <2>1 DEF ReadingInv
  <2>3. p \in targets
    BY <1>1, <1>3 DEF ReadingInv
  <2>4. \A q \in Pod : reads'[q] # "unread" => q \in targets
    BY <1>1, <1>2, <1>3, <1>4, <2>3 DEF ReadingInv
  <2>5. \A q \in Pod : reads'[q] = "vanished" => "POD_VANISHED" \in gaps'
    BY <1>1, <1>2, <1>3, <1>4, <1>7 DEF ReadingInv
  <2>6. gaps' \subseteq LossGaps /\ (gaps' = {} => gaps = {})
    BY <1>1, <1>3, <1>7 DEF ReadingInv, LossGaps
  <2> QED
    BY <1>1, <1>3, <1>5, <1>7, <2>2, <2>4, <2>5, <2>6 DEF ReadingInv
<1> QED
  BY <1>5, <1>8, <1>9, <1>10 DEF FetchInv

(* The end of the reads: with no gap that announces a loss, every pod that *)
(* was found was read to the end.                                          *)
LEMMA JudgeKeeps ==
    ASSUME FetchInv, NEW cut \in {{}, {"TRUNCATED"}}, place = "read", Judge(cut),
           cut = {} => targets \subseteq Finished
    PROVE  FetchInv'
<1> DEFINE got == {r \in lines : r[1] \in Finished}
           parse == IF world.garbled /\ got # {} THEN {"LEVEL_PARSE_DEGRADED"} ELSE {}
           all == gaps \cup cut \cup SpanGapsOf(targets, reads) \cup parse
<1>1. /\ gaps' = all /\ lines' = got /\ raw' = raw \cap got
      /\ note' = CoverageNote(targets, reads, all)
      /\ reads' = [p \in Pod |-> IF p \in Finished THEN reads[p] ELSE "unread"]
      /\ place' = (IF EveryPodFailed /\ got = {} THEN "failed"
                   ELSE IF got = {} THEN "answered" ELSE "saveRecords")
      /\ UNCHANGED <<world, fetches, src, skipped, looked, targets, docs, snapshot, trace>>
  BY DEF Judge, Goes1
<1>2. FetchTyped /\ ReadingInv /\ SnapInv /\ TraceInv
  BY DEF FetchInv
<1>3. reads \in [Pod -> ReadState] /\ targets \subseteq Pod
  BY <1>2 DEF FetchTyped
<1>4. Chain' = Chain
  BY <1>1 DEF Chain
<1>5. /\ parse \subseteq {"LEVEL_PARSE_DEGRADED"}
      /\ SpanGapsOf(targets, reads) \subseteq Rejudgeable
      /\ gaps \subseteq LossGaps
  BY <1>2 DEF SpanGapsOf, Rejudgeable, ReadingInv
<1> HIDE DEF parse
<1>6. \A p \in Pod : /\ p \in Finished <=> reads[p] \in {"ok", "vanished", "error"}
                     /\ reads'[p] \in ReadEnd
                     /\ reads'[p] = "ok" <=> reads[p] = "ok"
                     /\ p \in Finished => reads'[p] = reads[p]
  BY <1>1, <1>3 DEF Finished
<1>7. raw' = {}
  <2>1. \A r \in raw : r[1] \in Pod /\ reads[r[1]] = "current"
    BY <1>2 DEF ReadingInv
  <2> QED
    BY <1>1, <1>6, <2>1
<1>8. FetchTyped'
  <2>1. all \subseteq GapType
    BY <1>5 DEF Rejudgeable, LossGaps, GapType
  <2> HIDE DEF all, got
  <2>2. reads' \in [Pod -> ReadState]
    BY <1>1, <1>6
  <2>3. got \subseteq FetchedLine
    BY <1>2 DEF got, FetchTyped
  <2> QED
    BY <1>1, <1>2, <1>4, <1>7, <2>1, <2>2, <2>3 DEF FetchTyped
<1>9. BusyInv'
  BY <1>6, NobodyReads
<1>10. SnapInv' /\ TraceInv'
  BY <1>1, <1>2, SnapStays, TraceStays
<1>11. SpanGapsOf(targets, reads)' = SpanGapsOf(targets, reads)
  <2> DEFINE wasRead(rd) == {p \in targets : rd[p] = "ok"}
  <2>1. wasRead(reads') = wasRead(reads)
    BY <1>3, <1>6
  <2>2. RotationGap(targets, reads)' = RotationGap(targets, reads)
    BY <1>1, <2>1 DEF RotationGap
  <2> QED
    BY <1>1, <2>2 DEF SpanGapsOf
<1>12. Missing(reads)' # {} => gaps' \cap LossGaps # {}
  <2> SUFFICES ASSUME gaps' \cap LossGaps = {} PROVE Missing(reads)' = {}
    OBVIOUS
  <2>1. gaps = {} /\ cut = {}
    BY <1>1, <1>5 DEF LossGaps
  <2>2. UNION {Eligible(s) : s \in Services} \subseteq targets
    BY <1>2, <2>1 DEF ReadingInv
  <2>3. \A p \in targets : reads'[p] \in {"ok", "error"}
    BY <1>2, <1>3, <1>6, <2>1 DEF ReadingInv
  <2>4. (UNION {Eligible(s) : s \in Services})' = UNION {Eligible(s) : s \in Services}
    BY <1>1 DEF Eligible, Services
  <2> QED
    BY <2>2, <2>3, <2>4 DEF Missing
<1>13. gaps' \cap Rejudgeable \subseteq SpanGapsOf(targets, reads)
  BY <1>1, <1>5 DEF LossGaps, Rejudgeable
<1>14. note' => gaps' \cap SpanGaps = {}
  BY <1>1 DEF CoverageNote
<1>15. SavingInv'
  <2> HIDE DEF all, got
  <2>1. reads' \in [Pod -> ReadEnd]
    BY <1>1, <1>6
  <2>2. place' = "saveRecords" \/ place' \in {"failed", "answered"}
    BY <1>1
  <2>3. place' = "saveRecords" => got # {}
    BY <1>1
  <2>4. Chain[src] = "kubernetes" /\ snapshot.records = {}
    BY <1>2 DEF ReadingInv
  <2> QED
    BY <1>1, <1>4, <1>7, <1>11, <1>12, <1>13, <1>14, <2>1, <2>2, <2>3, <2>4 DEF SavingInv
<1>16. FailedInv' /\ AnsweredInv'
  <2>1. Chain[src] = "kubernetes"
    BY <1>2 DEF ReadingInv
  <2>2. place' \in {"failed", "answered", "render"} => lines' = {} /\ Chain'[src'] = "kubernetes"
    BY <1>1, <1>4, <2>1
  <2> QED
    BY <2>2 DEF FailedInv, AnsweredInv
<1>17. ConfirmedInv'
  <2> SUFFICES ASSUME place' = "answered", gaps' = {} PROVE \E p \in targets' : reads'[p] = "ok"
    BY <1>1 DEF ConfirmedInv
  <2>1. cut = {} /\ targets \subseteq Finished /\ targets # {}
    BY <1>1, <1>2 DEF ReadingInv
  <2>2. Finished # {}
    BY <2>1
  <2>3. ~EveryPodFailed
    BY <1>1
  <2>4. PICK p \in Pod : reads[p] = "ok"
    BY <2>2, <2>3 DEF EveryPodFailed
  <2>5. p \in targets
    BY <1>2, <2>4 DEF ReadingInv
  <2> QED
    BY <1>1, <1>6, <2>4, <2>5
<1> QED
  BY <1>1, <1>8, <1>9, <1>10, <1>15, <1>16, <1>17 DEF FetchInv, ReadingInv, PagingInv

LEMMA SaveRecordsKeeps == ASSUME FetchInv, SaveRecords PROVE FetchInv'
<1>1. /\ place = "saveRecords"
      /\ \/ /\ snapshot' = [NoSnap EXCEPT !.records = lines, !.raw = (raw # {}), !.reads = reads]
            /\ place' = "saveMeta"
         \/ place' = "answered" /\ UNCHANGED snapshot
      /\ UNCHANGED <<world, fetches, src, skipped, looked, targets, reads, lines, raw, gaps,
                     note, docs, trace>>
  BY DEF SaveRecords, Goes1
<1>2. FetchTyped /\ BusyInv /\ SnapInv /\ SavingInv /\ TraceInv
  BY DEF FetchInv
<1>3. /\ Chain[src] = "kubernetes" /\ lines # {} /\ raw = {} /\ reads \in [Pod -> ReadEnd]
      /\ snapshot.records = {}
  BY <1>1, <1>2 DEF SavingInv
<1>4. Chain' = Chain
  BY <1>1 DEF Chain
<1>5. BusyInv' /\ TraceInv'
  BY <1>1, <1>2, TraceStays DEF BusyInv, Busy
<1>6. Missing(reads)' = Missing(reads) /\ SpanGapsOf(targets, reads)' = SpanGapsOf(targets, reads)
  BY <1>1 DEF Missing, Eligible, Services, SpanGapsOf, RotationGap
<1>7. CASE place' = "saveMeta"
  <2>1. /\ snapshot'.records = lines /\ snapshot'.raw = FALSE /\ snapshot'.reads = reads
        /\ snapshot'.meta = FALSE /\ snapshot' \in SnapType
    BY <1>1, <1>2, <1>3, <1>7 DEF NoSnap, SnapType, FetchTyped
  <2>2. FetchTyped'
    BY <1>1, <1>2, <1>4, <2>1, <1>7 DEF FetchTyped
  <2>3. SnapInv'
    BY <2>1 DEF SnapInv
  <2>4. SavingInv'
    BY <1>1, <1>2, <1>3, <1>4, <1>6, <1>7, <2>1 DEF SavingInv
  <2> QED
    BY <1>5, <1>7, <2>2, <2>3, <2>4 DEF FetchInv, ReadingInv, PagingInv, FailedInv, AnsweredInv,
       ConfirmedInv
<1>8. CASE place' = "answered"
  <2>1. UNCHANGED snapshot /\ ~snapshot.meta
    BY <1>1, <1>2, <1>3, <1>8 DEF SnapInv
  <2>2. FetchTyped' /\ SnapInv'
    BY <1>1, <1>2, <1>4, <1>8, <2>1, SnapStays DEF FetchTyped
  <2>3. Missing(reads) # {} => gaps # {}
    BY <1>1, <1>2 DEF SavingInv
  <2>4. AnsweredInv'
    BY <1>1, <1>3, <1>4, <1>6, <1>8, <2>1, <2>3 DEF AnsweredInv
  <2>5. ConfirmedInv'
    BY <1>1, <1>3, <1>8 DEF ConfirmedInv
  <2> QED
    BY <1>5, <1>8, <2>2, <2>4, <2>5 DEF FetchInv, ReadingInv, SavingInv, PagingInv, FailedInv
<1> QED
  BY <1>1, <1>7, <1>8

LEMMA SaveMetaKeeps == ASSUME FetchInv, SaveMeta PROVE FetchInv'
<1>1. /\ place = "saveMeta" /\ place' = "answered"
      /\ \/ snapshot' = [snapshot EXCEPT !.meta = TRUE, !.gaps = gaps, !.targets = targets]
         \/ UNCHANGED snapshot
      /\ UNCHANGED <<world, fetches, src, skipped, looked, targets, reads, lines, raw, gaps,
                     note, docs, trace>>
  BY DEF SaveMeta, Goes1
<1>2. FetchTyped /\ BusyInv /\ SnapInv /\ SavingInv /\ TraceInv
  BY DEF FetchInv
<1>3. /\ Chain[src] = "kubernetes" /\ lines # {} /\ reads \in [Pod -> ReadEnd]
      /\ snapshot.records = lines /\ snapshot.reads = reads /\ ~snapshot.meta
      /\ Missing(reads) # {} => gaps \cap LossGaps # {}
      /\ gaps \cap Rejudgeable \subseteq SpanGapsOf(targets, reads)
      /\ note => gaps \cap SpanGaps = {}
  BY <1>1, <1>2 DEF SavingInv
<1>4. Chain' = Chain
  BY <1>1 DEF Chain
<1>5. BusyInv' /\ TraceInv'
  BY <1>1, <1>2, TraceStays DEF BusyInv, Busy
<1>6. /\ snapshot' \in SnapType /\ snapshot'.raw = FALSE /\ snapshot'.records = lines
      /\ snapshot'.reads = reads
      /\ snapshot'.meta => snapshot'.gaps = gaps /\ snapshot'.targets = targets
  BY <1>1, <1>2, <1>3 DEF SnapType, FetchTyped, SnapInv
<1>7. FetchTyped'
  BY <1>1, <1>2, <1>4, <1>6 DEF FetchTyped
<1>8. /\ Missing(reads)' = Missing(reads)
      /\ Missing(snapshot.reads)' = Missing(reads)
      /\ snapshot'.meta => SpanGapsOf(snapshot.targets, snapshot.reads)' = SpanGapsOf(targets, reads)
  BY <1>1, <1>6 DEF Missing, Eligible, Services, SpanGapsOf, RotationGap
<1>9. SnapInv'
  BY <1>3, <1>6, <1>8 DEF SnapInv
<1>10. AnsweredInv'
  BY <1>1, <1>3, <1>4, <1>6, <1>8 DEF AnsweredInv
<1>11. ConfirmedInv'
  BY <1>1, <1>3 DEF ConfirmedInv
<1> QED
  BY <1>1, <1>5, <1>7, <1>9, <1>10, <1>11 DEF FetchInv, ReadingInv, SavingInv, PagingInv, FailedInv

LEMMA EsBeginKeeps == ASSUME FetchInv, EsBegin PROVE FetchInv'
<1>1. /\ place = "ask" /\ place' = "page" /\ Chain[src] = "elastic" /\ docs' = 0
      /\ lines' = {} /\ raw' = {} /\ gaps' = {} /\ targets' = {}
      /\ reads' = [p \in Pod |-> "unread"]
      /\ UNCHANGED <<world, fetches, src, skipped, looked, snapshot, trace>>
  BY DEF EsBegin, Asks, Goes1, NewResult
<1>2. FetchTyped /\ SnapInv /\ TraceInv /\ world \in World
  BY DEF FetchInv, FetchTyped
<1>3. Chain' = Chain
  BY <1>1 DEF Chain
<1>4. FetchTyped'
  BY <1>1, <1>2, <1>3, FetchAssumption DEF FetchTyped
<1>5. BusyInv' /\ SnapInv' /\ TraceInv'
  BY <1>1, <1>2, NobodyReads, SnapStays, TraceStays
<1>6. PagingInv'
  BY <1>1, <1>2, <1>3, WorldIs, FetchAssumption DEF PagingInv
<1> QED
  BY <1>1, <1>4, <1>5, <1>6 DEF FetchInv, ReadingInv, SavingInv, FailedInv, AnsweredInv, ConfirmedInv

(* A page is short, or the cap is reached, or there is more and room for it. *)
LEMMA EsPageKeeps == ASSUME FetchInv, EsPage PROVE FetchInv'
<1> DEFINE hits == IF world.docs - docs < PageSize THEN world.docs - docs ELSE PageSize
           capped == hits > 0 /\ docs + hits >= MaxDocs
<1>1. /\ place = "page"
      /\ docs' = (IF capped THEN MaxDocs ELSE docs + hits)
      /\ gaps' = (IF capped THEN {"TRUNCATED"} ELSE gaps)
      /\ place' = (IF capped \/ hits < PageSize THEN "answered" ELSE "page")
      /\ lines' = (IF docs' > 0 THEN {<<"index", "document", "document">>} ELSE {})
      /\ UNCHANGED <<world, fetches, src, skipped, looked, targets, reads, raw, note, snapshot,
                     trace>>
  BY DEF EsPage, Goes1
<1>2. FetchTyped /\ BusyInv /\ SnapInv /\ PagingInv /\ TraceInv /\ world \in World
  BY DEF FetchInv, FetchTyped
<1>3. Chain' = Chain
  BY <1>1 DEF Chain
<1>4. /\ Chain[src] = "elastic" /\ docs < MaxDocs /\ docs <= world.docs
      /\ targets = {} /\ raw = {}
  BY <1>1, <1>2 DEF PagingInv
<1>5. docs \in Nat /\ world.docs \in Nat /\ PageSize \in Nat \ {0} /\ MaxDocs \in Nat \ {0}
  BY <1>2, WorldIs, FetchAssumption DEF FetchTyped
<1>6. /\ docs' \in 0..MaxDocs /\ docs' <= world.docs
      /\ ~capped => docs' < MaxDocs
      /\ capped => docs' = MaxDocs
      /\ ~capped /\ hits < PageSize => docs' = world.docs
  BY <1>1, <1>4, <1>5
<1> HIDE DEF capped, hits
<1>7. FetchTyped'
  <2>1. lines' \subseteq FetchedLine /\ gaps' \subseteq GapType
    BY <1>1, <1>2 DEF FetchedLine, GapType, FetchTyped
  <2> QED
    BY <1>1, <1>2, <1>3, <1>4, <1>6, <2>1 DEF FetchTyped
<1>8. BusyInv' /\ SnapInv' /\ TraceInv'
  BY <1>1, <1>2, SnapStays, TraceStays DEF BusyInv, Busy
<1>9. PagingInv'
  BY <1>1, <1>3, <1>4, <1>6 DEF PagingInv
<1>10. AnsweredInv'
  <2> SUFFICES ASSUME place' = "answered"
               PROVE  /\ docs' = IF world.docs < MaxDocs THEN world.docs ELSE MaxDocs
                      /\ world.docs > MaxDocs => "TRUNCATED" \in gaps'
    BY <1>1, <1>3, <1>4 DEF AnsweredInv
  <2>1. CASE capped
    BY <1>1, <1>5, <1>6, <2>1
  <2>2. CASE ~capped
    <3>1. docs' = world.docs /\ docs' < MaxDocs
      BY <1>1, <1>6, <2>2
    <3> QED
      BY <3>1, <1>5
  <2> QED
    BY <2>1, <2>2
<1>11. ConfirmedInv'
  BY <1>1, <1>4 DEF ConfirmedInv
<1> QED
  BY <1>1, <1>7, <1>8, <1>9, <1>10, <1>11 DEF FetchInv, ReadingInv, SavingInv, FailedInv

LEMMA EsRaisesKeeps == ASSUME FetchInv, EsRaises PROVE FetchInv'
<1>1. /\ place \in {"page", "ask"} /\ place' \in {"done", "ask"}
      /\ \/ UNCHANGED <<src, skipped>>
         \/ src # Len(Chain) /\ src' = src + 1 /\ skipped' = skipped \cup {src}
      /\ UNCHANGED <<world, fetches, looked, targets, reads, lines, raw, gaps, note, docs,
                     snapshot, trace>>
  BY DEF EsRaises, Asks, Goes1
<1>2. FetchTyped /\ BusyInv /\ SnapInv /\ TraceInv /\ world \in World
  BY DEF FetchInv, FetchTyped
<1>3. Chain' = Chain /\ Len(Chain) \in Nat
  BY <1>1, <1>2, WorldIs DEF Chain
<1>4. FetchTyped'
  <2>1. src \in 1..Len(Chain) /\ skipped \subseteq 1..Len(Chain)
    BY <1>2 DEF FetchTyped
  <2>2. src' \in 1..Len(Chain)
    BY <1>1, <1>3, <2>1
  <2>3. skipped' \subseteq 1..Len(Chain)
    BY <1>1, <2>1
  <2> QED
    BY <1>1, <1>2, <1>3, <2>2, <2>3 DEF FetchTyped
<1>5. BusyInv' /\ SnapInv' /\ TraceInv'
  BY <1>1, <1>2, SnapStays, TraceStays DEF BusyInv, Busy
<1> QED
  BY <1>1, <1>4, <1>5, Between DEF FetchInv

LEMMA WonKeeps == ASSUME FetchInv, Won PROVE FetchInv'
<1>1. /\ place = "answered" /\ place' = "render" /\ lines # {} /\ looked' = looked \cup {src}
      /\ gaps \subseteq gaps' /\ gaps' \subseteq gaps \cup {"SOURCE_FALLBACK"}
      /\ UNCHANGED <<world, fetches, src, skipped, targets, reads, lines, raw, note, docs,
                     snapshot, trace>>
  BY DEF Won, Goes1
<1>2. FetchTyped /\ BusyInv /\ SnapInv /\ AnsweredInv /\ TraceInv
  BY DEF FetchInv
<1>3. Chain' = Chain /\ Missing(reads)' = Missing(reads)
  BY <1>1 DEF Chain, Missing, Eligible, Services
<1>4. FetchTyped'
  <2>1. gaps' \subseteq GapType
    BY <1>1, <1>2 DEF FetchTyped, GapType
  <2> QED
    BY <1>1, <1>2, <1>3, <2>1 DEF FetchTyped
<1>5. BusyInv' /\ SnapInv' /\ TraceInv'
  BY <1>1, <1>2, SnapStays, TraceStays DEF BusyInv, Busy
<1>6. AnsweredInv'
  BY <1>1, <1>2, <1>3 DEF AnsweredInv
<1>7. ConfirmedInv'
  BY <1>1 DEF ConfirmedInv
<1> QED
  BY <1>1, <1>4, <1>5, <1>6, <1>7 DEF FetchInv, ReadingInv, SavingInv, PagingInv, FailedInv

LEMMA FallsThroughKeeps == ASSUME FetchInv, FallsThrough PROVE FetchInv'
<1>1. /\ place = "failed" \/ (place = "answered" /\ lines = {})
      /\ looked' = (IF place = "answered" THEN looked \cup {src} ELSE looked)
      /\ skipped' = skipped \cup {src} /\ lines' = {} /\ raw' = {}
      /\ \/ src < Len(Chain) /\ src' = src + 1 /\ place' = "ask" /\ UNCHANGED gaps
         \/ /\ ~(src < Len(Chain)) /\ src' = src /\ place' = "render"
            /\ gaps' = (IF Reported(place = "answered") THEN gaps \cup {"SOURCE_FALLBACK"}
                        ELSE gaps)
      /\ UNCHANGED <<world, fetches, targets, reads, note, docs, snapshot, trace>>
  BY DEF FallsThrough, Goes1
<1>2. /\ FetchTyped /\ BusyInv /\ SnapInv /\ FailedInv /\ AnsweredInv /\ ConfirmedInv /\ TraceInv
      /\ world \in World
  BY DEF FetchInv, FetchTyped
<1>3. Chain' = Chain /\ Len(Chain) \in Nat \ {0} /\ src \in 1..Len(Chain)
  BY <1>1, <1>2, WorldIs DEF Chain, FetchTyped
<1>4. FetchTyped'
  <2>1. gaps' \subseteq GapType
    BY <1>1, <1>2 DEF FetchTyped, GapType
  <2>2. src' \in 1..Len(Chain) /\ skipped' \subseteq 1..Len(Chain) /\ looked' \subseteq 1..Len(Chain)
    BY <1>1, <1>2, <1>3 DEF FetchTyped
  <2> QED
    BY <1>1, <1>2, <1>3, <2>1, <2>2 DEF FetchTyped
<1>5. BusyInv' /\ SnapInv' /\ TraceInv'
  BY <1>1, <1>2, SnapStays, TraceStays DEF BusyInv, Busy
<1>6. CASE place' = "ask"
  BY <1>4, <1>5, <1>6, Between DEF FetchInv
<1>7. CASE place' = "render"
  <2>1. AnsweredInv'
    <3>1. Chain[src] = "elastic" => place = "answered" /\ gaps \subseteq gaps'
      BY <1>1, <1>2, <1>7 DEF FailedInv
    <3> QED
      BY <1>1, <1>2, <1>3, <1>7, <3>1 DEF AnsweredInv
  <2>2. ConfirmedInv'
    <3> SUFFICES ASSUME gaps' = {}
                 PROVE  /\ targets # {} => \E p \in targets : reads[p] = "ok"
                        /\ looked' = 1..Len(Chain)
      BY <1>1, <1>3, <1>7 DEF ConfirmedInv
    <3>1. ~Reported(place = "answered") /\ ~(src < Len(Chain))
      BY <1>1, <1>7, Zenon
    <3>2. place = "answered" /\ ~(Len(Chain) > 1)
      BY <3>1 DEF Reported
    <3>3. Len(Chain) = 1 /\ src = 1
      <4> DEFINE n == Len(Chain)
      <4>1. n \in Nat \ {0} /\ src \in 1..n /\ ~(n > 1)
        BY <1>3, <3>2
      <4> HIDE DEF n
      <4>2. n = 1 /\ src = 1
        BY <4>1
      <4> QED
        BY <4>2 DEF n
    <3>4. gaps = {} /\ lines = {}
      BY <1>1, <1>7, <3>1, <3>2
    <3>5. looked \subseteq {1} /\ looked' = looked \cup {1} /\ 1..Len(Chain) = {1}
      BY <1>1, <1>2, <3>2, <3>3 DEF FetchTyped
    <3>6. looked' = 1..Len(Chain)
      BY <3>5
    <3> QED
      BY <1>2, <3>2, <3>4, <3>6 DEF ConfirmedInv
  <2> QED
    BY <1>4, <1>5, <1>7, <2>1, <2>2 DEF FetchInv, ReadingInv, SavingInv, PagingInv, FailedInv
<1> QED
  BY <1>1, <1>6, <1>7

LEMMA RenderKeeps == ASSUME FetchInv, Render PROVE FetchInv'
<1>1. /\ place = "render" /\ place' = "done"
      /\ trace' = [records |-> lines, gaps |-> gaps, note |-> note, from |-> Chain[src],
                   reads |-> reads]
      /\ UNCHANGED <<world, fetches, src, skipped, looked, targets, reads, lines, raw, gaps,
                     note, docs, snapshot>>
  BY DEF Render, Goes1
<1>2. FetchTyped /\ BusyInv /\ SnapInv /\ AnsweredInv /\ ConfirmedInv
  BY DEF FetchInv
<1>3. Chain' = Chain
  BY <1>1 DEF Chain
<1>4. FetchTyped'
  BY <1>1, <1>2, <1>3 DEF FetchTyped
<1>5. BusyInv' /\ SnapInv'
  BY <1>1, <1>2, SnapStays DEF BusyInv, Busy
<1>6. /\ trace'.records = lines /\ trace'.gaps = gaps /\ trace'.note = note
      /\ trace'.from = Chain[src] /\ trace'.reads = reads
  BY <1>1
<1>7. Missing(trace.reads)' = Missing(reads)
  BY <1>1, <1>6 DEF Missing, Eligible, Services
<1>8. UnreadAnnounced' /\ ReuseKeepsGaps' /\ PagesComplete'
  BY <1>1, <1>2, <1>6, <1>7 DEF UnreadAnnounced, ReuseKeepsGaps, PagesComplete, AnsweredInv
<1>9. AbsenceConfirmed'
  BY <1>1, <1>2, <1>3, <1>6 DEF AbsenceConfirmed, ConfirmedInv
<1>10. TraceInv'
  BY <1>1, <1>8, <1>9 DEF TraceInv
<1> QED
  BY <1>1, <1>4, <1>5, <1>10, Between DEF FetchInv

LEMMA FetchStepKeeps == ASSUME FetchInv, [FetchNext]_fetchVars PROVE FetchInv'
<1>1. CASE BeginFetch
  BY <1>1, BeginFetchKeeps
<1>2. CASE FetchCrash
  BY <1>2, FetchCrashKeeps
<1>3. CASE Deadline
  BY <1>3, JudgeKeeps DEF Deadline
<1>4. CASE AllRead
  BY <1>4, JudgeKeeps DEF AllRead
<1>5. CASE ReuseSnapshot \/ Discover \/ K8sUnavailable
  BY <1>5, ReuseSnapshotKeeps, DiscoverKeeps, K8sUnavailableKeeps
<1>6. CASE SaveRecords \/ SaveMeta
  BY <1>6, SaveRecordsKeeps, SaveMetaKeeps
<1>7. CASE EsBegin \/ EsPage \/ EsRaises
  BY <1>7, EsBeginKeeps, EsPageKeeps, EsRaisesKeeps
<1>8. CASE Won \/ FallsThrough \/ Render
  BY <1>8, WonKeeps, FallsThroughKeeps, RenderKeeps
<1>9. CASE \E p \in Pod : StartRead(p) \/ ReadPrevious(p) \/ ReadCurrent(p)
  BY <1>9, StartReadKeeps, ReadPreviousKeeps, ReadCurrentKeeps
<1>10. CASE UNCHANGED fetchVars
  <2>1. FetchTyped'
    BY <1>10 DEF FetchInv, FetchTyped, fetchVars, Chain
  <2>2. BusyInv'
    BY <1>10 DEF FetchInv, BusyInv, Busy, fetchVars
  <2>3. SnapInv'
    BY <1>10, SnapStays DEF FetchInv, fetchVars
  <2>4. ReadingInv'
    <3> SUFFICES ASSUME place' = "read" PROVE ReadingInv'
      BY DEF ReadingInv
    <3>1. place = "read" /\ ReadingInv
      BY <1>10 DEF FetchInv, fetchVars
    <3>2. /\ Chain' = Chain /\ Targets(Services)' = Targets(Services)
          /\ (UNION {Eligible(s) : s \in Services})' = UNION {Eligible(s) : s \in Services}
      BY <1>10, <3>1, WhileReading DEF fetchVars
    <3> QED
      BY <1>10, <3>1, <3>2 DEF ReadingInv, fetchVars
  <2>5. (SavingInv /\ PagingInv /\ FailedInv /\ AnsweredInv /\ ConfirmedInv)'
    BY <1>10 DEF FetchInv, SavingInv, PagingInv, FailedInv, AnsweredInv, ConfirmedInv, fetchVars,
       Chain, Missing, SpanGapsOf, RotationGap, Eligible, Services
  <2>6. TraceInv'
    BY <1>10 DEF FetchInv, TraceInv, NoTrace, UnreadAnnounced, AbsenceConfirmed, ReuseKeepsGaps,
       PagesComplete, fetchVars, Chain, Missing, Eligible, Services
  <2> QED
    BY <2>1, <2>2, <2>3, <2>4, <2>5, <2>6 DEF FetchInv
<1> QED
  BY <1>1, <1>2, <1>3, <1>4, <1>5, <1>6, <1>7, <1>8, <1>9, <1>10 DEF FetchNext, FetchStep

LEMMA FetchInvImplies == FetchInv => TraceIsHonest
<1> SUFFICES ASSUME FetchInv PROVE TraceIsHonest
  OBVIOUS
<1>1. FetchTyped /\ BusyInv /\ SnapInv /\ ReadingInv /\ TraceInv /\ world \in World
  BY DEF FetchInv, FetchTyped
<1>2. FetchTypeOK
  BY <1>1 DEF FetchTypeOK, FetchTyped, BusyInv, Busy
<1>3. UnreadAnnounced /\ AbsenceConfirmed /\ ReuseKeepsGaps /\ PagesComplete
  <2>1. CASE trace # NoTrace
    BY <1>1, <2>1 DEF TraceInv
  <2>2. CASE trace = NoTrace
    BY <2>2 DEF NoTrace, UnreadAnnounced, AbsenceConfirmed, ReuseKeepsGaps, PagesComplete
  <2> QED
    BY <2>1, <2>2
<1>4. StoredIsRedacted
  BY <1>1 DEF SnapInv, StoredIsRedacted
<1>5. FairDiscovery
  <2> SUFFICES ASSUME place = "read", "SERVICE_UNAVAILABLE" \notin gaps
               PROVE  /\ targets # Found(Services) => Cardinality(targets) = world.maxTotal
                      /\ \A s, t \in Services :
                          /\ Cardinality(PodsOf(s) \cap targets) < Cardinality(PodsOf(s))
                          /\ \A u \in Services \ {t} : PodsOf(u) \cap PodsOf(t) = {}
                          => Cardinality(PodsOf(t) \cap targets)
                                <= Cardinality(PodsOf(s) \cap targets) + 1
    BY DEF FairDiscovery
  <2>1. targets = Targets(Services) /\ Services \in SUBSET Services
    BY <1>1 DEF ReadingInv
  <2> QED
    BY <1>1, <2>1, TargetsAre, SharesAreFair
<1> QED
  BY <1>2, <1>3, <1>4, <1>5 DEF TraceIsHonest

(* Whatever the cluster and the index hold, and whichever listing, read,   *)
(* page or write fails, hangs or is cut off by a crash: a trace announces  *)
(* the pods it lacks, keeps the gaps of the capture it was rebuilt from,   *)
(* tells "not looked" from "nothing there", holds every document up to the *)
(* cap, and what is stored is redacted; a cap on pods is shared evenly.    *)
THEOREM TracesAreHonest == FetchSpec => []TraceIsHonest
<1>1. FetchInit => FetchInv
  BY FetchStarts
<1>2. FetchInv /\ [FetchNext]_fetchVars => FetchInv'
  BY FetchStepKeeps
<1>3. FetchInv => TraceIsHonest
  BY FetchInvImplies
<1> QED
  BY <1>1, <1>2, <1>3, PTL DEF FetchSpec


-----------------------------------------------------------------------------
(* LogReduce: lists of entries. *)

(* A function on 1 to n is a list of its values. *)
LEMMA ListIs ==
    ASSUME NEW n \in Nat, NEW s, DOMAIN s = 1..n, s = [k \in 1..n |-> s[k]]
    PROVE  s \in Seq(ToSet(s)) /\ Len(s) = n
<1>1. s \in [1..n -> ToSet(s)]
  BY DEF ToSet
<1> QED
  BY <1>1

(* A list shows what its parts show. *)
LEMMA ConcatIs ==
    ASSUME NEW S, NEW T, NEW s \in Seq(S), NEW t \in Seq(T)
    PROVE  /\ s \o t \in Seq(S \cup T)
           /\ Len(s \o t) = Len(s) + Len(t)
           /\ \A k \in 1..Len(s) : (s \o t)[k] = s[k]
           /\ \A k \in 1..Len(t) : (s \o t)[Len(s) + k] = t[k]
           /\ ToSet(s \o t) = ToSet(s) \cup ToSet(t)
<1>1. s \in Seq(S \cup T) /\ t \in Seq(S \cup T)
  BY SeqMonotonic
<1>2. /\ s \o t \in Seq(S \cup T) /\ Len(s \o t) = Len(s) + Len(t)
      /\ \A i \in 1..(Len(s) + Len(t)) :
            (s \o t)[i] = IF i <= Len(s) THEN s[i] ELSE t[i - Len(s)]
  BY <1>1, ConcatProperties
<1>3. /\ \A k \in 1..Len(s) : (s \o t)[k] = s[k]
      /\ \A k \in 1..Len(t) : (s \o t)[Len(s) + k] = t[k]
  BY <1>1, <1>2
<1>4. /\ DOMAIN s = 1..Len(s) /\ DOMAIN t = 1..Len(t) /\ Len(s) \in Nat /\ Len(t) \in Nat
      /\ DOMAIN (s \o t) = 1..(Len(s) + Len(t))
  BY <1>1, <1>2, LenProperties
<1>5. ASSUME NEW k \in 1..(Len(s) + Len(t))
      PROVE  (s \o t)[k] \in ToSet(s) \cup ToSet(t)
  <2>1. CASE k <= Len(s)
    BY <2>1, <1>3, <1>4 DEF ToSet
  <2>2. CASE ~(k <= Len(s))
    <3>1. k - Len(s) \in 1..Len(t) /\ (s \o t)[k] = t[k - Len(s)]
      BY <2>2, <1>2, <1>4
    <3> QED
      BY <3>1, <1>4 DEF ToSet
  <2> QED
    BY <2>1, <2>2
<1>6. \A k \in 1..Len(s) : k \in 1..(Len(s) + Len(t))
  BY <1>4
<1>7. \A k \in 1..Len(t) : Len(s) + k \in 1..(Len(s) + Len(t))
  BY <1>4
<1>8. ToSet(s) \subseteq ToSet(s \o t)
  BY <1>3, <1>4, <1>6 DEF ToSet
<1>9. ToSet(t) \subseteq ToSet(s \o t)
  BY <1>3, <1>4, <1>7 DEF ToSet
<1>10. ToSet(s \o t) \subseteq ToSet(s) \cup ToSet(t)
  BY <1>4, <1>5 DEF ToSet
<1> QED
  BY <1>2, <1>3, <1>8, <1>9, <1>10

(* A part of a list is entries of it, from its first place on. *)
LEMMA PartIs ==
    ASSUME NEW S, NEW s \in Seq(S), NEW a \in Int, NEW b \in Int, 1 <= a, b <= Len(s),
           a <= b + 1
    PROVE  /\ SubSeq(s, a, b) \in Seq(S) /\ Len(SubSeq(s, a, b)) = b - a + 1
           /\ \A k \in 1..(b - a + 1) : SubSeq(s, a, b)[k] = s[a + k - 1]
           /\ ToSet(SubSeq(s, a, b)) = {s[k] : k \in a..b}
<1>1. \A k \in a..b : k \in 1..Len(s) /\ s[k] \in S
  BY ElementOfSeq
<1>2. /\ SubSeq(s, a, b) \in Seq(S) /\ Len(SubSeq(s, a, b)) = b - a + 1
      /\ \A k \in 1..(b - a + 1) : SubSeq(s, a, b)[k] = s[a + k - 1]
  BY <1>1, SubSeqProperties
<1>3. DOMAIN SubSeq(s, a, b) = 1..(b - a + 1)
  BY <1>2, LenProperties
<1>4. \A k \in 1..(b - a + 1) : a + k - 1 \in a..b
  OBVIOUS
<1>5. \A k \in a..b : k - a + 1 \in 1..(b - a + 1) /\ a + (k - a + 1) - 1 = k
  OBVIOUS
<1>6. ToSet(SubSeq(s, a, b)) \subseteq {s[k] : k \in a..b}
  BY <1>2, <1>3, <1>4 DEF ToSet
<1>7. ASSUME NEW k \in a..b PROVE s[k] \in ToSet(SubSeq(s, a, b))
  <2>1. k - a + 1 \in 1..(b - a + 1) /\ SubSeq(s, a, b)[k - a + 1] = s[a + (k - a + 1) - 1]
    BY <1>2, <1>5
  <2>2. SubSeq(s, a, b)[k - a + 1] = s[k]
    BY <2>1, <1>5
  <2> QED
    BY <2>1, <2>2, <1>3 DEF ToSet
<1>8. {s[k] : k \in a..b} \subseteq ToSet(SubSeq(s, a, b))
  BY <1>7
<1> QED
  BY <1>2, <1>6, <1>8

(* The last n of a list are the last n, or all. *)
LEMMA LastOfIs ==
    ASSUME NEW S, NEW s \in Seq(S), NEW n \in Nat
    PROVE  LET m == IF Len(s) > n THEN n ELSE Len(s) IN
           /\ LastOf(s, n) \in Seq(S) /\ Len(LastOf(s, n)) = m
           /\ \A k \in 1..m : LastOf(s, n)[k] = s[Len(s) - m + k]
           /\ ToSet(LastOf(s, n)) = {s[k] : k \in (Len(s) - m + 1)..Len(s)}
<1> DEFINE m == IF Len(s) > n THEN n ELSE Len(s)
           a == Len(s) - m + 1
<1>0. Len(s) \in Nat
  BY LenProperties
<1>1. m \in Nat /\ m <= Len(s) /\ a \in Int /\ 1 <= a /\ a <= Len(s) + 1
  <2>1. CASE Len(s) > n
    BY <2>1, <1>0
  <2>2. CASE ~(Len(s) > n)
    BY <2>2, <1>0
  <2> QED
    BY <2>1, <2>2
<1>2. LastOf(s, n) = SubSeq(s, a, Len(s))
  <2>1. a = IF Len(s) > n THEN Len(s) - n + 1 ELSE 1
    BY <1>0
  <2> QED
    BY <2>1, Zenon DEF LastOf
<1>3. Len(s) - a + 1 = m /\ \A k \in 1..m : a + k - 1 = Len(s) - m + k
  BY <1>0, <1>1
<1> HIDE DEF m, a
<1>4. /\ SubSeq(s, a, Len(s)) \in Seq(S) /\ Len(SubSeq(s, a, Len(s))) = Len(s) - a + 1
      /\ \A k \in 1..(Len(s) - a + 1) : SubSeq(s, a, Len(s))[k] = s[a + k - 1]
      /\ ToSet(SubSeq(s, a, Len(s))) = {s[k] : k \in a..Len(s)}
  BY <1>1, PartIs
<1> QED
  BY <1>2, <1>3, <1>4 DEF m, a

(* The places of a set of numbers are its members, each once, in order. *)
LEMMA PlacesAre ==
    ASSUME NEW ks \in SUBSET Nat, IsFiniteSet(ks)
    PROVE  LET n == Cardinality(ks) IN
           /\ n \in Nat
           /\ \A i \in 1..n : Place(ks, i) \in ks
           /\ \A i, j \in 1..n : i < j => Place(ks, i) < Place(ks, j)
           /\ \A k \in ks : \E i \in 1..n : Place(ks, i) = k
<1> DEFINE key == [k \in ks |-> k]
           n == Cardinality(ks)
           upTo(k) == Cardinality({j \in ks : j <= k})
<1>1. /\ n \in Nat
      /\ \A k \in ks : Rank(key, k) \in 1..n
      /\ \A k, l \in ks : k < l => Rank(key, k) < Rank(key, l)
      /\ \A k, l \in ks : Rank(key, k) = Rank(key, l) => k = l
      /\ \A i \in 1..n : \E k \in ks : Rank(key, k) = i
  <2>1. DOMAIN key = ks /\ \A k \in ks : key[k] = k
    OBVIOUS
  <2> HIDE DEF key
  <2>2. \A p, q \in DOMAIN key : key[p] = key[q] => p = q
    BY <2>1
  <2>3. IsFiniteSet(DOMAIN key) /\ \A p \in DOMAIN key : key[p] \in Nat
    BY <2>1
  <2>4. /\ Cardinality(DOMAIN key) \in Nat
        /\ \A p \in DOMAIN key : Rank(key, p) \in 1..Cardinality(DOMAIN key)
        /\ \A p, q \in DOMAIN key : key[p] < key[q] => Rank(key, p) < Rank(key, q)
        /\ \A p, q \in DOMAIN key : Rank(key, p) = Rank(key, q) => p = q
        /\ \A i \in 1..Cardinality(DOMAIN key) : \E p \in DOMAIN key : Rank(key, p) = i
    BY <2>2, <2>3, RanksAre
  <2> HIDE DEF key
  <2>5. /\ n \in Nat
        /\ \A k \in ks : Rank(key, k) \in 1..n
        /\ \A k, l \in ks : key[k] < key[l] => Rank(key, k) < Rank(key, l)
        /\ \A k, l \in ks : Rank(key, k) = Rank(key, l) => k = l
        /\ \A i \in 1..n : \E k \in ks : Rank(key, k) = i
    BY <2>1, <2>4
  <2> QED
    BY <2>1, <2>5
<1>2. ASSUME NEW k \in ks PROVE Rank(key, k) = upTo(k)
  <2>1. {q \in DOMAIN key : key[q] <= key[k]} = {j \in ks : j <= k}
    OBVIOUS
  <2> QED
    BY <2>1 DEF Rank
<1> HIDE DEF key
<1>3. ASSUME NEW i \in 1..n PROVE Place(ks, i) \in ks /\ upTo(Place(ks, i)) = i
  <2>1. \E k \in ks : upTo(k) = i
    BY <1>1, <1>2
  <2> QED
    BY <2>1 DEF Place
<1>4. ASSUME NEW k \in ks PROVE upTo(k) \in 1..n /\ Place(ks, upTo(k)) = k
  <2>1. upTo(k) \in 1..n
    BY <1>1, <1>2
  <2>2. Place(ks, upTo(k)) \in ks /\ upTo(Place(ks, upTo(k))) = upTo(k)
    BY <2>1, <1>3
  <2> HIDE DEF upTo
  <2> QED
    BY <2>1, <2>2, <1>1, <1>2
<1>5. ASSUME NEW i \in 1..n, NEW j \in 1..n, i < j
      PROVE  Place(ks, i) < Place(ks, j)
  <2>1. /\ Place(ks, i) \in ks /\ upTo(Place(ks, i)) = i
        /\ Place(ks, j) \in ks /\ upTo(Place(ks, j)) = j
    BY <1>3
  <2>3. \A k, l \in ks : k < l => upTo(k) < upTo(l)
    BY <1>1, <1>2
  <2> HIDE DEF upTo
  <2>2. ~(Place(ks, j) < Place(ks, i))
    <3>1. SUFFICES ASSUME Place(ks, j) < Place(ks, i) PROVE FALSE
      OBVIOUS
    <3>2. upTo(Place(ks, j)) < upTo(Place(ks, i))
      BY <2>1, <2>3, <3>1
    <3> QED
      BY <2>1, <3>2, <1>1, <1>5
  <2>4. Place(ks, i) # Place(ks, j)
    BY <2>1, <1>5
  <2>5. Place(ks, i) \in Nat /\ Place(ks, j) \in Nat
    BY <2>1
  <2> QED
    BY <2>2, <2>4, <2>5
<1> HIDE DEF upTo
<1> QED
  BY <1>1, <1>3, <1>4, <1>5

(* The entries at some places are those, in their order. *)
LEMMA OnlyIs ==
    ASSUME NEW S, NEW s \in Seq(S), NEW ks \in SUBSET (1..Len(s))
    PROVE  LET n == Cardinality(ks) IN
           /\ n \in 0..Len(s) /\ Only(s, ks) \in Seq(S) /\ Len(Only(s, ks)) = n
           /\ ToSet(Only(s, ks)) = {s[k] : k \in ks}
           /\ \A i \in 1..n : Place(ks, i) \in ks /\ Only(s, ks)[i] = s[Place(ks, i)]
           /\ \A i, j \in 1..n : i < j => Place(ks, i) < Place(ks, j)
<1> DEFINE n == Cardinality(ks)
<1>1. Len(s) \in Nat /\ DOMAIN s = 1..Len(s) /\ \A k \in 1..Len(s) : s[k] \in S
  BY LenProperties, ElementOfSeq
<1>2. IsFiniteSet(ks) /\ n \in 0..Len(s)
  <2>1. IsFiniteSet(1..Len(s)) /\ Cardinality(1..Len(s)) = Len(s)
    BY <1>1, FS_Interval
  <2>2. IsFiniteSet(ks) /\ Cardinality(ks) <= Len(s)
    BY <2>1, FS_Subset
  <2> QED
    BY <2>2, <1>1, FS_CardinalityType
<1>3. /\ \A i \in 1..n : Place(ks, i) \in ks
      /\ \A i, j \in 1..n : i < j => Place(ks, i) < Place(ks, j)
      /\ \A k \in ks : \E i \in 1..n : Place(ks, i) = k
  <2>1. ks \in SUBSET Nat
    OBVIOUS
  <2> QED
    BY <2>1, <1>2, PlacesAre
<1>4. Only(s, ks) = [i \in 1..n |-> s[Place(ks, i)]]
  BY DEF Only
<1> HIDE DEF n
<1>5. /\ DOMAIN Only(s, ks) = 1..n
      /\ \A i \in 1..n : Only(s, ks)[i] = s[Place(ks, i)] /\ s[Place(ks, i)] \in S
  BY <1>1, <1>3, <1>4
<1>6. Only(s, ks) \in Seq(S) /\ Len(Only(s, ks)) = n
  <2>1. Only(s, ks) \in [1..n -> S]
    BY <1>4, <1>5
  <2> QED
    BY <2>1, <1>2
<1>7. ToSet(Only(s, ks)) \subseteq {s[k] : k \in ks}
  BY <1>3, <1>5 DEF ToSet
<1>8. ASSUME NEW k \in ks PROVE s[k] \in ToSet(Only(s, ks))
  <2>1. PICK i \in 1..n : Place(ks, i) = k
    BY <1>3
  <2> QED
    BY <2>1, <1>5 DEF ToSet
<1>9. ToSet(Only(s, ks)) = {s[k] : k \in ks}
  BY <1>7, <1>8
<1> QED
  BY <1>2, <1>3, <1>5, <1>6, <1>9 DEF n

(* A list of numbers that grow *)
Grows(s) == \A m, n \in DOMAIN s : m < n => s[m] < s[n]

LEMMA OnlyGrows ==
    ASSUME NEW s \in Seq(Nat), Grows(s), NEW ks \in SUBSET (1..Len(s))
    PROVE  Grows(Only(s, ks))
<1> DEFINE n == Cardinality(ks)
<1>1. /\ Len(Only(s, ks)) = n /\ Only(s, ks) \in Seq(Nat)
      /\ \A i \in 1..n : Place(ks, i) \in ks /\ Only(s, ks)[i] = s[Place(ks, i)]
      /\ \A i, j \in 1..n : i < j => Place(ks, i) < Place(ks, j)
  BY OnlyIs
<1>2. DOMAIN Only(s, ks) = 1..n /\ DOMAIN s = 1..Len(s)
  BY <1>1, LenProperties
<1> HIDE DEF n
<1> SUFFICES ASSUME NEW i \in 1..n, NEW j \in 1..n, i < j
             PROVE  Only(s, ks)[i] < Only(s, ks)[j]
  BY <1>2 DEF Grows
<1>3. Place(ks, i) < Place(ks, j) /\ Place(ks, i) \in DOMAIN s /\ Place(ks, j) \in DOMAIN s
  BY <1>1, <1>2
<1> QED
  BY <1>1, <1>3 DEF Grows

(* A list that grows shows each of its entries once. *)
LEMMA GrowsOnce ==
    ASSUME NEW s \in Seq(Nat), Grows(s)
    PROVE  /\ \A m, n \in 1..Len(s) : s[m] = s[n] => m = n
           /\ IsFiniteSet(ToSet(s)) /\ Cardinality(ToSet(s)) = Len(s) /\ Len(s) \in Nat
<1>1. DOMAIN s = 1..Len(s) /\ Len(s) \in Nat /\ \A k \in 1..Len(s) : s[k] \in Nat
  BY LenProperties, ElementOfSeq
<1>2. ASSUME NEW m \in 1..Len(s), NEW n \in 1..Len(s), s[m] = s[n]
      PROVE  m = n
  <2>1. ~(m < n) /\ ~(n < m)
    BY <1>1, <1>2 DEF Grows
  <2> QED
    BY <2>1, <1>1
<1>3. s \in Bijection(1..Len(s), ToSet(s))
  <2>1. s \in [1..Len(s) -> ToSet(s)] /\ \A e \in ToSet(s) : \E k \in 1..Len(s) : s[k] = e
    BY <1>1 DEF ToSet
  <2> QED
    BY <2>1, <1>2 DEF Bijection, Injection, IsInjective, Surjection
<1>4. IsFiniteSet(1..Len(s)) /\ Cardinality(1..Len(s)) = Len(s)
  BY <1>1, FS_Interval
<1>5. IsFiniteSet(ToSet(s)) /\ Cardinality(ToSet(s)) = Len(s)
  BY <1>3, <1>4, FS_Bijection DEF ExistsBijection
<1> QED
  BY <1>1, <1>2, <1>5

(* As many as there are of some numbers *)
LEMMA ShortList ==
    ASSUME NEW N \in Nat, NEW s \in Seq(1..N), Grows(s)
    PROVE  Len(s) <= N
<1>1. s \in Seq(Nat)
  <2>1. 1..N \subseteq Nat
    OBVIOUS
  <2> QED
    BY <2>1, SeqMonotonic
<1>2. Cardinality(ToSet(s)) = Len(s)
  BY <1>1, GrowsOnce
<1>3. ToSet(s) \in SUBSET (1..N)
  BY LenProperties, ElementOfSeq DEF ToSet
<1>4. IsFiniteSet(1..N) /\ Cardinality(1..N) = N
  BY FS_Interval
<1>5. Cardinality(ToSet(s)) <= N
  BY <1>3, <1>4, FS_Subset
<1> QED
  BY <1>2, <1>5

LEMMA PartGrows ==
    ASSUME NEW s \in Seq(Nat), Grows(s), NEW a \in Int, NEW b \in Int, 1 <= a, b <= Len(s),
           a <= b + 1
    PROVE  Grows(SubSeq(s, a, b))
<1>1. /\ SubSeq(s, a, b) \in Seq(Nat) /\ Len(SubSeq(s, a, b)) = b - a + 1
      /\ \A k \in 1..(b - a + 1) : SubSeq(s, a, b)[k] = s[a + k - 1]
  <2>1. SubSeq(s, a, b) \in Seq(Nat) /\ Len(SubSeq(s, a, b)) = b - a + 1
    BY PartIs
  <2>2. \A k \in 1..(b - a + 1) : SubSeq(s, a, b)[k] = s[a + k - 1]
    BY <2>1, PartIs
  <2> QED
    BY <2>1, <2>2
<1>2. DOMAIN SubSeq(s, a, b) = 1..(b - a + 1) /\ DOMAIN s = 1..Len(s) /\ Len(s) \in Nat
  BY <1>1, LenProperties
<1> SUFFICES ASSUME NEW i \in 1..(b - a + 1), NEW j \in 1..(b - a + 1), i < j
             PROVE  s[a + i - 1] < s[a + j - 1]
  BY <1>1, <1>2 DEF Grows
<1>3. a + i - 1 \in 1..Len(s) /\ a + j - 1 \in 1..Len(s) /\ a + i - 1 < a + j - 1
  BY <1>2
<1> QED
  BY <1>2, <1>3 DEF Grows

-----------------------------------------------------------------------------
(* LogReduce: the selector. *)

(* Line i is in the window of match j. *)
Covers(j, i) == input[j].hit /\ j - Before <= i /\ i <= j + After

(* The ring holds the last lines fed; what came before it was emitted or   *)
(* is out of every later window; what past matches still cover, and        *)
(* nothing else, is emitted next.                                          *)
Selecting ==
    /\ held \in Seq(Nat) /\ Len(held) <= fed
    /\ \A k \in 1..Len(held) : held[k] = fed - Len(held) + k
    /\ \A i \in ToSet(emitted) : i <= fed - Len(held) /\ \E j \in 1..fed : Covers(j, i)
    /\ \A i, j \in 1..fed : Covers(j, i) => i \in ToSet(emitted)
    /\ \A i \in 1..fed :
          i \in ToSet(emitted) \/ i > fed - Len(held) \/ i + Before <= fed
    /\ \A j \in 1..fed : input[j].hit => j + After <= fed + afterLeft
    /\ afterLeft > 0 => /\ held = <<>>
                        /\ \E j \in 1..fed : input[j].hit /\ j + After = fed + afterLeft

(* What the later stages start from *)
WorkSound ==
    /\ stage # "select" => ToSet(emitted) = Window /\ emitted # <<>>
    /\ stage = "floor" => work = emitted
    /\ stage \notin {"select", "floor"} =>
          /\ work # <<>> /\ ToSet(work) \subseteq ToSet(emitted)
          /\ \A i \in ToSet(emitted) : Level(i) = "ERROR" => i \in ToSet(work)
    /\ stage = "fold" => Errors # {}
    /\ stage = "cluster" => Clustered

ReduceInv ==
    /\ input \in Seq(Line) /\ Len(input) \in 1..MaxLines
    /\ ReduceTypeOK
    /\ emitted \in Seq(1..Len(input)) /\ Grows(emitted)
    /\ work \in Seq(1..Len(input)) /\ Grows(work)
    /\ body \in Seq(Entries)
    /\ stage = "select" => Selecting
    /\ WorkSound /\ NoiseTold
    /\ WindowAccounted /\ ClustersAccounted /\ DecisionsAnnounced /\ ErrorsShown

(* A list of what lies in a set *)
LEMMA Within ==
    ASSUME NEW S, NEW T, NEW s \in Seq(S), \A e \in ToSet(s) : e \in T
    PROVE  s \in Seq(T)
<1>1. s \in [1..Len(s) -> S] /\ DOMAIN s = 1..Len(s) /\ Len(s) \in Nat
  BY LenProperties
<1>2. \A k \in 1..Len(s) : s[k] \in T
  BY <1>1 DEF ToSet
<1>3. s \in [1..Len(s) -> T]
  BY <1>1, <1>2
<1> QED
  BY <1>1, <1>3

LEMMA ConcatGrows ==
    ASSUME NEW s \in Seq(Nat), Grows(s), NEW t \in Seq(Nat), Grows(t),
           \A x \in ToSet(s), y \in ToSet(t) : x < y
    PROVE  /\ s \o t \in Seq(Nat) /\ Grows(s \o t)
           /\ ToSet(s \o t) = ToSet(s) \cup ToSet(t) /\ Len(s \o t) = Len(s) + Len(t)
<1>1. /\ s \o t \in Seq(Nat) /\ Len(s \o t) = Len(s) + Len(t)
      /\ \A k \in 1..Len(s) : (s \o t)[k] = s[k]
      /\ \A k \in 1..Len(t) : (s \o t)[Len(s) + k] = t[k]
      /\ ToSet(s \o t) = ToSet(s) \cup ToSet(t)
  <2>1. Nat \cup Nat = Nat
    OBVIOUS
  <2>2. s \o t \in Seq(Nat \cup Nat)
    BY ConcatIs
  <2> QED
    BY <2>1, <2>2, ConcatIs
<1>2. /\ DOMAIN s = 1..Len(s) /\ DOMAIN t = 1..Len(t) /\ Len(s) \in Nat /\ Len(t) \in Nat
      /\ DOMAIN (s \o t) = 1..(Len(s) + Len(t))
  BY <1>1, LenProperties
<1> SUFFICES ASSUME NEW i \in 1..(Len(s) + Len(t)), NEW j \in 1..(Len(s) + Len(t)), i < j
             PROVE  (s \o t)[i] < (s \o t)[j]
  BY <1>1, <1>2 DEF Grows
<1>3. CASE j <= Len(s)
  <2>1. i \in 1..Len(s) /\ j \in 1..Len(s)
    BY <1>2, <1>3
  <2> QED
    BY <2>1, <1>1, <1>2 DEF Grows
<1>4. CASE i <= Len(s) /\ ~(j <= Len(s))
  <2>1. i \in 1..Len(s) /\ j - Len(s) \in 1..Len(t) /\ j = Len(s) + (j - Len(s))
    BY <1>2, <1>4
  <2>2. (s \o t)[i] = s[i] /\ (s \o t)[j] = t[j - Len(s)]
    BY <2>1, <1>1
  <2>3. s[i] \in ToSet(s) /\ t[j - Len(s)] \in ToSet(t)
    BY <2>1, <1>2 DEF ToSet
  <2> QED
    BY <2>2, <2>3
<1>5. CASE ~(i <= Len(s))
  <2>1. /\ i - Len(s) \in 1..Len(t) /\ i = Len(s) + (i - Len(s))
        /\ j - Len(s) \in 1..Len(t) /\ j = Len(s) + (j - Len(s))
        /\ i - Len(s) < j - Len(s)
    BY <1>2, <1>5
  <2>2. (s \o t)[i] = t[i - Len(s)] /\ (s \o t)[j] = t[j - Len(s)]
    BY <2>1, <1>1
  <2> QED
    BY <2>1, <2>2, <1>2 DEF Grows
<1> QED
  BY <1>3, <1>4, <1>5

LEMMA OneGrows ==
    ASSUME NEW i \in Nat
    PROVE  <<i>> \in Seq(Nat) /\ Grows(<<i>>) /\ ToSet(<<i>>) = {i} /\ Len(<<i>>) = 1
<1>1. DOMAIN <<i>> = 1..1 /\ <<i>>[1] = i
  OBVIOUS
<1> QED
  BY <1>1 DEF Grows, ToSet

(* What the ring shows *)
LEMMA HeldIs ==
    ASSUME fed \in Nat, Selecting
    PROVE  LET h == Len(held) IN
           /\ h \in Nat /\ held \in Seq(Nat) /\ ToSet(held) = (fed - h + 1)..fed /\ Grows(held)
<1> DEFINE h == Len(held)
<1>1. held \in Seq(Nat) /\ h \in Nat /\ h <= fed /\ DOMAIN held = 1..h
      /\ \A k \in 1..h : held[k] = fed - h + k
  BY LenProperties DEF Selecting
<1> HIDE DEF h
<1>2. \A k \in 1..h : fed - h + k \in (fed - h + 1)..fed
  BY <1>1
<1>3. \A i \in (fed - h + 1)..fed : i - fed + h \in 1..h /\ held[i - fed + h] = i
  BY <1>1
<1>4. ToSet(held) = (fed - h + 1)..fed
  <2>1. \A e \in ToSet(held) : e \in (fed - h + 1)..fed
    BY <1>1, <1>2 DEF ToSet
  <2>2. ASSUME NEW e \in (fed - h + 1)..fed PROVE e \in ToSet(held)
    BY <1>1, <1>3 DEF ToSet
  <2> QED
    BY <2>1, <2>2
<1>5. Grows(held)
  BY <1>1 DEF Grows
<1> QED
  BY <1>1, <1>4, <1>5 DEF h

(* A match: the ring and the line itself are emitted. *)
LEMMA MatchKeeps ==
    ASSUME ReduceInv, Feed, input[fed + 1].hit
    PROVE  Selecting' /\ emitted' \in Seq(1..Len(input)) /\ Grows(emitted)'
<1> DEFINE i == fed + 1
           h == Len(held)
<1>0. /\ stage = "select" /\ fed < Len(input) /\ input' = input /\ fed' = i
      /\ emitted' = (emitted \o held) \o <<i>> /\ held' = <<>> /\ afterLeft' = After
  BY DEF Feed
<1>1. /\ fed \in Nat /\ After \in Nat /\ Before \in Nat /\ Selecting /\ h <= Before /\ h <= fed
      /\ Len(input) \in Nat /\ i \in 1..Len(input)
  <2>1. /\ input \in Seq(Line) /\ fed \in 0..Len(input) /\ h <= Before /\ Selecting /\ h <= fed
    BY <1>0 DEF ReduceInv, ReduceTypeOK, Selecting
  <2>2. Before \in Nat /\ After \in Nat
    BY ReduceAssumption DEF ReduceAssumption
  <2>3. Len(input) \in Nat
    BY <2>1, LenProperties
  <2> QED
    BY <2>1, <2>2, <2>3, <1>0
<1>2. /\ h \in Nat /\ held \in Seq(Nat) /\ ToSet(held) = (fed - h + 1)..fed /\ Grows(held)
  BY <1>1, HeldIs
<1>3. /\ <<i>> \in Seq(Nat) /\ Grows(<<i>>) /\ ToSet(<<i>>) = {i}
  BY <1>1, OneGrows
<1>4. /\ emitted \in Seq(Nat) /\ Grows(emitted)
      /\ \A e \in ToSet(emitted) : e \in 1..Len(input) /\ e <= fed - h
  <2>1. emitted \in Seq(1..Len(input)) /\ Grows(emitted)
    BY DEF ReduceInv
  <2>2. emitted \in Seq(Nat)
    <3>1. 1..Len(input) \subseteq Nat
      OBVIOUS
    <3> QED
      BY <2>1, <3>1, SeqMonotonic
  <2>3. \A e \in ToSet(emitted) : e \in 1..Len(input)
    BY <2>1, LenProperties, ElementOfSeq DEF ToSet
  <2> QED
    BY <2>1, <2>2, <2>3, <1>1 DEF Selecting
<1> HIDE DEF i, h
<1>5. /\ emitted \o held \in Seq(Nat) /\ Grows(emitted \o held)
      /\ ToSet(emitted \o held) = ToSet(emitted) \cup (fed - h + 1)..fed
  <2>1. \A x \in ToSet(emitted), y \in ToSet(held) : x < y
    BY <1>1, <1>2, <1>4
  <2> QED
    BY <2>1, <1>2, <1>4, ConcatGrows
<1>6. /\ emitted' \in Seq(Nat) /\ Grows(emitted')
      /\ ToSet(emitted') = ToSet(emitted) \cup (fed - h + 1)..i
  <2>1. \A x \in ToSet(emitted \o held), y \in ToSet(<<i>>) : x < y
    <3>1. \A x \in ToSet(emitted) \cup (fed - h + 1)..fed : x < i
      BY <1>1, <1>2, <1>4 DEF i
    <3> QED
      BY <3>1, <1>3, <1>5
  <2>2. (fed - h + 1)..fed \cup {i} = (fed - h + 1)..i
    BY <1>1, <1>2 DEF i
  <2>4. /\ (emitted \o held) \o <<i>> \in Seq(Nat) /\ Grows((emitted \o held) \o <<i>>)
        /\ ToSet((emitted \o held) \o <<i>>) = ToSet(emitted \o held) \cup {i}
    BY <2>1, <1>3, <1>5, ConcatGrows
  <2> QED
    BY <2>2, <2>4, <1>0, <1>5
<1>7. emitted' \in Seq(1..Len(input))
  <2>1. \A e \in ToSet(emitted') : e \in 1..Len(input)
    BY <1>1, <1>2, <1>4, <1>6 DEF i
  <2> QED
    BY <2>1, <1>6, Within
<1>8. Selecting'
  <2>1. held' \in Seq(Nat) /\ Len(held') = 0
    BY <1>0
  <2>2. ASSUME NEW e \in ToSet(emitted')
        PROVE  e <= i /\ \E j \in 1..i : Covers(j, e)
    <3>1. CASE e \in ToSet(emitted)
      <4>1. PICK j \in 1..fed : Covers(j, e)
        BY <3>1, <1>1 DEF Selecting
      <4> QED
        BY <4>1, <3>1, <1>1, <1>2, <1>4 DEF i
    <3>2. CASE e \in (fed - h + 1)..i
      BY <3>2, <1>1, <1>2 DEF i, Covers
    <3> QED
      BY <3>1, <3>2, <1>6
  <2>3. ASSUME NEW k \in 1..i, NEW j \in 1..i, Covers(j, k)
        PROVE  k \in ToSet(emitted')
    <3>1. CASE k = i
      BY <3>1, <1>1, <1>2, <1>6 DEF i
    <3>2. CASE k # i /\ j # i
      BY <3>2, <2>3, <1>1, <1>6 DEF i, Selecting
    <3>3. CASE k # i /\ j = i
      <4>1. k \in 1..fed /\ ~(k + Before <= fed)
        BY <3>3, <2>3, <1>1 DEF i, Covers
      <4>2. k \in ToSet(emitted) \/ k > fed - h
        BY <4>1, <1>1 DEF Selecting, h
      <4> QED
        BY <4>1, <4>2, <1>1, <1>2, <1>6 DEF i
    <3> QED
      BY <3>1, <3>2, <3>3
  <2>4. ASSUME NEW k \in 1..i
        PROVE  k \in ToSet(emitted') \/ k > i \/ k + Before <= i
    <3>1. CASE k = i
      BY <3>1, <1>1, <1>2, <1>6 DEF i
    <3>2. CASE k # i
      <4>1. k \in 1..fed
        BY <3>2, <1>1 DEF i
      <4>2. k \in ToSet(emitted) \/ k > fed - h \/ k + Before <= fed
        BY <4>1, <1>1 DEF Selecting, h
      <4> QED
        BY <4>1, <4>2, <1>1, <1>2, <1>6 DEF i
    <3> QED
      BY <3>1, <3>2
  <2>5. \A j \in 1..i : j + After <= i + After
    BY <1>1
  <2>6. i \in 1..i /\ input[i].hit /\ i \in Nat
    BY <1>1 DEF i
  <2>8. i - Len(held') = i /\ Len(held') <= i /\ \A k \in 1..Len(held') : FALSE
    BY <2>1, <2>6
  <2> QED
    BY <2>1, <2>2, <2>3, <2>4, <2>5, <2>6, <2>8, <1>0 DEF Selecting, Covers
<1> QED
  BY <1>6, <1>7, <1>8

(* After a match: the line itself is emitted. *)
LEMMA TrailKeeps ==
    ASSUME ReduceInv, Feed, ~input[fed + 1].hit, afterLeft > 0
    PROVE  Selecting' /\ emitted' \in Seq(1..Len(input)) /\ Grows(emitted)'
<1> DEFINE i == fed + 1
<1>0. /\ stage = "select" /\ fed < Len(input) /\ input' = input /\ fed' = i
      /\ emitted' = Append(emitted, i) /\ held' = held /\ afterLeft' = afterLeft - 1
  BY DEF Feed
<1>1. /\ fed \in Nat /\ After \in Nat /\ Before \in Nat /\ afterLeft \in Nat /\ Selecting
      /\ Len(input) \in Nat /\ i \in 1..Len(input)
  <2>1. /\ input \in Seq(Line) /\ fed \in 0..Len(input) /\ afterLeft \in 0..After /\ Selecting
    BY <1>0 DEF ReduceInv, ReduceTypeOK
  <2>2. Before \in Nat /\ After \in Nat
    BY ReduceAssumption DEF ReduceAssumption
  <2>3. Len(input) \in Nat
    BY <2>1, LenProperties
  <2> QED
    BY <2>1, <2>2, <2>3, <1>0
<1>2. held = <<>> /\ Len(held) = 0
  BY <1>1 DEF Selecting
<1>3. \A e \in ToSet(emitted) : e \in 1..Len(input) /\ e <= fed
  <2>1. emitted \in Seq(1..Len(input))
    BY DEF ReduceInv
  <2>2. \A e \in ToSet(emitted) : e \in 1..Len(input)
    BY <2>1, LenProperties, ElementOfSeq DEF ToSet
  <2> QED
    BY <2>2, <1>1, <1>2 DEF Selecting
<1> HIDE DEF i
<1>4. /\ emitted' \in Seq(Nat) /\ Grows(emitted') /\ ToSet(emitted') = ToSet(emitted) \cup {i}
  <2>1. emitted \in Seq(1..Len(input)) /\ Grows(emitted)
    BY DEF ReduceInv
  <2>2. emitted \in Seq(Nat)
    <3>1. 1..Len(input) \subseteq Nat
      OBVIOUS
    <3> QED
      BY <2>1, <3>1, SeqMonotonic
  <2>3. <<i>> \in Seq(Nat) /\ Grows(<<i>>) /\ ToSet(<<i>>) = {i}
    BY <1>1, OneGrows
  <2>4. \A x \in ToSet(emitted), y \in ToSet(<<i>>) : x < y
    BY <2>3, <1>1, <1>3 DEF i
  <2>5. emitted \o <<i>> = Append(emitted, i)
    BY <2>2, <2>3, <1>1, AppendIsConcat
  <2> QED
    BY <2>1, <2>2, <2>3, <2>4, <2>5, <1>0, ConcatGrows
<1>5. emitted' \in Seq(1..Len(input))
  BY <1>1, <1>3, <1>4, Within
<1>6. Selecting'
  <2>1. PICK m \in 1..fed : input[m].hit /\ m + After = fed + afterLeft
    BY <1>1 DEF Selecting
  <2>2. ASSUME NEW e \in ToSet(emitted')
        PROVE  e <= i /\ \E j \in 1..i : Covers(j, e)
    <3>1. CASE e \in ToSet(emitted)
      <4>1. PICK j \in 1..fed : Covers(j, e)
        BY <3>1, <1>1 DEF Selecting
      <4> QED
        BY <4>1, <3>1, <1>1, <1>3 DEF i
    <3>2. CASE e = i
      BY <3>2, <2>1, <1>1 DEF i, Covers
    <3> QED
      BY <3>1, <3>2, <1>4
  <2>3. ASSUME NEW k \in 1..i, NEW j \in 1..i, Covers(j, k)
        PROVE  k \in ToSet(emitted')
    <3>1. CASE k = i
      BY <3>1, <1>4
    <3>2. CASE k # i
      <4>1. j # i
        BY <2>3 DEF i, Covers
      <4> QED
        BY <3>2, <4>1, <2>3, <1>1, <1>4 DEF i, Selecting
    <3> QED
      BY <3>1, <3>2
  <2>4. ASSUME NEW k \in 1..i
        PROVE  k \in ToSet(emitted') \/ k > i \/ k + Before <= i
    <3>1. CASE k = i
      BY <3>1, <1>4
    <3>2. CASE k # i
      <4>1. k \in 1..fed
        BY <3>2, <1>1 DEF i
      <4>2. k \in ToSet(emitted) \/ k > fed \/ k + Before <= fed
        BY <4>1, <1>1, <1>2 DEF Selecting
      <4> QED
        BY <4>1, <4>2, <1>1, <1>4 DEF i
    <3> QED
      BY <3>1, <3>2
  <2>5. ASSUME NEW j \in 1..i, input[j].hit
        PROVE  j + After <= i + afterLeft'
    <3>1. j # i
      BY <2>5 DEF i
    <3>2. j + After <= fed + afterLeft
      BY <3>1, <2>5, <1>1 DEF i, Selecting
    <3> QED
      BY <3>2, <1>0, <1>1 DEF i
  <2>6. m \in 1..i /\ input[m].hit /\ m + After = i + afterLeft'
    BY <2>1, <1>0, <1>1 DEF i
  <2>7. held' \in Seq(Nat) /\ Len(held') = 0 /\ held' = <<>>
    BY <1>0, <1>2
  <2>8. i \in Nat /\ i - Len(held') = i /\ Len(held') <= i /\ \A k \in 1..Len(held') : FALSE
    BY <2>7, <1>1
  <2> QED
    BY <2>2, <2>3, <2>4, <2>5, <2>6, <2>7, <2>8, <1>0 DEF Selecting, Covers
<1> QED
  BY <1>4, <1>5, <1>6

(* The same, of a list of a known length *)
LEMMA LastOfLength ==
    ASSUME NEW l \in Nat, NEW s \in Seq(Nat), Len(s) = l, NEW n \in Nat
    PROVE  LET m == IF l > n THEN n ELSE l IN
           /\ LastOf(s, n) \in Seq(Nat) /\ Len(LastOf(s, n)) = m
           /\ \A k \in 1..m : LastOf(s, n)[k] = s[l - m + k]
<1> DEFINE m == IF l > n THEN n ELSE l
           p == IF Len(s) > n THEN n ELSE Len(s)
<1>1. /\ LastOf(s, n) \in Seq(Nat) /\ Len(LastOf(s, n)) = p
      /\ \A k \in 1..p : LastOf(s, n)[k] = s[Len(s) - p + k]
  BY LastOfIs
<1>2. p = m /\ Len(s) = l
  OBVIOUS
<1>3. m \in Nat /\ p \in Nat
  OBVIOUS
<1> HIDE DEF p, m
<1>4. ASSUME NEW k \in 1..m PROVE LastOf(s, n)[k] = s[l - m + k]
  <2>1. Len(s) - p + k = l - m + k
    BY <1>2, <1>3
  <2> QED
    BY <1>1, <1>2, <2>1
<1> QED
  BY <1>1, <1>2, <1>4 DEF m

(* No match near: the line goes into the ring, and the oldest leaves it. *)
LEMMA RingKeeps ==
    ASSUME ReduceInv, Feed, ~input[fed + 1].hit, ~(afterLeft > 0)
    PROVE  Selecting' /\ emitted' = emitted /\ Len(held)' <= Before
<1> DEFINE i == fed + 1
           h == Len(held)
           r == IF h + 1 > Before THEN Before ELSE h + 1
<1>0. /\ stage = "select" /\ fed < Len(input) /\ input' = input /\ fed' = i
      /\ emitted' = emitted /\ held' = LastOf(Append(held, i), Before) /\ afterLeft' = afterLeft
  <2>1. ~(input[fed + 1].hit) /\ afterLeft = 0
    BY DEF Feed, ReduceInv, ReduceTypeOK
  <2> QED
    BY <2>1 DEF Feed
<1>1. /\ fed \in Nat /\ After \in Nat /\ Before \in Nat /\ afterLeft = 0 /\ Selecting
      /\ Len(input) \in Nat /\ i \in 1..Len(input) /\ h \in Nat /\ h <= fed /\ h <= Before
      /\ held \in Seq(Nat)
  <2>1. /\ input \in Seq(Line) /\ fed \in 0..Len(input) /\ afterLeft \in 0..After /\ Selecting
        /\ held \in Seq(Nat) /\ h <= fed /\ h <= Before
    BY <1>0 DEF ReduceInv, ReduceTypeOK, Selecting
  <2>2. Before \in Nat /\ After \in Nat
    BY ReduceAssumption DEF ReduceAssumption
  <2>3. Len(input) \in Nat /\ h \in Nat
    BY <2>1, LenProperties
  <2> QED
    BY <2>1, <2>2, <2>3, <1>0
<1>2. \A k \in 1..h : held[k] = fed - h + k
  BY <1>1 DEF Selecting
<1>3. /\ Append(held, i) \in Seq(Nat) /\ Len(Append(held, i)) = h + 1
      /\ \A k \in 1..(h + 1) : Append(held, i)[k] = fed - h + k
  <2>1. /\ Append(held, i) \in Seq(Nat) /\ Len(Append(held, i)) = h + 1
        /\ \A k \in 1..h : Append(held, i)[k] = held[k]
        /\ Append(held, i)[h + 1] = i
    BY <1>1, AppendProperties
  <2>2. fed - h + (h + 1) = i
    BY <1>1
  <2> QED
    BY <2>1, <2>2, <1>1, <1>2
<1> HIDE DEF i, h
<1>4. /\ held' \in Seq(Nat) /\ Len(held') = r
      /\ \A k \in 1..r : held'[k] = Append(held, i)[h + 1 - r + k]
  <2> DEFINE t == Append(held, i)
  <2>0. t \in Seq(Nat) /\ Len(t) = h + 1 /\ h + 1 \in Nat /\ Before \in Nat
    BY <1>1, <1>3
  <2> HIDE DEF t
  <2>1. /\ LastOf(t, Before) \in Seq(Nat) /\ Len(LastOf(t, Before)) = r
        /\ \A k \in 1..r : LastOf(t, Before)[k] = t[(h + 1) - r + k]
    BY <2>0, LastOfLength
  <2>2. r \in Nat
    BY <1>1
  <2> HIDE DEF r
  <2>3. \A k \in 1..r : h + 1 - r + k = (h + 1) - r + k
    BY <2>2, <1>1
  <2> QED
    BY <2>1, <2>3, <1>0, Zenon DEF t
<1>5. r \in Nat /\ r <= h + 1 /\ r <= Before /\ (r = h + 1 \/ r = Before)
  BY <1>1
<1> HIDE DEF r
<1>6. \A k \in 1..r : held'[k] = i - r + k
  <2> SUFFICES ASSUME NEW k \in 1..r PROVE held'[k] = i - r + k
    OBVIOUS
  <2>1. h + 1 - r + k \in 1..(h + 1)
    BY <1>1, <1>5
  <2>2. held'[k] = fed - h + (h + 1 - r + k)
    BY <2>1, <1>3, <1>4
  <2>3. fed - h + (h + 1 - r + k) = i - r + k
    BY <1>1, <1>5 DEF i
  <2> QED
    BY <2>2, <2>3
<1>7. Selecting'
  <2>1. i \in Nat /\ Len(held') <= i /\ held' \in Seq(Nat) /\ Len(held') = r
    BY <1>1, <1>4, <1>5 DEF i
  <2>2. ASSUME NEW e \in ToSet(emitted)
        PROVE  e <= i - r /\ \E j \in 1..i : Covers(j, e)
    <3>1. e <= fed - h /\ \E j \in 1..fed : Covers(j, e)
      BY <2>2, <1>1 DEF Selecting, h
    <3>2. e \in 1..Len(input)
      <4>1. emitted \in Seq(1..Len(input))
        BY DEF ReduceInv
      <4> QED
        BY <4>1, LenProperties, ElementOfSeq DEF ToSet
    <3> QED
      BY <3>1, <3>2, <1>1, <1>5 DEF i
  <2>3. ASSUME NEW k \in 1..i, NEW j \in 1..i, Covers(j, k)
        PROVE  k \in ToSet(emitted)
    <3>1. j # i
      BY <2>3 DEF i, Covers
    <3>2. j \in 1..fed /\ j + After <= fed
      BY <3>1, <2>3, <1>1 DEF i, Selecting, Covers
    <3>3. k \in 1..fed
      BY <3>2, <2>3, <1>1 DEF i, Covers
    <3> QED
      BY <3>2, <3>3, <2>3, <1>1 DEF Selecting
  <2>4. ASSUME NEW k \in 1..i
        PROVE  k \in ToSet(emitted) \/ k > i - r \/ k + Before <= i
    <3>1. k = i \/ k \in 1..fed
      BY <1>1 DEF i
    <3>2. k = i \/ k \in ToSet(emitted) \/ k > fed - h \/ k + Before <= fed
      BY <3>1, <1>1 DEF Selecting, h
    <3> QED
      BY <3>2, <1>1, <1>5 DEF i
  <2>5. ASSUME NEW j \in 1..i, input[j].hit
        PROVE  j + After <= i + afterLeft'
    <3>1. j # i
      BY <2>5 DEF i
    <3>2. j \in 1..fed /\ j + After <= fed + afterLeft
      BY <3>1, <2>5, <1>1 DEF i, Selecting
    <3> QED
      BY <3>2, <1>0, <1>1 DEF i
  <2>6. ~(afterLeft' > 0)
    BY <1>0, <1>1
  <2> QED
    BY <2>1, <2>2, <2>3, <2>4, <2>5, <2>6, <1>0, <1>6 DEF Selecting, Covers
<1> QED
  BY <1>0, <1>4, <1>5, <1>7

(* While lines are fed, the later stages' parts of the invariant are idle. *)
LEMMA StillFed ==
    ASSUME stage' = "select"
    PROVE  /\ WorkSound' /\ NoiseTold' /\ ErrorsShown'
           /\ WindowAccounted' /\ ClustersAccounted' /\ DecisionsAnnounced'
BY DEF WorkSound, NoiseTold, ErrorsShown, WindowAccounted, ClustersAccounted, DecisionsAnnounced

LEMMA ReduceStarts == ReduceInit => ReduceInv
<1> SUFFICES ASSUME ReduceInit PROVE ReduceInv
  OBVIOUS
<1>1. input \in Seq(Line) /\ Len(input) \in 1..MaxLines
  <2>1. PICK n \in 1..MaxLines : input \in [1..n -> Line]
    BY DEF ReduceInit
  <2>2. n \in Nat
    OBVIOUS
  <2>3. input \in Seq(Line) /\ Len(input) = n
    BY <2>1, <2>2
  <2> QED
    BY <2>3
<1>2. /\ fed = 0 /\ held = <<>> /\ afterLeft = 0 /\ emitted = <<>> /\ stage = "select"
      /\ work = <<>> /\ body = <<>> /\ dropped = 0
  BY DEF ReduceInit
<1>3. After \in Nat /\ Before \in Nat /\ MaxLines \in Nat
  BY ReduceAssumption DEF ReduceAssumption
<1>4. Len(input) \in Nat /\ 0 \in 0..Len(input) /\ 0 \in 0..After /\ 0 \in 0..MaxLines
  BY <1>1, <1>3
<1>5. /\ \A S : <<>> \in Seq(S)
      /\ Len(<<>>) = 0 /\ DOMAIN <<>> = {}
  OBVIOUS
<1>6. ToSet(<<>>) = {} /\ Grows(<<>>)
  BY <1>5 DEF ToSet, Grows
<1>7. ReduceTypeOK
  BY <1>2, <1>3, <1>4, <1>5 DEF ReduceTypeOK
<1>8. Selecting
  BY <1>2, <1>3, <1>5, <1>6 DEF Selecting
<1>9. /\ WorkSound /\ NoiseTold /\ ErrorsShown
      /\ WindowAccounted /\ ClustersAccounted /\ DecisionsAnnounced
  BY <1>2 DEF WorkSound, NoiseTold, ErrorsShown, WindowAccounted, ClustersAccounted,
              DecisionsAnnounced
<1>10. /\ emitted \in Seq(1..Len(input)) /\ Grows(emitted)
       /\ work \in Seq(1..Len(input)) /\ Grows(work) /\ body \in Seq(Entries)
  BY <1>2, <1>5, <1>6
<1> QED
  BY <1>1, <1>7, <1>8, <1>9, <1>10 DEF ReduceInv

LEMMA FeedKeeps == ASSUME ReduceInv, Feed PROVE ReduceInv'
<1>1. /\ stage = "select" /\ fed < Len(input) /\ fed' = fed + 1
      /\ UNCHANGED <<input, stage, work, body, dropped>>
  BY DEF Feed
<1>2. /\ input \in Seq(Line) /\ Len(input) \in 1..MaxLines /\ fed \in 0..Len(input)
      /\ afterLeft \in 0..After /\ Len(held) <= Before /\ dropped \in 0..MaxLines
      /\ emitted \in Seq(1..Len(input)) /\ Grows(emitted)
      /\ work \in Seq(1..Len(input)) /\ Grows(work) /\ body \in Seq(Entries)
  BY DEF ReduceInv, ReduceTypeOK
<1>3. After \in Nat /\ Before \in Nat
  BY ReduceAssumption DEF ReduceAssumption
<1>4. /\ Selecting' /\ emitted' \in Seq(1..Len(input)) /\ Grows(emitted)'
      /\ Len(held)' <= Before /\ afterLeft' \in 0..After
  <2>1. CASE input[fed + 1].hit
    <3>1. held' = <<>> /\ afterLeft' = After
      BY <2>1 DEF Feed
    <3>2. Len(held') = 0 /\ After \in 0..After
      BY <3>1, <1>3
    <3> QED
      BY <2>1, <3>1, <3>2, <1>3, MatchKeeps
  <2>2. CASE ~input[fed + 1].hit /\ afterLeft > 0
    <3>1. held' = held /\ afterLeft' = afterLeft - 1
      BY <2>2 DEF Feed
    <3> QED
      BY <2>2, <3>1, <1>2, <1>3, TrailKeeps
  <2>3. CASE ~input[fed + 1].hit /\ ~(afterLeft > 0)
    <3>1. afterLeft' = afterLeft
      BY <2>3 DEF Feed
    <3>2. Selecting' /\ emitted' = emitted /\ Len(held)' <= Before
      BY <2>3, RingKeeps
    <3> QED
      BY <3>1, <3>2, <1>2
  <2> QED
    BY <2>1, <2>2, <2>3
<1>5. ReduceTypeOK'
  <2>1. fed' \in 0..Len(input)
    BY <1>1, <1>2
  <2> QED
    BY <2>1, <1>1, <1>2, <1>4 DEF ReduceTypeOK
<1>6. Entries' = Entries
  BY <1>1 DEF Entries
<1> QED
  BY <1>1, <1>2, <1>4, <1>5, <1>6, StillFed DEF ReduceInv

(* Each later stage leaves the selector's part alone. *)
LEMMA SelectedFacts ==
    ASSUME ReduceInv, stage # "select"
    PROVE  /\ Len(input) \in Nat /\ Len(input) <= MaxLines
           /\ emitted \in Seq(Nat) /\ Grows(emitted) /\ emitted # <<>>
           /\ work \in Seq(Nat) /\ Grows(work) /\ work \in Seq(1..Len(input))
           /\ Len(work) \in Nat /\ Len(work) <= MaxLines /\ DOMAIN work = 1..Len(work)
           /\ \A k \in DOMAIN work : work[k] \in 1..Len(input) /\ work[k] \in ToSet(work)
           /\ {RepeatThreshold, ShortTrace, ErrorContext, ErrorTrailing, RareThreshold,
               BoilerplateCount, MaxDecisions, MaxShown, MaxLines} \subseteq Nat
<1>1. /\ input \in Seq(Line) /\ Len(input) \in 1..MaxLines /\ WorkSound
      /\ emitted \in Seq(1..Len(input)) /\ Grows(emitted)
      /\ work \in Seq(1..Len(input)) /\ Grows(work)
  BY DEF ReduceInv
<1>2. /\ {RepeatThreshold, ShortTrace, ErrorContext, ErrorTrailing, RareThreshold,
          BoilerplateCount, MaxDecisions, MaxShown, MaxLines} \subseteq Nat
  BY ReduceAssumption DEF ReduceAssumption
<1>3. Len(input) \in Nat /\ Len(input) <= MaxLines
  BY <1>1, <1>2
<1>4. emitted \in Seq(Nat) /\ work \in Seq(Nat)
  <2>1. 1..Len(input) \subseteq Nat
    OBVIOUS
  <2> QED
    BY <2>1, <1>1, SeqMonotonic
<1>5. Len(work) <= Len(input)
  BY <1>1, <1>3, ShortList
<1>6. /\ Len(work) \in Nat /\ DOMAIN work = 1..Len(work)
      /\ \A k \in DOMAIN work : work[k] \in 1..Len(input) /\ work[k] \in ToSet(work)
  BY <1>1, LenProperties, ElementOfSeq DEF ToSet
<1>7. Len(work) <= MaxLines
  BY <1>2, <1>3, <1>5, <1>6
<1> QED
  BY <1>1, <1>2, <1>3, <1>4, <1>6, <1>7 DEF WorkSound

LEMMA SelectedKeeps == ASSUME ReduceInv, Selected PROVE ReduceInv'
<1>1. /\ stage = "select" /\ fed = Len(input) /\ emitted # <<>> /\ stage' = "floor"
      /\ work' = emitted /\ UNCHANGED <<input, fed, held, afterLeft, emitted, body, dropped>>
  BY DEF Selected
<1>2. /\ input \in Seq(Line) /\ Len(input) \in 1..MaxLines /\ ReduceTypeOK /\ Selecting
      /\ emitted \in Seq(1..Len(input)) /\ Grows(emitted) /\ body \in Seq(Entries)
  BY <1>1 DEF ReduceInv
<1>3. ToSet(emitted) = Window
  <2>1. \A e \in ToSet(emitted) : e \in 1..Len(input)
    BY <1>2, LenProperties, ElementOfSeq DEF ToSet
  <2>2. \A e \in ToSet(emitted) : e \in Window
    BY <2>1, <1>1, <1>2 DEF Selecting, Covers, Window
  <2>3. \A e \in Window : e \in ToSet(emitted)
    BY <1>1, <1>2 DEF Selecting, Covers, Window
  <2> QED
    BY <2>2, <2>3
<1>4. ReduceTypeOK' /\ WorkSound' /\ NoiseTold'
  BY <1>1, <1>2, <1>3 DEF ReduceTypeOK, WorkSound, NoiseTold, Window
<1>5. WindowAccounted' /\ ClustersAccounted' /\ DecisionsAnnounced' /\ ErrorsShown'
  BY <1>1 DEF WindowAccounted, ClustersAccounted, DecisionsAnnounced, ErrorsShown
<1>6. Entries' = Entries
  BY <1>1 DEF Entries
<1> QED
  BY <1>1, <1>2, <1>4, <1>5, <1>6 DEF ReduceInv

-----------------------------------------------------------------------------
(* LogReduce: the stages after it. *)

(* Where a floor can stand; an error is above it, known or not. *)
LEMMA ErrorAbove == ASSUME NEW i, Level(i) = "ERROR" PROVE ~Below(i)
<1>1. DOMAIN LevelOrder = {"TRACE", "DEBUG", "INFO", "WARN", "ERROR"}
  BY DEF LevelOrder
<1>2. \A l \in DOMAIN LevelOrder : LevelOrder[l] \in {0, 10, 20, 30, 40}
  BY DEF LevelOrder
<1>3. LevelOrder["WARN"] = 30 /\ LevelOrder["ERROR"] = 40
  BY DEF LevelOrder
<1>4. PICK l \in DOMAIN LevelOrder :
          l = IF MinLevel \in DOMAIN LevelOrder THEN MinLevel ELSE "INFO"
  BY <1>1
<1>5. Floor = IF LevelOrder[l] < 30 THEN LevelOrder[l] ELSE 30
  BY <1>3, <1>4 DEF Floor
<1>6. Floor \in Nat /\ Floor <= 30
  BY <1>2, <1>5
<1> QED
  BY <1>3, <1>6 DEF Below

LEMMA NoiseFloorKeeps == ASSUME ReduceInv, NoiseFloor PROVE ReduceInv'
<1> DEFINE ks == {k \in DOMAIN work : ~Below(work[k])}
           kept == Only(work, ks)
           below == {i \in ToSet(emitted) : Below(i)}
           lost == IF below = ToSet(emitted) THEN {} ELSE below
<1>1. /\ stage = "floor" /\ stage' = "branch"
      /\ work' = IF kept = <<>> THEN work ELSE kept
      /\ dropped' = Len(work) - Len(work')
      /\ UNCHANGED <<input, fed, held, afterLeft, emitted, body>>
  BY DEF NoiseFloor
<1>2. /\ Len(input) \in Nat /\ Len(input) <= MaxLines
      /\ emitted \in Seq(Nat) /\ Grows(emitted) /\ emitted # <<>>
      /\ work \in Seq(Nat) /\ Grows(work) /\ work \in Seq(1..Len(input))
      /\ Len(work) \in Nat /\ Len(work) <= MaxLines /\ DOMAIN work = 1..Len(work)
      /\ MaxLines \in Nat
  BY <1>1, SelectedFacts
<1>3. /\ input \in Seq(Line) /\ Len(input) \in 1..MaxLines /\ ReduceTypeOK
      /\ work = emitted /\ ToSet(emitted) = Window /\ emitted \in Seq(1..Len(input))
      /\ body \in Seq(Entries)
  BY <1>1 DEF ReduceInv, WorkSound
<1>4. ks \in SUBSET (1..Len(work))
  BY <1>2
<1>5. /\ kept \in Seq(Nat) /\ Grows(kept) /\ Len(kept) = Cardinality(ks)
      /\ Len(kept) \in 0..Len(work) /\ ToSet(kept) = {work[k] : k \in ks}
      /\ kept \in Seq(1..Len(input))
  <2> HIDE DEF ks
  <2>1. /\ kept \in Seq(Nat) /\ Len(kept) = Cardinality(ks) /\ Cardinality(ks) \in 0..Len(work)
        /\ ToSet(kept) = {work[k] : k \in ks}
    BY <1>2, <1>4, OnlyIs
  <2>2. kept \in Seq(1..Len(input))
    BY <1>2, <1>4, OnlyIs
  <2>3. Grows(kept)
    BY <1>2, <1>4, OnlyGrows
  <2> QED
    BY <2>1, <2>2, <2>3
<1>6. ToSet(kept) = ToSet(emitted) \ below
  <2>1. {work[k] : k \in ks} = {i \in ToSet(work) : ~Below(i)}
    BY DEF ToSet
  <2> QED
    BY <2>1, <1>3, <1>5
<1>7. kept = <<>> <=> below = ToSet(emitted)
  <2>1. kept = <<>> <=> ToSet(kept) = {}
    <3>1. DOMAIN kept = 1..Len(kept) /\ Len(kept) \in Nat
      BY <1>5, LenProperties
    <3>2. kept = <<>> <=> Len(kept) = 0
      BY <1>5, EmptySeq
    <3>3. ToSet(kept) = {} <=> DOMAIN kept = {}
      BY DEF ToSet
    <3> HIDE DEF kept
    <3> QED
      BY <3>1, <3>2, <3>3
  <2> QED
    BY <2>1, <1>6
<1> HIDE DEF ks, kept
<1>8. /\ work' \in Seq(Nat) /\ Grows(work') /\ work' \in Seq(1..Len(input))
      /\ Len(work') \in 0..Len(work) /\ ToSet(work') = ToSet(emitted) \ lost
  BY <1>1, <1>2, <1>3, <1>5, <1>6, <1>7
<1>9. work' # <<>>
  BY <1>1, <1>2, <1>3
<1>10. dropped' = Cardinality(lost)
  <2>1. /\ IsFiniteSet(ToSet(emitted)) /\ Cardinality(ToSet(emitted)) = Len(work)
        /\ Cardinality(ToSet(work')) = Len(work')
    BY <1>2, <1>3, <1>8, GrowsOnce
  <2>2. lost \in SUBSET ToSet(emitted)
    OBVIOUS
  <2> HIDE DEF lost
  <2>3. IsFiniteSet(lost) /\ Cardinality(lost) \in Nat
    BY <2>1, <2>2, FS_Subset, FS_CardinalityType
  <2>4. Cardinality(ToSet(emitted) \ lost)
          = Cardinality(ToSet(emitted)) - Cardinality(ToSet(emitted) \cap lost)
    BY <2>1, <2>3, FS_Difference
  <2>5. ToSet(emitted) \cap lost = lost
    BY <2>2
  <2>6. Len(work') \in Nat /\ Len(work') = Cardinality(ToSet(emitted) \ lost)
    BY <2>1, <1>2, <1>8
  <2>7. Len(work') = Len(work) - Cardinality(lost)
    BY <2>1, <2>4, <2>5, <2>6, Zenon
  <2>8. dropped' = Len(work) - (Len(work) - Cardinality(lost))
    BY <2>7, <1>1, Zenon
  <2> QED
    BY <2>3, <2>8, <1>2
<1>11. ReduceTypeOK'
  <2>1. dropped' \in 0..MaxLines
    BY <1>1, <1>2, <1>8
  <2> QED
    BY <2>1, <1>1, <1>3 DEF ReduceTypeOK
<1>12. NoiseTold'
  BY <1>1, <1>8, <1>10 DEF NoiseTold, Below, Level
<1>13. WorkSound'
  <2>1. \A i \in ToSet(emitted) : Level(i) = "ERROR" => i \in ToSet(work')
    BY <1>8, ErrorAbove
  <2>2. Window' = Window /\ \A i : Level(i)' = Level(i)
    BY <1>1 DEF Window, Level
  <2>3. ToSet(work') \subseteq ToSet(emitted)
    BY <1>8
  <2> QED
    BY <2>1, <2>2, <2>3, <1>1, <1>2, <1>3, <1>9 DEF WorkSound
<1>14. WindowAccounted' /\ ClustersAccounted' /\ DecisionsAnnounced' /\ ErrorsShown'
  BY <1>1 DEF WindowAccounted, ClustersAccounted, DecisionsAnnounced, ErrorsShown
<1>15. Entries' = Entries
  BY <1>1 DEF Entries
<1>16. Grows(emitted)' /\ Grows(work)' /\ emitted' \in Seq(1..Len(input))'
  BY <1>1, <1>2, <1>3, <1>8
<1> QED
  BY <1>1, <1>3, <1>8, <1>11, <1>12, <1>13, <1>14, <1>15, <1>16 DEF ReduceInv

(* Every list is one of what it shows. *)
LEMMA SelfList == ASSUME NEW S, NEW s \in Seq(S) PROVE s \in Seq(ToSet(s))
<1>1. \A e \in ToSet(s) : e \in ToSet(s)
  OBVIOUS
<1> QED
  BY <1>1, Within

LEMMA ConcatShows ==
    ASSUME NEW S, NEW T, NEW s \in Seq(S), NEW t \in Seq(T)
    PROVE  \A x : x \in ToSet(s \o t) <=> x \in ToSet(s) \/ x \in ToSet(t)
<1>1. s \o t \in Seq(S \cup T)
  BY ConcatIs, Zenon
<1>2. ToSet(s \o t) = ToSet(s) \cup ToSet(t)
  BY <1>1, ConcatIs
<1> QED
  BY <1>2

LEMMA JoinedIs ==
    ASSUME NEW s, NEW t, s \in Seq(ToSet(s)), t \in Seq(ToSet(t))
    PROVE  s \o t \in Seq(ToSet(s \o t)) /\ ToSet(s \o t) = ToSet(s) \cup ToSet(t)
<1> DEFINE S == ToSet(s)
           T == ToSet(t)
<1>1. s \in Seq(S) /\ t \in Seq(T)
  OBVIOUS
<1> HIDE DEF S, T
<1>2. s \o t \in Seq(S \cup T) /\ ToSet(s \o t) = ToSet(s) \cup ToSet(t)
  <2>1. s \o t \in Seq(S \cup T)
    BY <1>1, ConcatIs, Zenon
  <2>2. \A x : x \in ToSet(s \o t) <=> x \in ToSet(s) \/ x \in ToSet(t)
    BY <1>1, ConcatShows, Zenon
  <2> QED
    BY <2>1, <2>2
<1> QED
  BY <1>2, Zenon DEF S, T

(* A stage after the noise floor keeps the invariant when the lines it     *)
(* leaves keep the errors and the trace it writes accounts for them.       *)
LEMMA StageMoves ==
    ASSUME ReduceInv, stage \in {"branch", "fold", "cluster", "bound"},
           UNCHANGED <<input, fed, held, afterLeft, emitted, dropped>>,
           stage' \in {"fold", "cluster", "bound", "shown"},
           work' \in Seq(1..Len(input)), Grows(work'), work' # <<>>,
           ToSet(work') \subseteq ToSet(work),
           \A i \in ToSet(work) : Level(i) = "ERROR" => i \in ToSet(work'),
           stage' = "fold" => Errors' # {}, stage' = "cluster" => Clustered',
           body' \in Seq(Entries'),
           WindowAccounted', ClustersAccounted', DecisionsAnnounced', ErrorsShown'
    PROVE  ReduceInv'
<1>1. /\ input \in Seq(Line) /\ Len(input) \in 1..MaxLines /\ ReduceTypeOK
      /\ emitted \in Seq(1..Len(input)) /\ Grows(emitted) /\ WorkSound /\ NoiseTold
  BY DEF ReduceInv
<1>2. /\ stage' # "select" /\ stage' # "floor" /\ stage' # "branch"
      /\ stage # "select" /\ stage \notin {"select", "floor"}
  OBVIOUS
<1>3. Window' = Window /\ \A i : Level(i)' = Level(i)
  BY DEF Window, Level
<1>4. ReduceTypeOK'
  BY <1>1 DEF ReduceTypeOK
<1>5. WorkSound'
  <2>1. ToSet(emitted) = Window /\ emitted # <<>> /\ ToSet(work) \subseteq ToSet(emitted)
    BY <1>1, <1>2 DEF WorkSound
  <2>2. \A i \in ToSet(emitted) : Level(i) = "ERROR" => i \in ToSet(work')
    BY <1>1, <1>2 DEF WorkSound
  <2> QED
    BY <1>2, <1>3, <2>1, <2>2 DEF WorkSound
<1>6. NoiseTold'
  <2>1. dropped' = dropped /\ emitted' = emitted /\ \A i : Below(i)' = Below(i)
    BY DEF Below, Level
  <2> QED
    BY <1>1, <1>2, <2>1 DEF NoiseTold
<1>7. /\ (input \in Seq(Line))' /\ (Len(input) \in 1..MaxLines)'
      /\ (emitted \in Seq(1..Len(input)))' /\ Grows(emitted)'
      /\ (work \in Seq(1..Len(input)))' /\ Grows(work)' /\ (body \in Seq(Entries))'
  BY <1>1
<1> QED
  BY <1>2, <1>4, <1>5, <1>6, <1>7 DEF ReduceInv

(* Lines shown as they are *)
LEMMA AsLinesIs ==
    ASSUME NEW s \in Seq(Nat)
    PROVE  /\ AsLines(s) \in Seq(ToSet(AsLines(s)))
           /\ ToSet(AsLines(s)) = {<<"line", i>> : i \in ToSet(s)}
<1>1. Len(s) \in Nat /\ DOMAIN s = 1..Len(s)
  BY LenProperties
<1>2. DOMAIN AsLines(s) = 1..Len(s) /\ AsLines(s) = [k \in 1..Len(s) |-> AsLines(s)[k]]
  BY <1>1 DEF AsLines
<1>3. \A k \in DOMAIN s : AsLines(s)[k] = <<"line", s[k]>>
  BY DEF AsLines
<1>4. ToSet(AsLines(s)) = {<<"line", i>> : i \in ToSet(s)}
  BY <1>1, <1>2, <1>3 DEF ToSet
<1> QED
  BY <1>1, <1>2, <1>4, ListIs

(* A trace of the lines as they are hides none and folds none. *)
LEMMA LinesAccount ==
    ASSUME UNCHANGED <<input, work>>, work \in Seq(Nat), body' = AsLines(work)
    PROVE  WindowAccounted' /\ body' \in Seq(Entries')
<1>1. /\ body' \in Seq(Entries') /\ Entries' = {<<"line", i>> : i \in ToSet(work)}
  BY AsLinesIs DEF Entries
<1>2. \A e \in Entries' : e[1] # "fold"
  BY <1>1
<1>3. \A i \in ToSet(work') : <<"line", i>> \in Entries'
  BY <1>1
<1> QED
  BY <1>1, <1>2, <1>3 DEF WindowAccounted

LEMMA ShownWholeKeeps == ASSUME ReduceInv, ShownWhole PROVE ReduceInv'
<1>1. /\ stage = "branch" /\ Len(work) < ShortTrace /\ body' = AsLines(work)
      /\ stage' = "bound" /\ work' = work
      /\ UNCHANGED <<input, fed, held, afterLeft, emitted, dropped>>
  BY DEF ShownWhole
<1>2. /\ work \in Seq(Nat) /\ Grows(work) /\ work \in Seq(1..Len(input)) /\ Len(work) \in Nat
      /\ ShortTrace \in Nat
  BY <1>1, SelectedFacts
<1>3. work # <<>>
  BY <1>1 DEF ReduceInv, WorkSound
<1>4. WindowAccounted' /\ body' \in Seq(Entries')
  BY <1>1, <1>2, LinesAccount
<1>5. ~Clustered'
  BY <1>1, <1>2 DEF Clustered
<1>6. ClustersAccounted' /\ DecisionsAnnounced' /\ ErrorsShown'
  BY <1>1, <1>5 DEF ClustersAccounted, DecisionsAnnounced, ErrorsShown
<1> QED
  BY <1>1, <1>2, <1>3, <1>4, <1>6, StageMoves

(* Some of a list's places have a first and a last. *)
LEMMA FirstAndLast ==
    ASSUME NEW n \in Nat, NEW S \in SUBSET (1..n), S # {}
    PROVE  /\ \E k \in S : \A j \in S : k <= j
           /\ \E k \in S : \A j \in S : k >= j
<1>1. \E k \in S : \A j \in S : k <= j
  <2>1. S \in SUBSET Nat
    OBVIOUS
  <2> QED
    BY <2>1, LeastTurn
<1>2. \E k \in S : \A j \in S : k >= j
  <2> DEFINE T == {n - k : k \in S}
  <2>1. T \in SUBSET Nat /\ T # {}
    <3>1. \A k \in S : n - k \in Nat
      OBVIOUS
    <3>2. PICK k \in S : TRUE
      OBVIOUS
    <3>3. n - k \in T
      OBVIOUS
    <3> QED
      BY <3>1, <3>3
  <2> HIDE DEF T
  <2>2. PICK x \in T : \A y \in T : x <= y
    BY <2>1, LeastTurn
  <2>3. PICK k \in S : x = n - k
    BY DEF T
  <2>4. ASSUME NEW j \in S PROVE k >= j
    <3>1. n - j \in T
      BY DEF T
    <3> QED
      BY <2>2, <2>3, <3>1
  <2> QED
    BY <2>4
<1> QED
  BY <1>1, <1>2

LEMMA BranchOnErrorKeeps == ASSUME ReduceInv, BranchOnError PROVE ReduceInv'
<1>1. /\ stage = "branch" /\ Len(work) >= ShortTrace
      /\ UNCHANGED <<input, fed, held, afterLeft, emitted, body, dropped>>
  BY DEF BranchOnError
<1>2. /\ work \in Seq(Nat) /\ Grows(work) /\ work \in Seq(1..Len(input)) /\ Len(work) \in Nat
      /\ DOMAIN work = 1..Len(work) /\ ShortTrace \in Nat
      /\ ErrorContext \in Nat /\ ErrorTrailing \in Nat
  BY <1>1, SelectedFacts
<1>3. work # <<>> /\ body \in Seq(Entries)
  BY <1>1 DEF ReduceInv, WorkSound
<1>4. Entries' = Entries /\ body' \in Seq(Entries')
  BY <1>1, <1>3 DEF Entries
<1>5. CASE Errors # {}
  <2>1. work' = ErrorWindow /\ stage' = "fold"
    BY <1>5 DEF BranchOnError
  <2>2. Errors \in SUBSET (1..Len(work))
    BY <1>2 DEF Errors
  <2>3. /\ FirstError \in Errors /\ \A j \in Errors : FirstError <= j
        /\ LastError \in Errors /\ \A j \in Errors : LastError >= j
    BY <1>2, <1>5, <2>2, FirstAndLast DEF FirstError, LastError
  <2> DEFINE from == IF FirstError > ErrorContext THEN FirstError - ErrorContext ELSE 1
             to == IF LastError + ErrorTrailing < Len(work) THEN LastError + ErrorTrailing
                   ELSE Len(work)
  <2>4. /\ from \in Int /\ to \in Int /\ 1 <= from /\ from <= FirstError
        /\ LastError <= to /\ to <= Len(work) /\ FirstError <= LastError
        /\ FirstError \in Int /\ LastError \in Int
    BY <1>2, <2>2, <2>3
  <2>5. work' = SubSeq(work, from, to)
    BY <2>1 DEF ErrorWindow
  <2> HIDE DEF from, to
  <2>6. from <= to + 1
    BY <2>4
  <2>7. Grows(work')
    BY <1>2, <2>4, <2>5, <2>6, PartGrows
  <2>8. work' \in Seq(1..Len(input)) /\ ToSet(work') = {work[k] : k \in from..to}
    <3> DEFINE S == 1..Len(input)
    <3>1. work \in Seq(S)
      BY <1>2
    <3> HIDE DEF S
    <3>2. SubSeq(work, from, to) \in Seq(S)
      BY <3>1, <2>4, <2>6, PartIs
    <3>3. ToSet(SubSeq(work, from, to)) = {work[k] : k \in from..to}
      BY <3>1, <2>4, <2>6, PartIs
    <3> QED
      BY <3>2, <3>3, <2>5, Zenon DEF S
  <2>9. ToSet(work') \subseteq ToSet(work)
    <3>1. \A k \in from..to : k \in DOMAIN work
      BY <1>2, <2>4
    <3> QED
      BY <2>8, <3>1 DEF ToSet
  <2>10. ASSUME NEW i \in ToSet(work), Level(i) = "ERROR" PROVE i \in ToSet(work')
    <3>1. PICK k \in DOMAIN work : i = work[k]
      BY DEF ToSet
    <3>2. k \in Errors
      BY <2>10, <3>1 DEF Errors
    <3>3. k \in from..to
      BY <2>2, <2>3, <2>4, <3>2
    <3> QED
      BY <2>8, <3>1, <3>3
  <2>11. Errors' # {} /\ work' # <<>>
    <3>1. work[FirstError] \in ToSet(work) /\ Level(work[FirstError]) = "ERROR"
      BY <1>2, <2>2, <2>3 DEF Errors, ToSet
    <3>2. PICK k \in DOMAIN work' : work'[k] = work[FirstError]
      BY <2>10, <3>1 DEF ToSet
    <3>3. Level(work[k])' = "ERROR"
      BY <1>1, <3>1, <3>2 DEF Level
    <3>4. k \in Errors'
      BY <3>3 DEF Errors
    <3>5. DOMAIN <<>> = {}
      OBVIOUS
    <3> QED
      BY <3>2, <3>4, <3>5
  <2>12. WindowAccounted' /\ ClustersAccounted' /\ DecisionsAnnounced' /\ ErrorsShown'
    BY <2>1 DEF WindowAccounted, ClustersAccounted, DecisionsAnnounced, ErrorsShown
  <2> QED
    BY <1>1, <1>4, <2>1, <2>7, <2>8, <2>9, <2>10, <2>11, <2>12, StageMoves
<1>6. CASE ~(Errors # {})
  <2>1. work' = work /\ stage' = "cluster"
    BY <1>6 DEF BranchOnError
  <2>2. Clustered'
    <3>1. Errors' = Errors
      BY <1>1, <2>1 DEF Errors, Level
    <3> QED
      BY <1>1, <1>6, <2>1, <3>1 DEF Clustered
  <2>3. WindowAccounted' /\ ClustersAccounted' /\ DecisionsAnnounced' /\ ErrorsShown'
    BY <2>1 DEF WindowAccounted, ClustersAccounted, DecisionsAnnounced, ErrorsShown
  <2> QED
    BY <1>1, <1>2, <1>3, <1>4, <2>1, <2>2, <2>3, StageMoves
<1> QED
  BY <1>5, <1>6

LEMMA CountIs ==
    ASSUME NEW t, Len(work) \in Nat, DOMAIN work = 1..Len(work)
    PROVE  CountOf(t) \in Nat
<1>1. IsFiniteSet(1..Len(work))
  BY FS_Interval
<1>2. {k \in DOMAIN work : Template(work[k]) = t} \in SUBSET (1..Len(work))
  OBVIOUS
<1>3. IsFiniteSet({k \in DOMAIN work : Template(work[k]) = t})
  BY <1>1, <1>2, FS_Subset
<1> QED
  BY <1>3, FS_CardinalityType DEF CountOf

LEMMA FoldKeeps == ASSUME ReduceInv, Fold PROVE ReduceInv'
<1> DEFINE kept == {k \in DOMAIN work : Folds(work[k]) =>
                      \A j \in 1..(k - 1) :
                          ~(Folds(work[j]) /\ Template(work[j]) = Template(work[k]))}
           entry(i) == IF Folds(i) THEN <<"fold", i, CountOf(Template(i)) - 1>>
                       ELSE <<"line", i>>
           shown == Only(work, kept)
<1>1. /\ stage = "fold" /\ stage' = "bound"
      /\ body' = (IF Len(work) < RepeatThreshold THEN AsLines(work)
                  ELSE [n \in DOMAIN shown |-> entry(shown[n])])
      /\ UNCHANGED <<input, fed, held, afterLeft, emitted, work, dropped>>
  BY DEF Fold
<1>2. /\ work \in Seq(Nat) /\ Grows(work) /\ work \in Seq(1..Len(input)) /\ Len(work) \in Nat
      /\ DOMAIN work = 1..Len(work)
  BY <1>1, SelectedFacts
<1>3. work # <<>> /\ Errors # {}
  BY <1>1 DEF ReduceInv, WorkSound
<1>4. ~Clustered'
  <2>1. Errors' = Errors
    BY <1>1 DEF Errors, Level
  <2> QED
    BY <1>3, <2>1 DEF Clustered
<1>5. ClustersAccounted' /\ DecisionsAnnounced' /\ ErrorsShown'
  BY <1>1, <1>4 DEF ClustersAccounted, DecisionsAnnounced, ErrorsShown
<1>6. WindowAccounted' /\ body' \in Seq(Entries')
  <2>1. CASE Len(work) < RepeatThreshold
    BY <2>1, <1>1, <1>2, LinesAccount
  <2>2. CASE ~(Len(work) < RepeatThreshold)
    <3>1. body' = [n \in DOMAIN shown |-> entry(shown[n])]
      BY <2>2, <1>1
    <3>2. kept \in SUBSET (1..Len(work))
      BY <1>2
    <3> HIDE DEF kept
    <3>3. /\ shown \in Seq(Nat) /\ ToSet(shown) = {work[k] : k \in kept}
      BY <1>2, <3>2, OnlyIs
    <3>4. Len(shown) \in Nat /\ DOMAIN shown = 1..Len(shown)
      BY <3>3, LenProperties
    <3> HIDE DEF shown, entry
    <3>5. body' \in Seq(Entries')
      <4>1. DOMAIN body' = 1..Len(shown) /\ body' = [k \in 1..Len(shown) |-> body'[k]]
        BY <3>1, <3>4
      <4> QED
        BY <4>1, <3>4, ListIs DEF Entries
    <3>6. Entries' = {entry(work[k]) : k \in kept}
      <4>1. Entries' = {entry(shown[n]) : n \in DOMAIN shown}
        BY <3>1 DEF Entries, ToSet
      <4>2. \A k \in kept : \E n \in DOMAIN shown : shown[n] = work[k]
        BY <3>3 DEF ToSet
      <4>3. \A n \in DOMAIN shown : \E k \in kept : shown[n] = work[k]
        BY <3>3 DEF ToSet
      <4>4. ASSUME NEW e \in Entries' PROVE \E k \in kept : e = entry(work[k])
        BY <4>1, <4>3
      <4>5. ASSUME NEW k \in kept PROVE entry(work[k]) \in Entries'
        BY <4>1, <4>2
      <4> QED
        BY <4>4, <4>5
    <3>7. ASSUME NEW k \in kept
          PROVE  /\ ~Folds(work[k]) => entry(work[k]) = <<"line", work[k]>>
                 /\ Folds(work[k]) => entry(work[k])
                        = <<"fold", work[k], CountOf(Template(work[k])) - 1>>
                 /\ entry(work[k])[1] = "fold" => Folds(work[k])
                 /\ entry(work[k])[2] = work[k]
      BY DEF entry
    <3>8. ASSUME NEW i \in ToSet(work), NEW a \in kept, NEW b \in kept,
                 entry(work[a])[1] = "fold", Template(work[a]) = Template(i),
                 entry(work[b])[1] = "fold", Template(work[b]) = Template(i)
          PROVE  a = b /\ entry(work[a])[3] + 1 = CountOf(Template(i))
      <4>1. Folds(work[a]) /\ Folds(work[b])
        BY <3>7, <3>8
      <4>2. a \in 1..Len(work) /\ b \in 1..Len(work)
        BY <3>2
      <4>3. ~(a < b)
        <5>1. a < b => a \in 1..(b - 1)
          BY <4>2, <1>2
        <5> QED
          BY <4>1, <5>1, <3>8 DEF kept
      <4>4. ~(b < a)
        <5>1. b < a => b \in 1..(a - 1)
          BY <4>2, <1>2
        <5> QED
          BY <4>1, <5>1, <3>8 DEF kept
      <4>5. entry(work[a]) = <<"fold", work[a], CountOf(Template(work[a])) - 1>>
        BY <3>7, <4>1
      <4>6. entry(work[a])[3] = CountOf(Template(i)) - 1
        BY <4>5, <3>8
      <4>7. CountOf(Template(i)) \in Nat
        BY <1>2, CountIs
      <4> QED
        BY <4>2, <4>3, <4>4, <4>6, <4>7
    <3>9. ASSUME NEW i \in ToSet(work)
          PROVE  \/ <<"line", i>> \in Entries'
                 \/ /\ ~Asks2(i)
                    /\ \E e \in Entries' : e[1] = "fold" /\ Template(e[2]) = Template(i)
      <4>1. PICK k \in DOMAIN work : i = work[k]
        BY DEF ToSet
      <4>2. CASE ~Folds(i)
        <5>1. k \in kept
          BY <4>1, <4>2 DEF kept
        <5> QED
          BY <4>1, <4>2, <5>1, <3>6, <3>7
      <4>3. CASE Folds(i)
        <5> DEFINE S == {j \in 1..Len(work) : Folds(work[j]) /\ Template(work[j]) = Template(i)}
        <5>1. S # {}
          BY <4>1, <4>3, <1>2
        <5>2. PICK j \in S : \A l \in S : j <= l
          BY <5>1, <1>2, FirstAndLast
        <5>3. \A l \in 1..(j - 1) : ~(Folds(work[l]) /\ Template(work[l]) = Template(work[j]))
          BY <5>2, <1>2
        <5>4. j \in kept
          BY <5>3, <1>2 DEF kept
        <5>5. /\ entry(work[j]) = <<"fold", work[j], CountOf(Template(work[j])) - 1>>
              /\ Template(work[j]) = Template(i)
          BY <5>4, <3>7
        <5>6. entry(work[j]) \in Entries'
          BY <5>4, <3>6
        <5>7. entry(work[j])[1] = "fold" /\ entry(work[j])[2] = work[j]
          BY <5>5
        <5>8. ~Asks2(i)
          BY <4>3 DEF Folds
        <5> QED
          BY <5>5, <5>6, <5>7, <5>8
      <4> QED
        BY <4>2, <4>3
    <3>10. ASSUME NEW i \in ToSet(work), NEW e \in Entries', NEW f \in Entries',
                  e[1] = "fold", Template(e[2]) = Template(i),
                  f[1] = "fold", Template(f[2]) = Template(i)
           PROVE  e = f /\ CountOf(Template(i)) = e[3] + 1
      <4>1. PICK a \in kept, b \in kept : e = entry(work[a]) /\ f = entry(work[b])
        BY <3>6
      <4>2. e[2] = work[a] /\ f[2] = work[b]
        BY <4>1, <3>7
      <4>3. a = b /\ entry(work[a])[3] + 1 = CountOf(Template(i))
        BY <4>1, <4>2, <3>8, <3>10
      <4> QED
        BY <4>1, <4>3
    <3>11. /\ \A i : Template(i)' = Template(i) /\ Asks2(i)' = Asks2(i)
                     /\ CountOf(Template(i))' = CountOf(Template(i))
           /\ ToSet(work)' = ToSet(work)
      BY <1>1 DEF Template, Asks2, Level, CountOf
    <3>12. WindowAccounted'
      BY <3>9, <3>10, <3>11 DEF WindowAccounted
    <3> QED
      BY <3>5, <3>12
  <2> QED
    BY <2>1, <2>2
<1>7. \A i \in ToSet(work) : Level(i) = "ERROR" => i \in ToSet(work')
  BY <1>1
<1> HIDE DEF kept, entry, shown
<1> QED
  BY <1>1, <1>2, <1>3, <1>5, <1>6, <1>7, StageMoves

(* A list cut to its bound and what the cut left out make the list. *)
LEMMA BoundIs ==
    ASSUME NEW s \in Seq(Nat), Grows(s)
    PROVE  LET b == BoundHeadAndTail(s) IN
           /\ b.kept \in Seq(Nat) /\ Grows(b.kept) /\ b.omitted \in Nat
           /\ Len(b.kept) \in Nat /\ Len(s) = Len(b.kept) + b.omitted
<1> DEFINE b == BoundHeadAndTail(s)
           half == MaxDecisions \div 2
           rest == MaxDecisions - MaxDecisions \div 2
<1>1. Len(s) \in Nat /\ MaxDecisions \in Nat
  BY LenProperties, ReduceAssumption DEF ReduceAssumption
<1>2. CASE MaxDecisions = 0 \/ Len(s) <= MaxDecisions
  <2>1. b = [kept |-> s, omitted |-> 0]
    BY <1>2 DEF BoundHeadAndTail
  <2> QED
    BY <1>1, <2>1
<1>3. CASE ~(MaxDecisions = 0 \/ Len(s) <= MaxDecisions)
  <2>1. /\ half \in Nat /\ rest \in Nat /\ half + rest = MaxDecisions
        /\ half < Len(s) /\ rest < Len(s) /\ half + rest < Len(s)
    BY <1>1, <1>3
  <2>2. b = [kept |-> SubSeq(s, 1, half) \o LastOf(s, rest),
             omitted |-> Len(s) - MaxDecisions]
    BY <1>3 DEF BoundHeadAndTail
  <2> HIDE DEF b, half, rest
  <2>3. LastOf(s, rest) = SubSeq(s, Len(s) - rest + 1, Len(s))
    BY <1>1, <2>1 DEF LastOf
  <2> DEFINE from == Len(s) - rest + 1
             head == SubSeq(s, 1, half)
             tail == SubSeq(s, from, Len(s))
  <2>4. /\ from \in Int /\ 1 <= from /\ from <= Len(s) + 1 /\ half < from
        /\ Len(s) - from + 1 = rest
    BY <1>1, <2>1
  <2>5. /\ head \in Seq(Nat) /\ Grows(head) /\ Len(head) = half
        /\ ToSet(head) = {s[k] : k \in 1..half}
    BY <1>1, <2>1, PartIs, PartGrows
  <2> HIDE DEF from
  <2>6. /\ tail \in Seq(Nat) /\ Grows(tail) /\ Len(tail) = rest
        /\ ToSet(tail) = {s[k] : k \in from..Len(s)}
    BY <1>1, <2>4, PartIs, PartGrows
  <2> HIDE DEF head, tail
  <2>7. \A x \in ToSet(head), y \in ToSet(tail) : x < y
    <3>1. SUFFICES ASSUME NEW k \in 1..half, NEW l \in from..Len(s) PROVE s[k] < s[l]
      BY <2>5, <2>6
    <3>2. k \in DOMAIN s /\ l \in DOMAIN s /\ k < l
      BY <1>1, <2>1, <2>4, LenProperties
    <3> QED
      BY <3>2 DEF Grows
  <2>8. /\ head \o tail \in Seq(Nat) /\ Grows(head \o tail)
        /\ Len(head \o tail) = Len(head) + Len(tail)
    BY <2>5, <2>6, <2>7, ConcatGrows
  <2>9. Len(head \o tail) = half + rest
    BY <2>5, <2>6, <2>8, Zenon
  <2>10. b.kept = head \o tail /\ b.omitted = Len(s) - MaxDecisions
    BY <2>2, <2>3 DEF head, tail, from
  <2>11. Len(b.kept) = MaxDecisions
    BY <2>1, <2>9, <2>10, Zenon
  <2>12. b.kept \in Seq(Nat) /\ Grows(b.kept)
    BY <2>8, <2>10, Zenon
  <2>13. b.omitted \in Nat /\ Len(b.kept) \in Nat /\ Len(s) = Len(b.kept) + b.omitted
    BY <1>1, <1>3, <2>10, <2>11
  <2> QED
    BY <2>12, <2>13, Zenon DEF b
<1> QED
  BY <1>2, <1>3

(* The lines of a list, each marked, are as many as the list is long. *)
LEMMA MarkedAre ==
    ASSUME NEW s \in Seq(Nat), Grows(s), NEW mark
    PROVE  Cardinality({<<mark, x>> : x \in ToSet(s)}) = Len(s)
<1> DEFINE T == {<<mark, x>> : x \in ToSet(s)}
           f == [x \in ToSet(s) |-> <<mark, x>>]
<1>1. IsFiniteSet(ToSet(s)) /\ Cardinality(ToSet(s)) = Len(s)
  BY GrowsOnce
<1>2. f \in Bijection(ToSet(s), T)
  BY DEF Bijection, Injection, IsInjective, Surjection
<1>3. Cardinality(T) = Cardinality(ToSet(s))
  BY <1>1, <1>2, FS_Bijection DEF ExistsBijection
<1> QED
  BY <1>1, <1>3

(* The decision entries: one for each line kept, and the number left out. *)
LEMMA DecisionEntriesAre ==
    ASSUME Decisions \in Seq(Nat), Grows(Decisions)
    PROVE  LET b == BoundHeadAndTail(Decisions) IN
           /\ DecisionEntries \in Seq(ToSet(DecisionEntries))
           /\ \A e \in ToSet(DecisionEntries) : e[1] \in {"decision", "omitted"}
           /\ {e \in ToSet(DecisionEntries) : e[1] = "decision"}
                = {<<"decision", x>> : x \in ToSet(b.kept)}
           /\ b.omitted # 0 => <<"omitted", b.omitted>> \in ToSet(DecisionEntries)
<1> DEFINE b == BoundHeadAndTail(Decisions)
           n == Len(b.kept)
           half == n \div 2
           entry(k) == <<"decision", b.kept[k]>>
           left == <<"omitted", b.omitted>>
           D == DecisionEntries
<1>1. b.kept \in Seq(Nat) /\ n \in Nat /\ half \in 0..n /\ b.omitted \in Nat
  <2>1. b.kept \in Seq(Nat) /\ n \in Nat /\ b.omitted \in Nat
    BY BoundIs
  <2> HIDE DEF n
  <2> QED
    BY <2>1
<1>2. D = IF b.omitted = 0 THEN [k \in 1..n |-> entry(k)]
          ELSE [k \in 1..(n + 1) |->
                  CASE k <= half -> entry(k)
                    [] k = half + 1 -> left
                    [] OTHER -> entry(k - 1)]
  BY DEF DecisionEntries
<1>3. DOMAIN b.kept = 1..n
  BY <1>1, LenProperties
<1> DEFINE kept == b.kept
           omitted == b.omitted
<1>4. \A k \in 1..n : entry(k)[1] = "decision" /\ entry(k) = <<"decision", kept[k]>>
  OBVIOUS
<1>5. left[1] = "omitted" /\ left = <<"omitted", omitted>>
  OBVIOUS
<1>6. {<<"decision", x>> : x \in ToSet(kept)} = {entry(k) : k \in 1..n}
  BY <1>3 DEF ToSet
<1> HIDE DEF entry, left, D, n, half, b
<1>7. CASE omitted = 0
  <2>1. D = [k \in 1..n |-> entry(k)]
    BY <1>2, <1>7
  <2>2. DOMAIN D = 1..n /\ \A k \in 1..n : D[k] = entry(k)
    BY <2>1
  <2>3. D = [k \in 1..n |-> D[k]]
    BY <2>1
  <2>4. ToSet(D) = {entry(k) : k \in 1..n}
    BY <2>2 DEF ToSet
  <2>5. D \in Seq(ToSet(D))
    BY <1>1, <2>2, <2>3, ListIs
  <2> QED
    BY <1>4, <1>6, <1>7, <2>4, <2>5 DEF D, b
<1>8. CASE omitted # 0
  <2>1. D = [k \in 1..(n + 1) |->
                  CASE k <= half -> entry(k)
                    [] k = half + 1 -> left
                    [] OTHER -> entry(k - 1)]
    BY <1>2, <1>8
  <2>2. DOMAIN D = 1..(n + 1) /\ D = [k \in 1..(n + 1) |-> D[k]]
    BY <2>1
  <2>3. D \in Seq(ToSet(D))
    <3>1. n + 1 \in Nat
      BY <1>1
    <3> QED
      BY <2>2, <3>1, ListIs, Zenon
  <2>4. D[half + 1] = left /\ half + 1 \in 1..(n + 1)
    BY <1>1, <2>1
  <2>5. ASSUME NEW k \in 1..(n + 1), k # half + 1
        PROVE  \E m \in 1..n : D[k] = entry(m)
    <3>1. CASE k <= half
      <4>1. k \in 1..n /\ D[k] = entry(k)
        BY <3>1, <1>1, <2>1
      <4> QED
        BY <4>1
    <3>2. CASE ~(k <= half)
      <4>1. k - 1 \in 1..n
        BY <3>2, <2>5, <1>1
      <4>2. D[k] = entry(k - 1)
        BY <3>2, <2>5, <2>1
      <4> QED
        BY <4>1, <4>2
    <3> QED
      BY <3>1, <3>2
  <2>6. ASSUME NEW m \in 1..n PROVE \E k \in 1..(n + 1) : D[k] = entry(m)
    <3>1. CASE m <= half
      <4>1. m \in 1..(n + 1) /\ D[m] = entry(m)
        BY <3>1, <1>1, <2>1
      <4> QED
        BY <4>1
    <3>2. CASE ~(m <= half)
      <4>1. m + 1 \in 1..(n + 1) /\ ~(m + 1 <= half) /\ m + 1 # half + 1 /\ (m + 1) - 1 = m
        BY <3>2, <1>1
      <4>2. D[m + 1] = entry((m + 1) - 1)
        BY <4>1, <2>1
      <4> QED
        BY <4>1, <4>2
    <3> QED
      BY <3>1, <3>2
  <2>7. ASSUME NEW e \in ToSet(D) PROVE e = left \/ e \in {entry(m) : m \in 1..n}
    BY <2>2, <2>4, <2>5 DEF ToSet
  <2>8. left \in ToSet(D)
    BY <2>2, <2>4 DEF ToSet
  <2>9. ASSUME NEW m \in 1..n PROVE entry(m) \in ToSet(D)
    BY <2>2, <2>6 DEF ToSet
  <2>10. {e \in ToSet(D) : e[1] = "decision"} = {entry(m) : m \in 1..n}
    BY <1>4, <1>5, <2>7, <2>9
  <2>11. \A e \in ToSet(D) : e[1] \in {"decision", "omitted"}
    BY <1>4, <1>5, <2>7
  <2> QED
    BY <1>5, <1>6, <2>3, <2>8, <2>10, <2>11 DEF D, b
<1> QED
  BY <1>7, <1>8

(* The cluster entries: one for each template, by its first line. *)
LEMMA ClustersAre ==
    ASSUME work \in Seq(Nat), Len(work) \in Nat, DOMAIN work = 1..Len(work)
    PROVE  /\ Clusters \in Seq(ToSet(Clusters))
           /\ \A e \in ToSet(Clusters) : e[1] = "template"
           /\ \A i \in ToSet(work) : \E e \in ToSet(Clusters) :
                 /\ Template(e[2]) = Template(i) /\ e[3] = CountOf(Template(i))
                 /\ Asks2(i) => e[4] # <<>>
                 /\ \A f \in ToSet(Clusters) : Template(f[2]) = Template(i) => f = e
<1> DEFINE firsts == {k \in DOMAIN work :
                        \A j \in 1..(k - 1) : Template(work[j]) # Template(work[k])}
           seen == Only(work, firsts)
           entry(x) == <<"template", x, CountOf(Template(x)), Examples(Template(x))>>
           C == Clusters
<1>1. C = [n \in DOMAIN seen |-> entry(seen[n])]
  BY DEF Clusters
<1>2. firsts \in SUBSET (1..Len(work))
  OBVIOUS
<1>3. /\ seen \in Seq(Nat) /\ ToSet(seen) = {work[k] : k \in firsts}
  <2> HIDE DEF firsts
  <2> QED
    BY <1>2, OnlyIs
<1>4. \A x : /\ entry(x)[1] = "template" /\ entry(x)[2] = x
             /\ entry(x)[3] = CountOf(Template(x)) /\ entry(x)[4] = Examples(Template(x))
  OBVIOUS
<1> HIDE DEF firsts, seen, entry, C
<1>5. Len(seen) \in Nat /\ DOMAIN seen = 1..Len(seen)
  BY <1>3, LenProperties
<1>6. C \in Seq(ToSet(C))
  <2>1. DOMAIN C = 1..Len(seen) /\ C = [k \in 1..Len(seen) |-> C[k]]
    BY <1>1, <1>5
  <2> QED
    BY <2>1, <1>5, ListIs
<1>7. ASSUME NEW e \in ToSet(C) PROVE \E k \in firsts : e = entry(work[k])
  <2>1. PICK n \in DOMAIN seen : e = entry(seen[n])
    BY <1>1 DEF ToSet
  <2>2. seen[n] \in ToSet(seen)
    BY DEF ToSet
  <2> QED
    BY <2>1, <2>2, <1>3
<1>8. ASSUME NEW k \in firsts PROVE entry(work[k]) \in ToSet(C)
  <2>1. PICK n \in DOMAIN seen : seen[n] = work[k]
    BY <1>3 DEF ToSet
  <2> QED
    BY <2>1, <1>1 DEF ToSet
<1>9. ASSUME NEW a \in firsts, NEW b \in firsts, Template(work[a]) = Template(work[b])
      PROVE  a = b
  <2>1. a \in 1..Len(work) /\ b \in 1..Len(work)
    BY <1>2
  <2>2. ~(a < b)
    <3>1. a < b => a \in 1..(b - 1)
      BY <2>1
    <3> QED
      BY <3>1, <1>9 DEF firsts
  <2>3. ~(b < a)
    <3>1. b < a => b \in 1..(a - 1)
      BY <2>1
    <3> QED
      BY <3>1, <1>9 DEF firsts
  <2> QED
    BY <2>1, <2>2, <2>3
<1>10. ASSUME NEW i \in ToSet(work), Asks2(i)
       PROVE  Examples(Template(i)) # <<>>
  <2> DEFINE ks == {k \in DOMAIN work : Template(work[k]) = Template(i)}
             own == Only(work, ks)
             m == IF Len(own) < 3 THEN Len(own) ELSE 3
  <2>1. PICK k \in DOMAIN work : i = work[k]
    BY DEF ToSet
  <2>2. k \in ks /\ ks \in SUBSET (1..Len(work))
    BY <2>1
  <2>3. Examples(Template(i)) =
            IF Len(own) >= RareThreshold /\ Len(own) >= BoilerplateCount
                 /\ ~(\E l \in DOMAIN own : Asks2(own[l]))
            THEN <<>> ELSE SubSeq(own, 1, m)
    BY DEF Examples
  <2> HIDE DEF ks
  <2>4. own \in Seq(Nat) /\ ToSet(own) = {work[l] : l \in ks}
    BY <2>2, OnlyIs
  <2> HIDE DEF own
  <2>5. PICK l \in DOMAIN own : own[l] = i
    BY <2>1, <2>2, <2>4 DEF ToSet
  <2>6. Examples(Template(i)) = SubSeq(own, 1, m)
    BY <2>3, <2>5, <1>10
  <2>7. DOMAIN own = 1..Len(own) /\ Len(own) \in Nat
    BY <2>4, LenProperties
  <2>8. Len(own) >= 1
    BY <2>5, <2>7
  <2>9. m \in Int /\ 1 <= m /\ m <= Len(own)
    BY <2>7, <2>8
  <2> HIDE DEF m
  <2>10. Len(SubSeq(own, 1, m)) = m - 1 + 1
    BY <2>4, <2>9, PartIs
  <2>11. Len(SubSeq(own, 1, m)) # 0
    BY <2>9, <2>10
  <2>12. Len(<<>>) = 0
    OBVIOUS
  <2> QED
    BY <2>6, <2>11, <2>12, Zenon
<1>11. ASSUME NEW i \in ToSet(work)
       PROVE  \E e \in ToSet(C) :
                 /\ Template(e[2]) = Template(i) /\ e[3] = CountOf(Template(i))
                 /\ Asks2(i) => e[4] # <<>>
                 /\ \A f \in ToSet(C) : Template(f[2]) = Template(i) => f = e
  <2>1. PICK k \in DOMAIN work : i = work[k]
    BY DEF ToSet
  <2> DEFINE S == {j \in 1..Len(work) : Template(work[j]) = Template(i)}
  <2>2. S # {}
    BY <2>1
  <2>3. PICK j \in S : \A l \in S : j <= l
    BY <2>2, FirstAndLast
  <2>4. j \in firsts
    <3>1. \A l \in 1..(j - 1) : Template(work[l]) # Template(work[j])
      BY <2>3
    <3> QED
      BY <3>1 DEF firsts
  <2>5. entry(work[j]) \in ToSet(C)
    BY <2>4, <1>8
  <2>6. Template(work[j]) = Template(i)
    OBVIOUS
  <2>7. /\ entry(work[j])[2] = work[j] /\ entry(work[j])[3] = CountOf(Template(i))
        /\ entry(work[j])[4] = Examples(Template(i))
    BY <2>6, <1>4
  <2>8. ASSUME NEW f \in ToSet(C), Template(f[2]) = Template(i) PROVE f = entry(work[j])
    <3>1. PICK a \in firsts : f = entry(work[a])
      BY <1>7
    <3>2. Template(work[a]) = Template(work[j])
      BY <3>1, <2>6, <2>8, <1>4
    <3> QED
      BY <3>1, <3>2, <2>4, <1>9
  <2> QED
    BY <2>5, <2>6, <2>7, <2>8, <1>10
<1> QED
  BY <1>4, <1>6, <1>7, <1>11 DEF C

LEMMA ClusterKeeps == ASSUME ReduceInv, Cluster PROVE ReduceInv'
<1> DEFINE ends == IF Len(work) > 1 THEN <<work[1], work[Len(work)]>> ELSE <<work[1]>>
           L == AsLines(ends)
           D == DecisionEntries
           C == Clusters
           b == BoundHeadAndTail(Decisions)
<1>1. /\ stage = "cluster" /\ stage' = "bound" /\ body' = (L \o D) \o C
      /\ UNCHANGED <<input, fed, held, afterLeft, emitted, work, dropped>>
  BY DEF Cluster
<1>2. /\ work \in Seq(Nat) /\ Grows(work) /\ work \in Seq(1..Len(input)) /\ Len(work) \in Nat
      /\ DOMAIN work = 1..Len(work) /\ \A k \in DOMAIN work : work[k] \in Nat
  <2>1. /\ work \in Seq(Nat) /\ Grows(work) /\ work \in Seq(1..Len(input)) /\ Len(work) \in Nat
        /\ DOMAIN work = 1..Len(work)
    BY <1>1, SelectedFacts
  <2> QED
    BY <2>1, ElementOfSeq
<1>3. work # <<>> /\ Clustered
  BY <1>1 DEF ReduceInv, WorkSound
<1>4. /\ \A i : Template(i)' = Template(i) /\ Asks2(i)' = Asks2(i) /\ Level(i)' = Level(i)
               /\ CountOf(Template(i))' = CountOf(Template(i))
      /\ ToSet(work)' = ToSet(work) /\ Errors' = Errors /\ Decisions' = Decisions
  BY <1>1 DEF Template, Asks2, Level, CountOf, Errors, Decisions
<1>5. Clustered' /\ WindowAccounted' /\ ErrorsShown'
  <2>1. Clustered'
    BY <1>1, <1>3, <1>4 DEF Clustered
  <2> QED
    BY <2>1, <1>1 DEF WindowAccounted, ErrorsShown
<1>6. ends \in Seq(Nat)
  <2>1. 1 \in DOMAIN work /\ Len(work) \in DOMAIN work
    <3>1. Len(work) # 0
      BY <1>2, <1>3, EmptySeq
    <3> QED
      BY <1>2, <3>1
  <2> QED
    BY <1>2, <2>1
<1> HIDE DEF ends
<1>7. L \in Seq(ToSet(L)) /\ \A e \in ToSet(L) : e[1] = "line"
  BY <1>6, AsLinesIs
<1>8. Decisions \in Seq(Nat) /\ Grows(Decisions)
  <2> DEFINE ks == {k \in DOMAIN work : input[work[k]].decides}
  <2>1. ks \in SUBSET (1..Len(work))
    BY <1>2
  <2>2. Decisions = Only(work, ks)
    BY DEF Decisions
  <2> HIDE DEF ks
  <2>3. Only(work, ks) \in Seq(Nat)
    BY <1>2, <2>1, OnlyIs
  <2> QED
    BY <1>2, <2>1, <2>2, <2>3, OnlyGrows
<1>9. /\ D \in Seq(ToSet(D)) /\ \A e \in ToSet(D) : e[1] \in {"decision", "omitted"}
      /\ {e \in ToSet(D) : e[1] = "decision"} = {<<"decision", x>> : x \in ToSet(b.kept)}
      /\ b.omitted # 0 => <<"omitted", b.omitted>> \in ToSet(D)
  BY <1>8, DecisionEntriesAre
<1>10. /\ C \in Seq(ToSet(C)) /\ \A e \in ToSet(C) : e[1] = "template"
       /\ \A i \in ToSet(work) : \E e \in ToSet(C) :
             /\ Template(e[2]) = Template(i) /\ e[3] = CountOf(Template(i))
             /\ Asks2(i) => e[4] # <<>>
             /\ \A f \in ToSet(C) : Template(f[2]) = Template(i) => f = e
  BY <1>2, ClustersAre
<1>11. /\ b.kept \in Seq(Nat) /\ Grows(b.kept) /\ b.omitted \in Nat /\ Len(b.kept) \in Nat
       /\ Len(Decisions) = Len(b.kept) + b.omitted
  BY <1>8, BoundIs
<1> HIDE DEF L, D, C, b
<1>12. body' \in Seq(Entries') /\ Entries' = (ToSet(L) \cup ToSet(D)) \cup ToSet(C)
  <2>1. L \o D \in Seq(ToSet(L \o D)) /\ ToSet(L \o D) = ToSet(L) \cup ToSet(D)
    BY <1>7, <1>9, JoinedIs, Zenon
  <2>2. /\ (L \o D) \o C \in Seq(ToSet((L \o D) \o C))
        /\ ToSet((L \o D) \o C) = ToSet(L \o D) \cup ToSet(C)
    BY <2>1, <1>10, JoinedIs, Zenon
  <2> QED
    BY <2>1, <2>2, <1>1, Zenon DEF Entries
<1>13. {e \in Entries' : e[1] = "template"} = ToSet(C)
  BY <1>7, <1>9, <1>10, <1>12
<1>14. {e \in Entries' : e[1] = "decision"} = {<<"decision", x>> : x \in ToSet(b.kept)}
  <2>1. {e \in Entries' : e[1] = "decision"} = {e \in ToSet(D) : e[1] = "decision"}
    BY <1>7, <1>9, <1>10, <1>12
  <2> QED
    BY <2>1, <1>9
<1>15. ClustersAccounted'
  <2>1. ASSUME NEW i \in ToSet(work)
        PROVE  \E e \in {g \in Entries' : g[1] = "template" /\ Template(g[2]) = Template(i)} :
                  /\ {g \in Entries' : g[1] = "template" /\ Template(g[2]) = Template(i)} = {e}
                  /\ e[3] = CountOf(Template(i)) /\ (Asks2(i) => e[4] # <<>>)
    <3>1. PICK e \in ToSet(C) :
             /\ Template(e[2]) = Template(i) /\ e[3] = CountOf(Template(i))
             /\ Asks2(i) => e[4] # <<>>
             /\ \A f \in ToSet(C) : Template(f[2]) = Template(i) => f = e
      BY <1>10
    <3>2. {g \in Entries' : g[1] = "template" /\ Template(g[2]) = Template(i)} = {e}
      BY <3>1, <1>13
    <3> QED
      BY <3>1, <3>2
  <2> QED
    BY <2>1, <1>4 DEF ClustersAccounted
<1>16. DecisionsAnnounced'
  <2>1. Cardinality({e \in Entries' : e[1] = "decision"}) = Len(b.kept)
    BY <1>11, <1>14, MarkedAre
  <2>2. ASSUME Len(b.kept) < Len(Decisions)
        PROVE  <<"omitted", Len(Decisions) - Len(b.kept)>> \in Entries'
    <3>1. b.omitted # 0 /\ Len(Decisions) - Len(b.kept) = b.omitted
      BY <2>2, <1>11
    <3> QED
      BY <3>1, <1>9, <1>12
  <2> QED
    BY <2>1, <2>2, <1>4 DEF DecisionsAnnounced
<1>17. \A i \in ToSet(work) : Level(i) = "ERROR" => i \in ToSet(work')
  BY <1>1
<1> QED
  BY <1>1, <1>2, <1>3, <1>5, <1>12, <1>15, <1>16, <1>17, StageMoves

LEMMA BoundTotalKeeps == ASSUME ReduceInv, BoundTotal PROVE ReduceInv'
<1> DEFINE keep == IF MaxShown > 0 THEN (MaxShown - 1) \div 2 ELSE 0
           head == SubSeq(body, 1, keep)
           cut == <<"cut", Len(body) - MaxShown>>
           tail == IF keep = 0 THEN body ELSE LastOf(body, keep)
<1>1. /\ stage = "bound" /\ stage' = "shown"
      /\ body' = (IF Len(body) <= MaxShown THEN body ELSE (head \o <<cut>>) \o tail)
      /\ UNCHANGED <<input, fed, held, afterLeft, emitted, work, dropped>>
  BY DEF BoundTotal
<1>2. /\ work \in Seq(Nat) /\ Grows(work) /\ work \in Seq(1..Len(input)) /\ MaxShown \in Nat
  BY <1>1, SelectedFacts
<1>3. /\ work # <<>> /\ body \in Seq(Entries) /\ WindowAccounted
      /\ \A i \in ToSet(emitted) : Level(i) = "ERROR" => i \in ToSet(work)
  BY <1>1 DEF ReduceInv, WorkSound
<1>4. body' \in Seq(Entries') /\ ErrorsShown'
  <2>1. CASE Len(body) <= MaxShown
    <3>1. body' = body /\ Entries' = Entries
      BY <2>1, <1>1 DEF Entries
    <3>2. ASSUME NEW i \in ToSet(emitted), Level(i) = "ERROR"
          PROVE  <<"line", i>> \in Entries
      <4>1. i \in ToSet(work)
        BY <3>2, <1>3
      <4>2. PICK k \in DOMAIN work : i = work[k]
        BY <4>1 DEF ToSet
      <4>3. ~Clustered
        BY <4>2, <3>2 DEF Clustered, Errors
      <4>4. Asks2(i)
        BY <3>2 DEF Asks2
      <4> QED
        BY <4>1, <4>3, <4>4, <1>1, <1>3 DEF WindowAccounted
    <3>3. \A i : Level(i)' = Level(i)
      BY <1>1 DEF Level
    <3> QED
      BY <3>1, <3>2, <3>3, <1>1, <1>3 DEF ErrorsShown
  <2>2. CASE ~(Len(body) <= MaxShown)
    <3>1. body' = (head \o <<cut>>) \o tail
      BY <2>2, <1>1
    <3>2. keep \in Nat /\ keep <= Len(body) /\ Len(body) \in Nat
      <4>1. Len(body) \in Nat
        BY <1>3, LenProperties
      <4> QED
        BY <4>1, <2>2, <1>2
    <3> HIDE DEF keep, cut
    <3>3. head \in Seq(ToSet(head))
      BY <1>3, <3>2, PartIs, SelfList
    <3>4. <<cut>> \in Seq(ToSet(<<cut>>)) /\ ToSet(<<cut>>) = {cut}
      <4>1. DOMAIN <<cut>> = 1..1 /\ <<cut>>[1] = cut
        OBVIOUS
      <4> QED
        BY <4>1 DEF ToSet
    <3>5. tail \in Seq(ToSet(tail))
      <4>1. LastOf(body, keep) \in Seq(Entries)
        BY <1>3, <3>2, LastOfIs
      <4>2. tail \in Seq(Entries)
        BY <4>1, <1>3
      <4> QED
        BY <4>2, SelfList
    <3> HIDE DEF head, tail
    <3>6. /\ head \o <<cut>> \in Seq(ToSet(head \o <<cut>>))
          /\ ToSet(head \o <<cut>>) = ToSet(head) \cup ToSet(<<cut>>)
      BY <3>3, <3>4, JoinedIs, Zenon
    <3>7. /\ (head \o <<cut>>) \o tail \in Seq(ToSet((head \o <<cut>>) \o tail))
          /\ ToSet((head \o <<cut>>) \o tail) = ToSet(head \o <<cut>>) \cup ToSet(tail)
      BY <3>5, <3>6, JoinedIs, Zenon
    <3>8. cut \in Entries' /\ cut[1] = "cut"
      BY <3>1, <3>4, <3>6, <3>7 DEF Entries, cut
    <3>9. body' \in Seq(Entries')
      BY <3>1, <3>7, Zenon DEF Entries
    <3> QED
      BY <3>8, <3>9 DEF ErrorsShown, Cut
  <2> QED
    BY <2>1, <2>2
<1>5. WindowAccounted' /\ ClustersAccounted' /\ DecisionsAnnounced'
  BY <1>1 DEF WindowAccounted, ClustersAccounted, DecisionsAnnounced
<1>6. \A i \in ToSet(work) : Level(i) = "ERROR" => i \in ToSet(work')
  BY <1>1
<1> HIDE DEF keep, head, cut, tail
<1> QED
  BY <1>1, <1>2, <1>3, <1>4, <1>5, <1>6, StageMoves

LEMMA ReduceStutters == ASSUME ReduceInv, UNCHANGED reduceVars PROVE ReduceInv'
<1>1. UNCHANGED <<input, fed, held, afterLeft, emitted, stage, work, body, dropped>>
  BY DEF reduceVars
<1>2. /\ \A i : Level(i)' = Level(i) /\ Template(i)' = Template(i) /\ Asks2(i)' = Asks2(i)
                /\ Below(i)' = Below(i) /\ CountOf(Template(i))' = CountOf(Template(i))
      /\ Errors' = Errors /\ Entries' = Entries /\ Window' = Window /\ Decisions' = Decisions
  BY <1>1 DEF Level, Template, Asks2, Below, CountOf, Errors, Entries, Window, Decisions
<1>3. Clustered' = Clustered /\ Cut' = Cut
  BY <1>1, <1>2 DEF Clustered, Cut
<1>4. /\ (ReduceTypeOK <=> ReduceTypeOK') /\ (Selecting <=> Selecting')
      /\ (Grows(emitted) <=> Grows(emitted)') /\ (Grows(work) <=> Grows(work)')
  BY <1>1 DEF ReduceTypeOK, Selecting, Covers, Grows
<1>5. (WorkSound <=> WorkSound') /\ (NoiseTold <=> NoiseTold') /\ (ErrorsShown <=> ErrorsShown')
  BY <1>1, <1>2, <1>3 DEF WorkSound, NoiseTold, ErrorsShown
<1>6. WindowAccounted <=> WindowAccounted'
  BY <1>1, <1>2, <1>3 DEF WindowAccounted
<1>7. ClustersAccounted <=> ClustersAccounted'
  BY <1>1, <1>2, <1>3 DEF ClustersAccounted
<1>8. DecisionsAnnounced <=> DecisionsAnnounced'
  BY <1>1, <1>2, <1>3 DEF DecisionsAnnounced
<1> QED
  BY <1>1, <1>2, <1>4, <1>5, <1>6, <1>7, <1>8 DEF ReduceInv

LEMMA ReduceStepKeeps == ASSUME ReduceInv, [ReduceNext]_reduceVars PROVE ReduceInv'
<1>1. CASE Feed
  BY <1>1, FeedKeeps
<1>2. CASE Selected
  BY <1>2, SelectedKeeps
<1>3. CASE NoiseFloor
  BY <1>3, NoiseFloorKeeps
<1>4. CASE ShownWhole
  BY <1>4, ShownWholeKeeps
<1>5. CASE BranchOnError
  BY <1>5, BranchOnErrorKeeps
<1>6. CASE Fold
  BY <1>6, FoldKeeps
<1>7. CASE Cluster
  BY <1>7, ClusterKeeps
<1>8. CASE BoundTotal
  BY <1>8, BoundTotalKeeps
<1>9. CASE UNCHANGED reduceVars
  BY <1>9, ReduceStutters
<1> QED
  BY <1>1, <1>2, <1>3, <1>4, <1>5, <1>6, <1>7, <1>8, <1>9 DEF ReduceNext

LEMMA ReduceInvImplies == ReduceInv => ReductionIsFaithful
<1> SUFFICES ASSUME ReduceInv PROVE ReductionIsFaithful
  OBVIOUS
<1>1. SelectorExact
  BY DEF ReduceInv, WorkSound, Grows, SelectorExact
<1> QED
  BY <1>1 DEF ReduceInv, ReductionIsFaithful

(* The trace a model is shown accounts for the lines the pod logged, for   *)
(* any lines, windows, levels, thresholds and limits: the selector         *)
(* (sources/k8s/filtering.py) emits exactly the lines within the window of *)
(* a match, each once and in order; what the noise floor took is counted;  *)
(* every error is shown unless the size bound cut the trace and says so;   *)
(* and what the error window folds, the clusters gather and the decision   *)
(* limit leaves out (reducer.py) is told with its number.                  *)
THEOREM ReductionsAreFaithful == ReduceSpec => []ReductionIsFaithful
<1>1. ReduceInit => ReduceInv
  BY ReduceStarts
<1>2. ReduceInv /\ [ReduceNext]_reduceVars => ReduceInv'
  BY ReduceStepKeeps
<1>3. ReduceInv => ReductionIsFaithful
  BY ReduceInvImplies
<1> QED
  BY <1>1, <1>2, <1>3, PTL DEF ReduceSpec

============================================================================
