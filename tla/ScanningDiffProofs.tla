--------------------------- MODULE ScanningDiffProofs ---------------------------
(***************************************************************************)
(* Lemmas about the comparison and the operations of a Scanning plan, for  *)
(* every set of resources: the operations are the create and replace items *)
(* each exactly once, in the order of types and names.                     *)
(***************************************************************************)
EXTENDS ScanningDiff, WellFoundedInduction, FiniteSetTheorems, SequenceTheorems, TLAPS

-----------------------------------------------------------------------------
(* Counting. *)

(* Every set of natural numbers that is not empty has a least element. *)
LEMMA LeastNatural ==
  ASSUME NEW S, S \subseteq Nat, S # {}
  PROVE  \E x \in S : \A y \in S : x <= y
<1> DEFINE R == {p \in Nat \X Nat : p[1] < p[2]}
<1>1. IsWellFoundedOn(R, Nat)
  BY NatLessThanWellFounded DEF OpToRel
<1> HIDE DEF R
<1>2. PICK x \in S : \A y \in S : ~(<<y, x>> \in R)
  BY <1>1, WFMin
<1>3. ASSUME NEW y \in S PROVE x <= y
  <2>1. <<y, x>> \in Nat \X Nat
    OBVIOUS
  <2>2. ~(<<y, x>>[1] < <<y, x>>[2])
    BY <1>2, <2>1 DEF R
  <2> QED BY <2>2
<1> QED BY <1>3

(* A strict subset of a finite set has fewer elements. *)
LEMMA StrictSubsetCard ==
  ASSUME NEW S, NEW T, IsFiniteSet(S), T \subseteq S, T # S
  PROVE  Cardinality(T) \in Nat /\ Cardinality(S) \in Nat /\ Cardinality(T) < Cardinality(S)
<1>1. T \in SUBSET S
  OBVIOUS
<1>2. IsFiniteSet(T) /\ Cardinality(T) <= Cardinality(S) /\ Cardinality(S) # Cardinality(T)
  BY <1>1, FS_Subset
<1>3. Cardinality(T) \in Nat /\ Cardinality(S) \in Nat
  BY <1>2, FS_CardinalityType
<1> QED BY <1>2, <1>3

LEMMA SequenceOf ==
  ASSUME NEW S, NEW n \in Nat, NEW f \in [1..n -> S]
  PROVE  f \in Seq(S) /\ DOMAIN f = 1..n /\ Len(f) = n
<1>1. f \in Seq(S)
  BY SeqDef
<1>2. DOMAIN f = 1..Len(f) /\ Len(f) \in Nat
  BY <1>1, LenProperties
<1>3. 1..n = 1..Len(f)
  BY <1>2
<1> QED BY <1>1, <1>2, <1>3

-----------------------------------------------------------------------------
(* The order of operations is total. *)

LEMMA RankOfType ==
  ASSUME NEW a \in Id
  PROVE  /\ TypeRank(TypeOf(a)) \in Nat
         /\ a \in DataSource => TypeRank(TypeOf(a)) = 0
         /\ a \in Rule       => TypeRank(TypeOf(a)) = 1
         /\ a \in RuleSet    => TypeRank(TypeOf(a)) = 2
         /\ a \in Scan       => TypeRank(TypeOf(a)) = 3
<1>1. CASE a \in DataSource
  <2>1. TypeOf(a) = "dataSource"
    BY <1>1 DEF TypeOf
  <2>2. TypeRank(TypeOf(a)) = 0
    BY <2>1 DEF TypeRank
  <2> QED BY <1>1, <2>2, IdAssumption
<1>2. CASE a \in Rule
  <2>1. TypeOf(a) = "classificationRule"
    BY <1>2, IdAssumption DEF TypeOf
  <2>2. TypeRank(TypeOf(a)) = 1
    BY <2>1 DEF TypeRank
  <2> QED BY <1>2, <2>2, IdAssumption
<1>3. CASE a \in RuleSet
  <2>1. TypeOf(a) = "scanRuleSet"
    BY <1>3, IdAssumption DEF TypeOf
  <2>2. TypeRank(TypeOf(a)) = 2
    BY <2>1 DEF TypeRank
  <2> QED BY <1>3, <2>2, IdAssumption
<1>4. CASE a \in Scan
  <2>1. TypeOf(a) = "scan"
    BY <1>4, IdAssumption DEF TypeOf
  <2>2. TypeRank(TypeOf(a)) = 3
    BY <2>1 DEF TypeRank
  <2> QED BY <1>4, <2>2, IdAssumption
<1> QED BY <1>1, <1>2, <1>3, <1>4 DEF Id

LEMMA SameRankSameType ==
  ASSUME NEW a \in Id, NEW b \in Id
  PROVE  TypeRank(TypeOf(a)) = TypeRank(TypeOf(b)) <=> TypeOf(a) = TypeOf(b)
<1>1. TypeRank(TypeOf(a)) = TypeRank(TypeOf(b)) => TypeOf(a) = TypeOf(b)
  <2>1. CASE a \in DataSource
    BY <2>1, RankOfType, IdAssumption DEF Id, TypeOf
  <2>2. CASE a \in Rule
    BY <2>2, RankOfType, IdAssumption DEF Id, TypeOf
  <2>3. CASE a \in RuleSet
    BY <2>3, RankOfType, IdAssumption DEF Id, TypeOf
  <2>4. CASE a \in Scan
    BY <2>4, RankOfType, IdAssumption DEF Id, TypeOf
  <2> QED BY <2>1, <2>2, <2>3, <2>4 DEF Id
<1> QED BY <1>1

LEMMA BeforeIsTotal ==
  ASSUME NEW a \in Id, NEW b \in Id
  PROVE  /\ ~Before(a, a)
         /\ a # b => Before(a, b) \/ Before(b, a)
         /\ \A c \in Id : Before(a, b) /\ Before(b, c) => Before(a, c)
<1>1. a \in Nat /\ b \in Nat
  BY IdAssumption
<1>2. TypeRank(TypeOf(a)) \in Nat /\ TypeRank(TypeOf(b)) \in Nat
  BY RankOfType
<1>3. ~Before(a, a)
  BY <1>1, <1>2 DEF Before
<1>4. a # b => Before(a, b) \/ Before(b, a)
  BY <1>1, <1>2, SameRankSameType DEF Before
<1>5. ASSUME NEW c \in Id, Before(a, b), Before(b, c)
      PROVE  Before(a, c)
  <2>1. c \in Nat /\ TypeRank(TypeOf(c)) \in Nat
    BY IdAssumption, RankOfType
  <2> QED BY <1>1, <1>2, <1>5, <2>1 DEF Before
<1> QED BY <1>3, <1>4, <1>5

(* The ranks of n resources are 1 to n, in their order. *)
LEMMA Ranks ==
  ASSUME NEW ids, ids \subseteq Id
  PROVE  /\ IsFiniteSet(ids) /\ Cardinality(ids) \in Nat
         /\ \A id \in ids : Rank(ids, id) \in 1..Cardinality(ids)
         /\ \A a, b \in ids : Before(a, b) => Rank(ids, a) < Rank(ids, b)
         /\ \A i \in 1..Cardinality(ids) : \E id \in ids : Rank(ids, id) = i
<1> DEFINE Sooner_(id) == {other \in ids : Before(other, id)}
<1>1. IsFiniteSet(ids) /\ Cardinality(ids) \in Nat
  BY IdAssumption, FS_Subset, FS_CardinalityType
<1>2. ASSUME NEW id \in ids
      PROVE  /\ IsFiniteSet(Sooner_(id)) /\ Cardinality(Sooner_(id)) \in Nat
             /\ Cardinality(Sooner_(id)) < Cardinality(ids)
  <2>1. Sooner_(id) \subseteq ids /\ id \notin Sooner_(id)
    BY BeforeIsTotal
  <2>2. IsFiniteSet(Sooner_(id))
    BY <1>1, <2>1, FS_Subset
  <2> HIDE DEF Sooner_
  <2>3. Cardinality(Sooner_(id)) \in Nat /\ Cardinality(Sooner_(id)) < Cardinality(ids)
    BY <1>1, <2>1, StrictSubsetCard
  <2> QED BY <2>2, <2>3
<1>3. ASSUME NEW id \in ids
      PROVE  Rank(ids, id) \in 1..Cardinality(ids)
  <2>1. Rank(ids, id) = 1 + Cardinality(Sooner_(id))
    BY DEF Rank
  <2> HIDE DEF Sooner_
  <2> QED BY <1>1, <1>2, <2>1
<1>4. ASSUME NEW a \in ids, NEW b \in ids, Before(a, b)
      PROVE  Rank(ids, a) < Rank(ids, b)
  <2>1. Sooner_(a) \subseteq Sooner_(b) /\ a \in Sooner_(b) /\ a \notin Sooner_(a)
    BY <1>4, BeforeIsTotal
  <2> HIDE DEF Sooner_
  <2>2. IsFiniteSet(Sooner_(b)) /\ Sooner_(a) # Sooner_(b)
    BY <1>2, <2>1
  <2>3. /\ Cardinality(Sooner_(a)) \in Nat /\ Cardinality(Sooner_(b)) \in Nat
        /\ Cardinality(Sooner_(a)) < Cardinality(Sooner_(b))
    BY <2>1, <2>2, StrictSubsetCard
  <2>4. 1 + Cardinality(Sooner_(a)) < 1 + Cardinality(Sooner_(b))
    BY <2>3
  <2> QED BY <2>4 DEF Rank, Sooner_
<1>5. \A i \in 1..Cardinality(ids) : \E id \in ids : Rank(ids, id) = i
  <2> DEFINE n == Cardinality(ids)
             f == [id \in ids |-> Rank(ids, id)]
  <2>1. f \in [ids -> 1..n]
    BY <1>3
  <2>2. \A a, b \in ids : f[a] = f[b] => a = b
    <3> SUFFICES ASSUME NEW a \in ids, NEW b \in ids, a # b PROVE f[a] # f[b]
      OBVIOUS
    <3>1. Rank(ids, a) \in Nat /\ Rank(ids, b) \in Nat
      BY <1>3
    <3>2. Before(a, b) \/ Before(b, a)
      BY BeforeIsTotal
    <3>3. Rank(ids, a) < Rank(ids, b) \/ Rank(ids, b) < Rank(ids, a)
      BY <1>4, <3>2
    <3> QED BY <3>1, <3>3
  <2>3. f \in Injection(ids, 1..n)
    BY <2>1, <2>2 DEF Injection, IsInjective
  <2>4. IsFiniteSet(1..n) /\ Cardinality(1..n) = n
    <3>1. IsFiniteSet(1..n) /\ Cardinality(1..n) = IF 1 > n THEN 0 ELSE n - 1 + 1
      BY <1>1, FS_Interval
    <3> QED BY <1>1, <3>1
  <2>5. f \in Surjection(ids, 1..n)
    <3> HIDE DEF f
    <3> QED BY <2>3, <2>4, FS_Injection
  <2>6. \A i \in 1..n : \E id \in ids : f[id] = i
    <3> HIDE DEF f
    <3> QED BY <2>5 DEF Surjection
  <2> QED BY <2>6
<1> QED BY <1>1, <1>3, <1>4, <1>5

(* The operations of a change set. *)
LEMMA OperationsAre ==
  ASSUME NEW items
  PROVE  LET ops == Operations(items) IN
         /\ ops \in Seq([id : Id, action : Acting]) /\ DOMAIN ops = 1..Len(ops)
         /\ \A i \in DOMAIN ops :
              ops[i].id \in ActingIds(items) /\ ops[i].action = items[ops[i].id].outcome
         /\ \A id \in ActingIds(items) : \E i \in DOMAIN ops : ops[i].id = id
         /\ \A i, j \in DOMAIN ops : Before(ops[i].id, ops[j].id) <=> i < j
<1> DEFINE ops == Operations(items)
           acting == ActingIds(items)
           n == Cardinality(acting)
           ranked(i) == CHOOSE id \in acting : Rank(acting, id) = i
<1>1. acting \subseteq Id
  BY DEF ActingIds
<1>2. /\ n \in Nat
      /\ \A id \in acting : Rank(acting, id) \in 1..n
      /\ \A a, b \in acting : Before(a, b) => Rank(acting, a) < Rank(acting, b)
      /\ \A i \in 1..n : \E id \in acting : Rank(acting, id) = i
  <2> HIDE DEF acting
  <2> QED BY <1>1, Ranks
<1>3. \A i \in 1..n : ranked(i) \in acting /\ Rank(acting, ranked(i)) = i
  <2> HIDE DEF acting
  <2> QED BY <1>2
<1>4. ops = [i \in 1..n |-> [id |-> ranked(i), action |-> items[ranked(i)].outcome]]
  BY DEF Operations
<1>5. \A i \in 1..n : ops[i].id = ranked(i) /\ ops[i].action = items[ranked(i)].outcome
  BY <1>4
<1>6. ASSUME NEW i \in 1..n
      PROVE  ops[i] \in [id : Id, action : Acting]
  <2>1. ranked(i) \in Id /\ items[ranked(i)].outcome \in Acting
    BY <1>3 DEF ActingIds
  <2>2. ops[i] = [id |-> ranked(i), action |-> items[ranked(i)].outcome]
    BY <1>4
  <2> HIDE DEF ops, ranked
  <2> QED BY <2>1, <2>2
<1>7. ops \in Seq([id : Id, action : Acting]) /\ DOMAIN ops = 1..n
  <2>1. ops \in [1..n -> [id : Id, action : Acting]]
    BY <1>4, <1>6
  <2> HIDE DEF ops, n
  <2> QED BY <1>2, <2>1, SequenceOf
<1> HIDE DEF ops, ranked
<1>8. Len(ops) = n
  <2>1. 1..n = 1..Len(ops) /\ Len(ops) \in Nat
    BY <1>7, LenProperties
  <2> HIDE DEF n
  <2> QED BY <1>2, <2>1
<1>9. ASSUME NEW id \in acting
      PROVE  \E i \in DOMAIN ops : ops[i].id = id
  <2> DEFINE i == Rank(acting, id)
  <2>1. i \in 1..n /\ ranked(i) \in acting /\ Rank(acting, ranked(i)) = i
    BY <1>2, <1>3
  <2>2. ~Before(id, ranked(i)) /\ ~Before(ranked(i), id)
    <3> HIDE DEF acting
    <3> QED BY <1>2, <2>1
  <2>3. ranked(i) = id
    BY <1>1, <2>1, <2>2, BeforeIsTotal
  <2> QED BY <1>5, <1>7, <2>1, <2>3
<1>10. ASSUME NEW i \in 1..n, NEW j \in 1..n
       PROVE  Before(ranked(i), ranked(j)) <=> i < j
  <2>1. ranked(i) \in acting /\ ranked(j) \in acting
    BY <1>3
  <2>2. Before(ranked(i), ranked(j)) => i < j
    <3> HIDE DEF acting
    <3> QED BY <1>2, <1>3, <2>1
  <2>3. Before(ranked(j), ranked(i)) => j < i
    <3> HIDE DEF acting
    <3> QED BY <1>2, <1>3, <2>1
  <2>4. i < j => ranked(i) # ranked(j)
    <3> HIDE DEF acting
    <3> QED BY <1>3
  <2> QED BY <1>1, <2>1, <2>2, <2>3, <2>4, BeforeIsTotal
<1>11. /\ \A i \in DOMAIN ops :
             ops[i].id \in acting /\ ops[i].action = items[ops[i].id].outcome
       /\ \A i, j \in DOMAIN ops : Before(ops[i].id, ops[j].id) <=> i < j
  <2> HIDE DEF acting, n
  <2> QED BY <1>3, <1>5, <1>7, <1>10
<1> QED BY <1>7, <1>8, <1>9, <1>11 DEF ops

-----------------------------------------------------------------------------
(* The comparison, arm by arm. *)

Remote == Interpreted \union Uninterpreted \union {Missing}

(* What a PUT stores of a configured resource. *)
Stored(d) == [place |-> d.place, body |-> d.body, uses |-> d.uses, holds |-> {}]

LEMMA StoredType ==
  ASSUME NEW d \in Desired
  PROVE  Stored(d) \in Interpreted
BY DEF Stored, Desired, Interpreted

LEMMA DiffArms ==
  ASSUME NEW id \in Id, NEW d \in Desired \union {Absent}, NEW r \in Remote
  PROVE  /\ r \in ForeignKind => Diff(id, d, r) = UninterpretedKind(id, d, r)
         /\ r = UnsupportedType => Diff(id, d, r) = UninterpretedType(d)
         /\ r = Missing /\ d = Absent => Diff(id, d, r) = Item("none", {})
         /\ r = Missing /\ d # Absent => Diff(id, d, r) = Create
         /\ r \in Interpreted /\ d = Absent => Diff(id, d, r) = RemoteOnly(r)
         /\ r \in Interpreted /\ d # Absent => Diff(id, d, r) = Compare(id, d, r)
<1>1. /\ Missing \notin Interpreted /\ Missing \notin ForeignKind /\ Missing # UnsupportedType
      /\ UnsupportedType \notin Interpreted /\ UnsupportedType \notin ForeignKind
      /\ \A kind \in ForeignKind : kind \notin Interpreted
  BY MarkerAssumption DEF Uninterpreted
<1>2. CASE r \in ForeignKind
  BY <1>1, <1>2 DEF Diff
<1>3. CASE r = UnsupportedType
  BY <1>1, <1>3 DEF Diff
<1>4. CASE r = Missing /\ d = Absent
  BY <1>1, <1>4 DEF Diff
<1>5. CASE r = Missing /\ d # Absent
  BY <1>1, <1>5 DEF Diff
<1>6. CASE r \in Interpreted /\ d = Absent
  BY <1>1, <1>6 DEF Diff
<1>7. CASE r \in Interpreted /\ d # Absent
  BY <1>1, <1>7 DEF Diff
<1> QED BY <1>2, <1>3, <1>4, <1>5, <1>6, <1>7 DEF Remote, Uninterpreted

LEMMA JudgedOutcome ==
  ASSUME NEW blocking, NEW material
  PROVE  /\ Judged(blocking, material).outcome \in {"blocked", "replace", "no-op"}
         /\ Judged(blocking, material).outcome = "blocked" <=> blocking # {}
         /\ Judged(blocking, material).outcome = "replace" <=> blocking = {} /\ material # {}
BY DEF Judged, Item

(* A replace changes the body of a resource, or what it uses. *)
LEMMA CompareOutcome ==
  ASSUME NEW id \in Id, NEW d \in Desired, NEW r \in Interpreted
  PROVE  /\ Compare(id, d, r).outcome \in {"blocked", "replace", "no-op"}
         /\ Compare(id, d, r).outcome = "replace" => d.body # r.body \/ d.uses # r.uses
         /\ r = Stored(d) => Compare(id, d, r).outcome = "no-op"
<1>1. PICK blocking, material :
        /\ Compare(id, d, r) = Judged(blocking, material)
        /\ material \subseteq Altered(d, r) \union Rewired(d, r)
        /\ blocking \subseteq Held(r) \union Relocated(d, r)
  <2>1. CASE id \in DataSource
    BY <2>1, IdAssumption DEF Compare, CompareDataSource
  <2>2. CASE id \in Rule
    BY <2>2, IdAssumption DEF Compare, CompareRule
  <2>3. CASE id \in RuleSet
    BY <2>3, IdAssumption DEF Compare, CompareRuleSet
  <2>4. CASE id \in Scan
    BY <2>4, IdAssumption DEF Compare, CompareScan
  <2> QED BY <2>1, <2>2, <2>3, <2>4 DEF Id
<1>2. d.body = r.body /\ d.uses = r.uses => material = {}
  BY <1>1 DEF Altered, Rewired
<1>3. r = Stored(d) => blocking = {} /\ material = {}
  BY <1>1, <1>2 DEF Stored, Held, Relocated
<1> QED BY <1>1, <1>2, <1>3, JudgedOutcome

LEMMA DiffOutcome ==
  ASSUME NEW id \in Id, NEW d \in Desired \union {Absent}, NEW r \in Remote
  PROVE  /\ Diff(id, d, r).outcome \in Outcome
         /\ r \in Uninterpreted => Diff(id, d, r).outcome = "blocked"
         /\ r = Missing => Diff(id, d, r).outcome = IF d = Absent THEN "none" ELSE "create"
         /\ Diff(id, d, r).outcome \in Acting => d # Absent /\ r # Stored(d)
         /\ d # Absent /\ r = Stored(d) => Diff(id, d, r).outcome = "no-op"
<1>1. Missing \notin Interpreted /\ Uninterpreted \intersect Interpreted = {}
  BY MarkerAssumption
<1>2. CASE r \in Uninterpreted
  <2>1. Diff(id, d, r).outcome = "blocked"
    BY <1>2, DiffArms DEF Uninterpreted, UninterpretedKind, UninterpretedType, Item
  <2>2. r \notin Interpreted /\ r # Missing
    BY <1>1, <1>2, MarkerAssumption
  <2>3. d # Absent => r # Stored(d)
    BY <2>2, StoredType
  <2> QED BY <2>1, <2>2, <2>3 DEF Outcome, Acting
<1>3. CASE r = Missing
  <2>1. Diff(id, d, r).outcome = IF d = Absent THEN "none" ELSE "create"
    BY <1>3, DiffArms DEF Item, Create
  <2>2. d # Absent => r # Stored(d)
    BY <1>1, <1>3, StoredType
  <2>3. r \notin Uninterpreted
    BY <1>3, MarkerAssumption
  <2> QED BY <2>1, <2>2, <2>3, <1>3 DEF Outcome, Acting
<1>4. CASE r \in Interpreted /\ d = Absent
  <2>1. Diff(id, d, r).outcome = "remote-only"
    BY <1>4, DiffArms DEF Item, RemoteOnly
  <2> QED BY <1>1, <1>4, <2>1 DEF Outcome, Acting
<1>5. CASE r \in Interpreted /\ d # Absent
  <2>1. Diff(id, d, r) = Compare(id, d, r) /\ d \in Desired
    BY <1>5, DiffArms
  <2>2. /\ Compare(id, d, r).outcome \in {"blocked", "replace", "no-op"}
        /\ r = Stored(d) => Compare(id, d, r).outcome = "no-op"
    BY <1>5, <2>1, CompareOutcome
  <2> QED BY <1>1, <1>5, <2>1, <2>2 DEF Outcome, Acting
<1> QED BY <1>2, <1>3, <1>4, <1>5 DEF Remote

(* The items of a change set. *)
LEMMA ItemOf ==
  ASSUME NEW v \in {1, 2}, NEW desired, NEW remote, NEW id \in Id
  PROVE  ChangeSet(v, desired, remote)[id]
           = IF v = 2 \/ id \in DataSource THEN Diff(id, desired[id], remote[id])
             ELSE Item("none", {})
<1>1. ChangeSet(v, desired, remote)[id]
        = IF id \in DataSource THEN DiffDataSources(desired, remote)[id]
          ELSE IF v = 1 THEN Item("none", {})
          ELSE IF id \in Rule THEN DiffRules(desired, remote)[id]
          ELSE IF id \in RuleSet THEN DiffRuleSets(desired, remote)[id]
          ELSE DiffScans(desired, remote)[id]
  BY DEF ChangeSet
<1> QED BY <1>1, IdAssumption DEF Id, DiffDataSources, DiffRules, DiffRuleSets, DiffScans

(* What a resource that differs, or is to be replaced, looks like. *)
LEMMA ReplacedIsOwned ==
  ASSUME NEW id \in Id, NEW d \in Desired, NEW r \in Interpreted
  PROVE  /\ Compare(id, d, r).outcome # "blocked" =>
              r.holds = {} /\ (id \in DataSource \union Scan => r.place = d.place)
         /\ Compare(id, d, r).outcome = "no-op" =>
              r.body = d.body /\ (id \in RuleSet \union Scan => r.uses = d.uses)
<1>1. /\ Held(r) = {} => r.holds = {}
      /\ Relocated(d, r) = {} => r.place = d.place
      /\ Altered(d, r) = {} => r.body = d.body
      /\ Rewired(d, r) = {} => r.uses = d.uses
  BY DEF Held, Relocated, Altered, Rewired
<1>2. ASSUME NEW blocking, NEW material,
             Compare(id, d, r) = Judged(blocking, material)
      PROVE  /\ Compare(id, d, r).outcome # "blocked" => blocking = {}
             /\ Compare(id, d, r).outcome = "no-op" => material = {}
  BY <1>2, JudgedOutcome
<1>3. CASE id \in DataSource
  <2>1. Compare(id, d, r) = Judged(Held(r) \union Relocated(d, r), Altered(d, r))
    BY <1>3, IdAssumption DEF Compare, CompareDataSource
  <2>2. id \notin RuleSet \union Scan
    BY <1>3, IdAssumption
  <2> QED BY <1>1, <1>2, <2>1, <2>2
<1>4. CASE id \in Rule
  <2>1. Compare(id, d, r) = Judged(Held(r), Altered(d, r))
    BY <1>4, IdAssumption DEF Compare, CompareRule
  <2>2. id \notin RuleSet \union Scan \union DataSource
    BY <1>4, IdAssumption
  <2> QED BY <1>1, <1>2, <2>1, <2>2
<1>5. CASE id \in RuleSet
  <2>1. Compare(id, d, r) = Judged(Held(r), Altered(d, r) \union Rewired(d, r))
    BY <1>5, IdAssumption DEF Compare, CompareRuleSet
  <2>2. id \notin DataSource \union Scan
    BY <1>5, IdAssumption
  <2> QED BY <1>1, <1>2, <2>1, <2>2
<1>6. CASE id \in Scan
  <2>1. Compare(id, d, r) =
          Judged(Held(r) \union Relocated(d, r), Altered(d, r) \union Rewired(d, r))
    BY <1>6, IdAssumption DEF Compare, CompareScan
  <2> QED BY <1>1, <1>2, <2>1
<1> QED BY <1>3, <1>4, <1>5, <1>6 DEF Id

-----------------------------------------------------------------------------
(* Every item of a comparison passes the validation of a plan. *)

(* The reasons of a comparison. *)
LEMMA ComparisonReasons ==
  ASSUME NEW id \in Id, NEW d \in Desired, NEW r \in Interpreted, r.holds \subseteq HoldsOf(id)
  PROVE  \E blocking, material :
           /\ Compare(id, d, r) = Judged(blocking, material)
           /\ \A x \in blocking :
                \/ x.code \in HoldsOf(id)
                \/ x.code = "properties.collection.referenceName.changed" /\ x.after = d.place
           /\ \A x \in material :
                \/ x.code = "settings.changed" /\ x.after = d.body
                \/ x.code = "uses.changed" /\ id \notin DataSource
<1>1. \A x \in Held(r) : x.code \in HoldsOf(id)
  BY DEF Held, Reason
<1>2. \A x \in Relocated(d, r) :
        x.code = "properties.collection.referenceName.changed" /\ x.after = d.place
  BY DEF Relocated, Reason
<1>3. \A x \in Altered(d, r) : x.code = "settings.changed" /\ x.after = d.body
  BY DEF Altered, Reason
<1>4. \A x \in Rewired(d, r) : x.code = "uses.changed"
  BY DEF Rewired, Reason
<1>5. CASE id \in DataSource
  <2>1. Compare(id, d, r) = Judged(Held(r) \union Relocated(d, r), Altered(d, r))
    BY <1>5, IdAssumption DEF Compare, CompareDataSource
  <2> QED BY <1>1, <1>2, <1>3, <2>1
<1>6. CASE id \in Rule
  <2>1. Compare(id, d, r) = Judged(Held(r), Altered(d, r))
    BY <1>6, IdAssumption DEF Compare, CompareRule
  <2> QED BY <1>1, <1>3, <2>1
<1>7. CASE id \in RuleSet
  <2>1. Compare(id, d, r) = Judged(Held(r), Altered(d, r) \union Rewired(d, r))
    BY <1>7, IdAssumption DEF Compare, CompareRuleSet
  <2>2. id \notin DataSource
    BY <1>7, IdAssumption
  <2> QED BY <1>1, <1>3, <1>4, <2>1, <2>2
<1>8. CASE id \in Scan
  <2>1. Compare(id, d, r) =
          Judged(Held(r) \union Relocated(d, r), Altered(d, r) \union Rewired(d, r))
    BY <1>8, IdAssumption DEF Compare, CompareScan
  <2>2. id \notin DataSource
    BY <1>8, IdAssumption
  <2> QED BY <1>1, <1>2, <1>3, <1>4, <2>1, <2>2
<1> QED BY <1>5, <1>6, <1>7, <1>8 DEF Id

LEMMA HoldsAreHold ==
  ASSUME NEW id \in Id
  PROVE  HoldsOf(id) \subseteq Hold /\ (id \in DataSource => HoldsOf(id) = OwnershipCodes)
<1>1. CASE id \in DataSource
  BY <1>1, IdAssumption DEF HoldsOf, Hold, OwnershipCodes
<1>2. CASE id \in Scan
  BY <1>2, IdAssumption DEF HoldsOf, Hold
<1>3. CASE id \notin DataSource \union Scan
  BY <1>3 DEF HoldsOf, Hold
<1> QED BY <1>1, <1>2, <1>3, IdAssumption

(* An item passes as a member of a plan of the version. *)
Passes(v, id, d, item) ==
  /\ ShapedReasons(id, d, item)
  /\ IF v = 1 THEN OutcomeReasonsV1(id, d, item) ELSE OutcomeReasons(id, d, item)
  /\ d # Absent => item.outcome # "none"

LEMMA ComparisonPasses ==
  ASSUME NEW v \in {1, 2}, NEW id \in Id, v = 1 => id \in DataSource,
         NEW d \in Desired, NEW r \in Interpreted, r.holds \subseteq HoldsOf(id)
  PROVE  Passes(v, id, d, Compare(id, d, r))
<1>1. PICK blocking, material :
        /\ Compare(id, d, r) = Judged(blocking, material)
        /\ \A x \in blocking :
             \/ x.code \in HoldsOf(id)
             \/ x.code = "properties.collection.referenceName.changed" /\ x.after = d.place
        /\ \A x \in material :
             \/ x.code = "settings.changed" /\ x.after = d.body
             \/ x.code = "uses.changed" /\ id \notin DataSource
  BY ComparisonReasons
<1> DEFINE item == Compare(id, d, r)
           core == OwnershipCodes \union {"properties.collection.referenceName.changed"}
<1>2. /\ item.reasons = blocking \union material
      /\ item.outcome \in {"blocked", "replace", "no-op"}
      /\ item.outcome = "blocked" <=> blocking # {}
      /\ item.outcome = "replace" <=> blocking = {} /\ material # {}
  <2>1. Judged(blocking, material).reasons = blocking \union material
    BY DEF Judged, Item
  <2> QED BY <1>1, <2>1, JudgedOutcome
<1>3. d # Absent
  BY MarkerAssumption
<1>4. HoldsOf(id) \subseteq Hold /\ (id \in DataSource => HoldsOf(id) = OwnershipCodes)
  BY HoldsAreHold
<1> HIDE DEF item
<1>5. ShapedReasons(id, d, item)
  <2> SUFFICES ASSUME NEW x \in item.reasons
               PROVE  ReasonShape(x) /\ BoundToDesired(id, d, x)
    BY DEF ShapedReasons
  <2>1. /\ x.code # "kind.changed" /\ x.code # "remote_state.unsupported_kind"
        /\ x.code = "properties.collection.referenceName.changed" => x.after = d.place
        /\ x.code = "settings.changed" => x.after = d.body
    BY <1>1, <1>2, <1>4 DEF Hold
  <2> QED BY <2>1 DEF ReasonShape, BoundToDesired
<1>6. item.outcome = "blocked" => Codes(item) \intersect BlockingCodes # {}
  <2> SUFFICES ASSUME blocking # {} PROVE Codes(item) \intersect BlockingCodes # {}
    BY <1>2
  <2>1. PICK x \in blocking : TRUE
    OBVIOUS
  <2>2. x.code \in BlockingCodes
    BY <1>1, <1>4 DEF BlockingCodes
  <2>3. x.code \in Codes(item)
    BY <1>2 DEF Codes
  <2> QED BY <2>2, <2>3
<1>7. item.outcome = "replace" =>
        Codes(item) # {} /\ Codes(item) \subseteq {"settings.changed", "uses.changed"}
        /\ (id \in DataSource => Codes(item) \subseteq {"settings.changed"})
  BY <1>1, <1>2 DEF Codes
<1>8. item.outcome = "no-op" => item.reasons = {}
  BY <1>2
<1>9. OutcomeReasons(id, d, item)
  <2>1. CASE item.outcome = "blocked"
    BY <1>6, <2>1 DEF OutcomeReasons
  <2>2. CASE item.outcome = "replace"
    BY <1>3, <1>7, <2>2 DEF OutcomeReasons, ReplaceReasons, ReplaceCodes
  <2>3. CASE item.outcome = "no-op"
    BY <1>3, <1>8, <2>3 DEF OutcomeReasons
  <2> QED BY <1>2, <2>1, <2>2, <2>3
<1>10. v = 1 /\ item.outcome = "blocked" =>
         "remote_state.unsupported_kind" \notin Codes(item) /\ SupportedBlocked(d, item)
  <2> SUFFICES ASSUME id \in DataSource, blocking # {}
               PROVE  /\ "remote_state.unsupported_kind" \notin Codes(item)
                      /\ SupportedBlocked(d, item)
    BY <1>2
  <2>1. \A x \in item.reasons : x.code \in core \union {"settings.changed"}
    BY <1>1, <1>2, <1>4
  <2>2. Codes(item) \subseteq core \union {"settings.changed"}
    BY <2>1 DEF Codes
  <2>3. PICK x \in blocking : TRUE
    OBVIOUS
  <2>4. x.code \in core /\ x.code \in Codes(item)
    BY <1>1, <1>2, <1>4 DEF Codes
  <2>5. "remote_state.unsupported_kind" \notin core \union {"settings.changed"}
    BY DEF OwnershipCodes
  <2> QED BY <1>3, <2>2, <2>4, <2>5 DEF SupportedBlocked
<1> QED BY <1>2, <1>3, <1>5, <1>9, <1>10 DEF Passes, OutcomeReasonsV1, item

LEMMA DiffPasses ==
  ASSUME NEW v \in {1, 2}, NEW id \in Id, v = 1 => id \in DataSource,
         NEW d \in Desired \union {Absent}, NEW r \in Remote,
         r \in Interpreted => r.holds \subseteq HoldsOf(id),
         r = UnsupportedType => id \in RuleSet,
         r # MisplacedKind, ~(id \in Rule /\ d # Absent /\ r \in ForeignKind)
  PROVE  Passes(v, id, d, Diff(id, d, r))
<1> DEFINE item == Diff(id, d, r)
<1>1. CASE r \in ForeignKind /\ d = Absent
  <2>1. /\ item.outcome = "blocked"
        /\ item.reasons = {Met("remote_state.unsupported_kind", r),
                            Reason("remote.absent_desired", NoAfter)}
    BY <1>1, DiffArms DEF UninterpretedKind, Item
  <2> HIDE DEF item
  <2>2. Codes(item) = {"remote_state.unsupported_kind", "remote.absent_desired"}
    BY <2>1 DEF Codes, Met, Reason
  <2>3. ShapedReasons(id, d, item)
    BY <1>1, <2>1 DEF ShapedReasons, ReasonShape, Met, Reason
  <2>4. OutcomeReasons(id, d, item)
    BY <2>1, <2>2 DEF OutcomeReasons, BlockingCodes
  <2>5. UnsupportedPair(d, item)
    BY <1>1, <2>2 DEF UnsupportedPair
  <2> QED BY <1>1, <2>1, <2>2, <2>3, <2>4, <2>5 DEF Passes, OutcomeReasonsV1, item
<1>2. CASE r \in ForeignKind /\ d # Absent
  <2>1. /\ item.outcome = "blocked"
        /\ item.reasons = {Met("remote_state.unsupported_kind", r),
                            Reason("kind.changed", SoughtKind(id))}
    BY <1>2, DiffArms DEF UninterpretedKind, Item
  <2> HIDE DEF item
  <2>2. Codes(item) = {"remote_state.unsupported_kind", "kind.changed"}
    BY <2>1 DEF Codes, Met, Reason
  <2>3. SoughtKind(id) \in {"AzureStorage", "AzureStorageMsi"}
    <3>1. id \notin Rule
      BY <1>2
    <3>2. CASE id \in Scan
      BY <3>1, <3>2 DEF SoughtKind
    <3>3. CASE id \notin Scan
      BY <3>1, <3>3 DEF SoughtKind
    <3> QED BY <3>2, <3>3
  <2>4. ShapedReasons(id, d, item)
    BY <2>1, <2>3 DEF ShapedReasons, ReasonShape, BoundToDesired, Met, Reason
  <2>5. OutcomeReasons(id, d, item)
    BY <2>1, <2>2 DEF OutcomeReasons, BlockingCodes
  <2>6. UnsupportedPair(d, item)
    BY <1>2, <2>2 DEF UnsupportedPair
  <2> QED BY <2>1, <2>2, <2>4, <2>5, <2>6 DEF Passes, OutcomeReasonsV1, item
<1>3. CASE r = UnsupportedType
  <2>0. v # 1
    BY <1>3, IdAssumption
  <2>1. /\ item.outcome = "blocked"
        /\ item.reasons =
             {Met("remote_state.unsupported_scan_ruleset_type", UnsupportedType),
              IF d = Absent THEN Reason("remote.absent_desired", NoAfter)
              ELSE Reason("scanRulesetType.changed", "Custom")}
    BY <1>3, DiffArms DEF UninterpretedType, Item
  <2> HIDE DEF item
  <2>2. "remote_state.unsupported_scan_ruleset_type" \in Codes(item)
    BY <2>1 DEF Codes, Met
  <2>3. ShapedReasons(id, d, item)
    BY <2>1 DEF ShapedReasons, ReasonShape, BoundToDesired, Met, Reason
  <2>4. OutcomeReasons(id, d, item)
    BY <2>1, <2>2 DEF OutcomeReasons, BlockingCodes
  <2> QED BY <2>0, <2>1, <2>3, <2>4 DEF Passes, item
<1>4. CASE r = Missing /\ d = Absent
  <2>1. item.outcome = "none" /\ item.reasons = {}
    BY <1>4, DiffArms DEF Item
  <2> QED BY <1>4, <2>1 DEF Passes, OutcomeReasonsV1, OutcomeReasons, ShapedReasons
<1>5. CASE r = Missing /\ d # Absent
  <2>1. item.outcome = "create" /\ item.reasons = {Reason("desired.absent_remote", NoAfter)}
    BY <1>5, DiffArms DEF Item, Create
  <2> HIDE DEF item
  <2>2. Codes(item) = {"desired.absent_remote"}
    BY <2>1 DEF Codes, Reason
  <2>3. ShapedReasons(id, d, item)
    BY <2>1 DEF ShapedReasons, ReasonShape, BoundToDesired, Reason
  <2> QED BY <1>5, <2>1, <2>2, <2>3
      DEF Passes, OutcomeReasonsV1, OutcomeReasons, CreateReasons, item
<1>6. CASE r \in Interpreted /\ d = Absent
  <2>1. /\ item.outcome = "remote-only"
        /\ item.reasons = Held(r) \union {Reason("remote.absent_desired", NoAfter)}
    BY <1>6, DiffArms DEF Item, RemoteOnly
  <2>2. \A x \in Held(r) : x.code \in Hold
    BY <1>6, HoldsAreHold DEF Held, Reason
  <2> HIDE DEF item
  <2>3. Codes(item) \subseteq Hold \union {"remote.absent_desired"}
        /\ "remote.absent_desired" \in Codes(item)
    <3>1. \A x \in item.reasons : x.code \in Hold \union {"remote.absent_desired"}
      BY <2>1, <2>2 DEF Reason
    <3>2. Reason("remote.absent_desired", NoAfter).code = "remote.absent_desired"
      BY DEF Reason
    <3> QED BY <2>1, <3>1, <3>2 DEF Codes
  <2>4. \A x \in item.reasons :
          x.code # "kind.changed" /\ x.code # "remote_state.unsupported_kind"
    BY <2>1, <2>2 DEF Reason, Hold
  <2>5. ShapedReasons(id, d, item)
    BY <1>6, <2>4 DEF ShapedReasons, ReasonShape
  <2> QED BY <1>6, <2>1, <2>3, <2>5
      DEF Passes, OutcomeReasonsV1, OutcomeReasons, RemoteOnlyReasons, item
<1>7. CASE r \in Interpreted /\ d # Absent
  <2>1. item = Compare(id, d, r) /\ d \in Desired
    BY <1>7, DiffArms
  <2> QED BY <1>7, <2>1, ComparisonPasses
<1> QED BY <1>1, <1>2, <1>3, <1>4, <1>5, <1>6, <1>7 DEF Remote, Uninterpreted

-----------------------------------------------------------------------------
(* Whole change sets and documents. *)

LEMMA EligibilityOutcome ==
  ASSUME NEW items
  PROVE  Eligibility(items) = "ready" <=> \A id \in Id : items[id].outcome # "blocked"
BY DEF Eligibility

(* An operation is on a configured resource. *)
LEMMA ActingAreWanted ==
  ASSUME NEW v \in {1, 2}, NEW desired \in Configuration, NEW remote \in RemoteState,
         NEW id \in ActingIds(ChangeSet(v, desired, remote))
  PROVE  /\ id \in Id /\ (v = 2 \/ id \in DataSource)
         /\ desired[id] \in Desired /\ remote[id] \notin Uninterpreted
         /\ ChangeSet(v, desired, remote)[id] = Diff(id, desired[id], remote[id])
<1>1. /\ id \in Id /\ ChangeSet(v, desired, remote)[id].outcome \in Acting
      /\ desired[id] \in Desired \union {Absent} /\ remote[id] \in Remote
  BY DEF ActingIds, Configuration, RemoteState, Remote
<1>2. /\ v = 2 \/ id \in DataSource
      /\ ChangeSet(v, desired, remote)[id] = Diff(id, desired[id], remote[id])
  BY <1>1, ItemOf DEF Item, Acting
<1>3. desired[id] # Absent
  BY <1>1, <1>2, DiffOutcome
<1>4. remote[id] \notin Uninterpreted
  BY <1>1, <1>2, DiffOutcome DEF Acting
<1> QED BY <1>1, <1>2, <1>3, <1>4

LEMMA DocumentIsValid ==
  ASSUME NEW v \in {1, 2}, NEW target, NEW desired \in Configuration, NEW remote \in RemoteState,
         v = 1 => \A id \in Id \ DataSource : desired[id] = Absent,
         \A id \in Id : remote[id] \in Interpreted => remote[id].holds \subseteq HoldsOf(id),
         \A id \in Id : (v = 2 \/ id \in DataSource) => remote[id] # MisplacedKind,
         \A id \in Rule : desired[id] = Absent \/ remote[id] \notin ForeignKind
  PROVE  ValidPlan(Document(v, target, desired, remote, ChangeSet(v, desired, remote)))
<1> DEFINE items == ChangeSet(v, desired, remote)
           doc == Document(v, target, desired, remote, items)
<1>1. /\ doc.version = v /\ doc.desired = desired /\ doc.items = items /\ Sealed(doc)
      /\ doc.ops = Operations(items) /\ doc.eligibility = Eligibility(items)
  BY DEF Document, Sealed
<1>2. ASSUME NEW id \in Id, v = 2 \/ id \in DataSource
      PROVE  Passes(v, id, desired[id], items[id])
  <2>1. /\ desired[id] \in Desired \union {Absent} /\ remote[id] \in Remote
        /\ remote[id] = UnsupportedType => id \in RuleSet
    BY DEF Configuration, RemoteState, Remote
  <2>2. items[id] = Diff(id, desired[id], remote[id])
    BY <1>2, ItemOf
  <2>3. Passes(v, id, desired[id], Diff(id, desired[id], remote[id]))
    BY <1>2, <2>1, DiffPasses
  <2> QED BY <2>2, <2>3
<1>3. OperationsMatch(doc)
  <2>1. \A i \in DOMAIN Operations(items) : Operations(items)[i].id \in ActingIds(items)
    BY OperationsAre
  <2>2. \A i \in DOMAIN Operations(items) : desired[Operations(items)[i].id] # Absent
    BY <2>1, ActingAreWanted, MarkerAssumption
  <2> HIDE DEF doc, items
  <2> QED BY <1>1, <2>2 DEF OperationsMatch
<1>4. EligibilityMatches(doc)
  <2> HIDE DEF doc, items
  <2> QED BY <1>1 DEF EligibilityMatches
<1>5. ASSUME v = 1 PROVE ValidPlan(doc)
  <2>1. \A id \in Id \ DataSource : items[id].outcome = "none"
    BY <1>5, ItemOf DEF Item
  <2>2. \A id \in Id : desired[id] # Absent => items[id].outcome # "none"
    <3> HIDE DEF items
    <3> QED BY <1>2, <1>5 DEF Passes
  <2>3. MembersV1(doc)
    <3> HIDE DEF items, doc
    <3> QED BY <1>1, <1>5, <2>1, <2>2 DEF MembersV1, Accounted
  <2>4. \A id \in DataSource :
          ShapedReasons(id, desired[id], items[id]) /\ OutcomeReasonsV1(id, desired[id], items[id])
    <3> HIDE DEF items
    <3> QED BY <1>2, <1>5 DEF Passes, Id
  <2> HIDE DEF items, doc
  <2> QED BY <1>1, <1>3, <1>4, <1>5, <2>3, <2>4 DEF ValidPlan, ValidPlanV1
<1>6. ASSUME v = 2 PROVE ValidPlan(doc)
  <2>1. \A id \in Id :
          /\ ShapedReasons(id, desired[id], items[id]) /\ OutcomeReasons(id, desired[id], items[id])
          /\ desired[id] # Absent => items[id].outcome # "none"
    <3> HIDE DEF items
    <3> QED BY <1>2, <1>6 DEF Passes
  <2> HIDE DEF items, doc
  <2> QED BY <1>1, <1>3, <1>4, <1>6, <2>1 DEF ValidPlan, ValidPlanV2, Accounted
<1> QED BY <1>5, <1>6

(* The remote state once the operations of a change set are carried out. *)
CarriedOutOn(items, desired, remote) ==
  [id \in Id |-> IF id \in ActingIds(items) THEN Stored(desired[id]) ELSE remote[id]]

LEMMA CarryingOutSettles ==
  ASSUME NEW v \in {1, 2}, NEW desired \in Configuration, NEW remote \in RemoteState,
         \A id \in Id : ChangeSet(v, desired, remote)[id].outcome # "blocked"
  PROVE  LET after == CarriedOutOn(ChangeSet(v, desired, remote), desired, remote) IN
         /\ after \in RemoteState
         /\ \A id \in Id : after[id] \in Interpreted =>
              after[id].holds = {} \/ after[id] = remote[id]
         /\ \A id \in Id : (v = 2 \/ id \in DataSource) => after[id] \notin Uninterpreted
         /\ \A id \in Id :
              /\ ChangeSet(v, desired, after)[id].outcome \in {"no-op", "remote-only", "none"}
              /\ (v = 2 \/ id \in DataSource) /\ desired[id] # Absent =>
                   /\ after[id].body = desired[id].body
                   /\ id \in RuleSet \union Scan => after[id].uses = desired[id].uses
<1> DEFINE items == ChangeSet(v, desired, remote)
           after == CarriedOutOn(items, desired, remote)
<1>1. \A id \in Id : after[id] = IF id \in ActingIds(items) THEN Stored(desired[id]) ELSE remote[id]
  BY DEF CarriedOutOn
<1>2. \A id \in ActingIds(items) : desired[id] \in Desired /\ id \in Id /\ Stored(desired[id]) \in Interpreted
  BY ActingAreWanted, StoredType
<1>3. after \in RemoteState
  <2>1. \A id \in Id : remote[id] \in Interpreted \union Uninterpreted \union {Missing}
    BY DEF RemoteState
  <2>2. \A id \in Id : after[id] \in Interpreted \union Uninterpreted \union {Missing}
    BY <1>1, <1>2, <2>1
  <2>3. \A id \in Id \ RuleSet : after[id] # UnsupportedType
    BY <1>1, <1>2, MarkerAssumption DEF RemoteState, Uninterpreted
  <2>4. after \in [Id -> Interpreted \union Uninterpreted \union {Missing}]
    BY <2>2 DEF CarriedOutOn
  <2> HIDE DEF after
  <2> QED BY <2>3, <2>4 DEF RemoteState
<1>4. \A id \in Id : after[id] \in Interpreted => after[id].holds = {} \/ after[id] = remote[id]
  <2>1. \A id : Stored(desired[id]).holds = {}
    BY DEF Stored
  <2> QED BY <1>1, <2>1
<1>5. \A id \in Id : (v = 2 \/ id \in DataSource) => remote[id] \notin Uninterpreted
  <2> SUFFICES ASSUME NEW id \in Id, v = 2 \/ id \in DataSource
               PROVE  remote[id] \notin Uninterpreted
    OBVIOUS
  <2>1. desired[id] \in Desired \union {Absent} /\ remote[id] \in Remote
    BY DEF Configuration, RemoteState, Remote
  <2>2. Diff(id, desired[id], remote[id]).outcome # "blocked"
    BY ItemOf
  <2> QED BY <2>1, <2>2, DiffOutcome
<1>6. \A id \in Id : (v = 2 \/ id \in DataSource) => after[id] \notin Uninterpreted
  BY <1>1, <1>2, <1>5, MarkerAssumption
<1>7. ASSUME NEW id \in Id
      PROVE  /\ ChangeSet(v, desired, after)[id].outcome \in {"no-op", "remote-only", "none"}
             /\ (v = 2 \/ id \in DataSource) /\ desired[id] # Absent =>
                  /\ after[id].body = desired[id].body
                  /\ id \in RuleSet \union Scan => after[id].uses = desired[id].uses
  <2> HIDE DEF after
  <2>1. /\ desired[id] \in Desired \union {Absent} /\ remote[id] \in Remote /\ after[id] \in Remote
    BY <1>3 DEF Configuration, RemoteState, Remote
  <2>2. ChangeSet(v, desired, after)[id]
          = IF v = 2 \/ id \in DataSource THEN Diff(id, desired[id], after[id]) ELSE Item("none", {})
    BY ItemOf
  <2>3. CASE ~(v = 2 \/ id \in DataSource)
    BY <2>2, <2>3 DEF Item
  <2>4. CASE id \in ActingIds(items)
    <3>1. desired[id] \in Desired /\ after[id] = Stored(desired[id]) /\ desired[id] # Absent
      BY <1>1, <1>2, <2>4, MarkerAssumption
    <3>2. Diff(id, desired[id], after[id]).outcome = "no-op"
      BY <2>1, <3>1, DiffOutcome
    <3>3. after[id].body = desired[id].body /\ after[id].uses = desired[id].uses
      BY <3>1 DEF Stored
    <3>4. ChangeSet(v, desired, after)[id].outcome = "no-op"
      BY <2>2, <2>4, <3>2, ActingAreWanted
    <3> QED BY <3>3, <3>4
  <2>5. CASE (v = 2 \/ id \in DataSource) /\ id \notin ActingIds(items)
    <3>1. after[id] = remote[id]
      BY <1>1, <2>5
    <3>2. items[id] = Diff(id, desired[id], remote[id]) /\ items[id].outcome \notin Acting
      BY <2>5, ItemOf DEF ActingIds
    <3>3. Diff(id, desired[id], remote[id]).outcome \in {"no-op", "remote-only", "none"}
      BY <2>1, <3>2, DiffOutcome DEF Outcome, Acting
    <3>4. ASSUME desired[id] # Absent
          PROVE  /\ remote[id].body = desired[id].body
                 /\ id \in RuleSet \union Scan => remote[id].uses = desired[id].uses
      <4>1. remote[id] # Missing
        BY <2>1, <3>3, <3>4, DiffOutcome
      <4>2. remote[id] \in Interpreted /\ desired[id] \in Desired
        BY <1>5, <2>1, <2>5, <3>4, <4>1 DEF Remote
      <4>3. Compare(id, desired[id], remote[id]).outcome \in {"no-op", "remote-only", "none"}
        BY <2>1, <3>3, <3>4, <4>2, DiffArms
      <4>4. Compare(id, desired[id], remote[id]).outcome = "no-op"
        BY <4>2, <4>3, CompareOutcome
      <4> QED BY <4>2, <4>4, ReplacedIsOwned
    <3> QED BY <2>2, <2>5, <3>1, <3>3, <3>4
  <2> QED BY <2>3, <2>4, <2>5
<1> QED BY <1>3, <1>4, <1>6, <1>7

LEMMA NoOperations ==
  ASSUME NEW items, ActingIds(items) = {}
  PROVE  Operations(items) = <<>>
<1>1. /\ Operations(items) \in Seq([id : Id, action : Acting])
      /\ DOMAIN Operations(items) = 1..Len(Operations(items))
      /\ \A i \in DOMAIN Operations(items) : FALSE
  BY OperationsAre
<1>2. Len(Operations(items)) = 0
  <2>1. Len(Operations(items)) \in Nat
    BY <1>1, LenProperties
  <2>2. Len(Operations(items)) > 0 => 1 \in DOMAIN Operations(items)
    BY <1>1, <2>1
  <2> QED BY <1>1, <2>1, <2>2
<1> QED BY <1>1, <1>2, EmptySeq
=============================================================================
