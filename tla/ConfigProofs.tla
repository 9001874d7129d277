------------------------------ MODULE ConfigProofs ------------------------------
(***************************************************************************)
(* The configuration and the engine it is synchronized into: the lists of  *)
(* the file, the invariant and the three properties of GatewayConfig, and  *)
(* the invariant and the two safety properties of CoreSync, for every file *)
(* and number of administrators, saves and services, whatever the engine   *)
(* holds at first.                                                         *)
(***************************************************************************)
EXTENDS CoreSync, FiniteSetTheorems, SequenceTheorems, TLAPS

(* Every set of natural numbers that is not empty has a least one.         *)
LEMMA NatLeast ==
    ASSUME NEW T \in SUBSET Nat, T # {}
    PROVE  \E x \in T : \A y \in T : x <= y
<1> DEFINE U == {0 .. n : n \in T}
<1>1. U \subseteq FiniteSubsetsOf(Nat) /\ U # {}
  <2>1. \A n \in Nat : IsFiniteSet(0 .. n) /\ 0 .. n \in SUBSET Nat
    BY FS_Interval
  <2>. QED BY <2>1 DEF FiniteSubsetsOf
<1>2. \E u \in U : \A w \in U : ~ (<<w, u>> \in StrictSubsetOrdering(Nat))
  <2> HIDE DEF U
  <2>. QED BY <1>1, FS_StrictSubsetOrderingWellFounded, WFMin
<1>3. PICK x \in T : \A y \in T : ~ (<<0 .. y, 0 .. x>> \in StrictSubsetOrdering(Nat))
  BY <1>2
<1>4. ASSUME NEW y \in T, y < x
      PROVE  FALSE
  <2>1. 0 .. y \in SUBSET (0 .. x) /\ x \in 0 .. x /\ x \notin 0 .. y
    BY <1>4
  <2>2. 0 .. y \subseteq Nat /\ 0 .. x \subseteq Nat
    OBVIOUS
  <2>3. <<0 .. y, 0 .. x>> \in StrictSubsetOrdering(Nat)
    BY <2>1, <2>2 DEF StrictSubsetOrdering
  <2>. QED BY <1>3, <2>3
<1>. QED BY <1>4

(* The least of the positions that pass a test, or 0 when none does.       *)
LEMMA FirstPosition ==
    ASSUME NEW S, NEW list \in Seq(S), NEW I, I \subseteq DOMAIN list,
           NEW n, n = IF I # {} THEN Min(I) ELSE 0
    PROVE  /\ I = {} => n = 0
           /\ I # {} => n \in I
<1>1. I \in SUBSET Nat
  OBVIOUS
<1>2. ASSUME I # {}
      PROVE  Min(I) \in I
  <2>1. \E x \in I : \A y \in I : x <= y
    BY <1>1, <1>2, NatLeast
  <2>. QED BY <2>1, Zenon DEF Min
<1>. QED BY <1>2

LEMMA IndexOfIs ==
    ASSUME NEW S, NEW list \in Seq(S), NEW field, NEW v
    PROVE  LET n == IndexOf(list, field, v)
           IN  /\ Has(list, field, v) => n \in DOMAIN list /\ list[n][field] = v
               /\ ~ Has(list, field, v) => n = 0
<1> DEFINE I == {i \in 1 .. Len(list) : list[i][field] = v}
           n == IndexOf(list, field, v)
<1>1. n = IF I # {} THEN Min(I) ELSE 0
  BY DEF IndexOf, SelectInSeq
<1>2. /\ I \subseteq DOMAIN list /\ (Has(list, field, v) <=> I # {})
      /\ \A i \in I : i \in DOMAIN list /\ list[i][field] = v
  BY DEF Has
<1> HIDE DEF I, n
<1>3. (I = {} => n = 0) /\ (I # {} => n \in I)
  BY <1>1, <1>2, FirstPosition
<1>. QED BY <1>2, <1>3 DEF n

Total(before, S) ==
    /\ \A i \in S : <<i, i>> \in before
    /\ \A i, j \in S : <<i, j>> \in before \/ <<j, i>> \in before
    /\ \A i, j \in S : <<i, j>> \in before /\ <<j, i>> \in before => i = j
    /\ \A i, j, k \in S : <<i, j>> \in before /\ <<j, k>> \in before => <<i, k>> \in before

(* Arrange lists the elements of a finite set once each.                   *)
LEMMA ArrangeAll ==
    ASSUME NEW S, IsFiniteSet(S), NEW before, Total(before, S)
    PROVE  LET order == Arrange(S, before)
           IN  /\ order \in Seq(S)
               /\ Len(order) = Cardinality(S)
               /\ \A i \in S : \E n \in DOMAIN order : order[n] = i
<1> DEFINE Upto(i) == {j \in S : <<j, i>> \in before}
           rank == [i \in S |-> Cardinality(Upto(i))]
           N == Cardinality(S)
<1> USE DEF Total
<1>1. N \in Nat
  BY FS_CardinalityType
<1>2. \A i \in S : /\ IsFiniteSet(Upto(i)) /\ Cardinality(Upto(i)) \in 1 .. N
  <2> SUFFICES ASSUME NEW i \in S
               PROVE  IsFiniteSet(Upto(i)) /\ Cardinality(Upto(i)) \in 1 .. N
    OBVIOUS
  <2>1. Upto(i) \in SUBSET S /\ i \in Upto(i)
    OBVIOUS
  <2> HIDE DEF Upto
  <2>2. IsFiniteSet(Upto(i)) /\ Cardinality(Upto(i)) <= N
    BY <2>1, FS_Subset
  <2>3. Cardinality(Upto(i)) \in Nat /\ Cardinality(Upto(i)) # 0
    BY <2>1, <2>2, FS_CardinalityType, FS_EmptySet
  <2>. QED BY <1>1, <2>2, <2>3
<1>3. \A i, j \in S : <<i, j>> \in before /\ rank[i] = rank[j] => i = j
  <2> SUFFICES ASSUME NEW i \in S, NEW j \in S, <<i, j>> \in before, rank[i] = rank[j]
               PROVE  i = j
    OBVIOUS
  <2>1. Upto(i) \in SUBSET Upto(j) /\ j \in Upto(j)
    OBVIOUS
  <2>2. Cardinality(Upto(i)) = Cardinality(Upto(j)) /\ IsFiniteSet(Upto(j))
    BY <1>2
  <2>3. j \in Upto(i)
    <3> HIDE DEF Upto
    <3>. QED BY <2>1, <2>2, FS_Subset
  <2>. QED BY <2>3
<1>4. rank \in Injection(S, 1 .. N)
  <2>1. rank \in [S -> 1 .. N]
    BY <1>2
  <2>2. \A i, j \in S : rank[i] = rank[j] => i = j
    BY <1>3
  <2> HIDE DEF rank
  <2>. QED BY <2>1, <2>2 DEF Injection, IsInjective
<1>5. rank \in Surjection(S, 1 .. N)
  <2>1. IsFiniteSet(1 .. N) /\ Cardinality(1 .. N) = N
    BY <1>1, FS_Interval
  <2> HIDE DEF rank
  <2>. QED BY <1>4, <2>1, FS_Injection
<1>6. \A n \in 1 .. N : \E i \in S : rank[i] = n
  BY <1>5 DEF Surjection
<1> DEFINE order == Arrange(S, before)
           Nth(n) == CHOOSE i \in S : Cardinality(Upto(i)) = n
<1>7. order = [n \in 1 .. N |-> Nth(n)]
  BY DEF Arrange
<1>8. ASSUME NEW n \in 1 .. N
      PROVE  Nth(n) \in S /\ rank[Nth(n)] = n
  <2>1. \E i \in S : Cardinality(Upto(i)) = n
    BY <1>6
  <2>2. Nth(n) \in S /\ Cardinality(Upto(Nth(n))) = n
    <3> HIDE DEF Upto
    <3>. QED BY <2>1
  <2>. QED BY <2>2
<1> HIDE DEF order, Nth, rank
<1>9. \A n \in 1 .. N : order[n] \in S /\ rank[order[n]] = n
  BY <1>7, <1>8
<1>10. order \in Seq(S) /\ Len(order) = N /\ DOMAIN order = 1 .. N
  <2>1. order \in [1 .. N -> S]
    BY <1>7, <1>8
  <2>. QED BY <1>1, <2>1
<1>11. \A i \in S : \E n \in DOMAIN order : order[n] = i
  <2> SUFFICES ASSUME NEW i \in S
               PROVE  order[rank[i]] = i /\ rank[i] \in 1 .. N
    BY <1>10
  <2>1. rank[i] \in 1 .. N
    BY <1>2 DEF rank
  <2>2. order[rank[i]] \in S /\ rank[order[rank[i]]] = rank[i]
    BY <1>9, <2>1
  <2>3. \A j, k \in S : rank[j] = rank[k] => j = k
    BY <1>4 DEF Injection, IsInjective
  <2>. QED BY <2>1, <2>2, <2>3
<1>. QED BY <1>10, <1>11 DEF order

LEMMA PickIs ==
    ASSUME NEW T, NEW list \in Seq(T), NEW S, S \subseteq DOMAIN list
    PROVE  LET picked == Pick(list, S)
           IN  /\ picked \in Seq(T) /\ Len(picked) = Cardinality(S)
               /\ \A n \in DOMAIN picked : \E i \in S : picked[n] = list[i]
               /\ \A i \in S : \E n \in DOMAIN picked : picked[n] = list[i]
<1> DEFINE before == {e \in S \X S : e[1] <= e[2]}
           order == Arrange(S, before)
<1>1. S \subseteq 1 .. Len(list) /\ Len(list) \in Nat /\ S \subseteq Int
  OBVIOUS
<1>2. IsFiniteSet(S)
  BY <1>1, FS_Interval, FS_Subset
<1>3. \A i, j \in S : <<i, j>> \in before <=> i <= j
  OBVIOUS
<1>4. /\ order \in Seq(S) /\ Len(order) = Cardinality(S)
      /\ \A i \in S : \E n \in DOMAIN order : order[n] = i
  <2> HIDE DEF before
  <2>1. \A i \in S : <<i, i>> \in before
    BY <1>1, <1>3
  <2>2. \A i, j \in S : <<i, j>> \in before \/ <<j, i>> \in before
    <3>1. \A i, j \in S : i <= j \/ j <= i
      BY <1>1
    <3>. QED BY <1>3, <3>1
  <2>3. \A i, j \in S : <<i, j>> \in before /\ <<j, i>> \in before => i = j
    BY <1>1, <1>3
  <2>4. \A i, j, k \in S : <<i, j>> \in before /\ <<j, k>> \in before => <<i, k>> \in before
    BY <1>1, <1>3
  <2>5. Total(before, S)
    BY <2>1, <2>2, <2>3, <2>4 DEF Total
  <2>. QED BY <1>2, <2>5, ArrangeAll
<1>5. Pick(list, S) = [n \in DOMAIN order |-> list[order[n]]]
  BY DEF Pick, Arranged
<1> HIDE DEF order
<1> DEFINE picked == Pick(list, S)
<1>6. DOMAIN order = 1 .. Len(order) /\ Len(order) \in Nat /\ \A n \in DOMAIN order : order[n] \in S
  BY <1>4
<1>7. /\ picked \in [1 .. Len(order) -> T]
      /\ \A n \in 1 .. Len(order) : picked[n] = list[order[n]]
  BY <1>1, <1>5, <1>6
<1> HIDE DEF picked
<1>8. picked \in Seq(T) /\ Len(picked) = Len(order) /\ DOMAIN picked = 1 .. Len(order)
  BY <1>6, <1>7
<1>. QED BY <1>4, <1>6, <1>7, <1>8 DEF picked

LEMMA RetainIs ==
    ASSUME NEW T, NEW list \in Seq(T), NEW field, NEW v
    PROVE  LET kept == Retain(list, field, v)
           IN  /\ kept \in Seq(T)
               /\ \A n \in DOMAIN kept : \E i \in DOMAIN list : list[i][field] # v /\ kept[n] = list[i]
               /\ \A i \in DOMAIN list : list[i][field] # v => \E n \in DOMAIN kept : kept[n] = list[i]
<1> DEFINE S == DOMAIN list \ Where(list, field, v)
<1>1. S \subseteq DOMAIN list /\ \A i \in DOMAIN list : i \in S <=> list[i][field] # v
  BY DEF Where
<1>2. Retain(list, field, v) = Pick(list, S)
  BY DEF Retain
<1> HIDE DEF S
<1>. QED BY <1>1, <1>2, PickIs

LEMMA PutIs ==
    ASSUME NEW T, NEW list \in Seq(T), NEW field, NEW e \in T
    PROVE  LET list2 == Put(list, field, e)
               n == IndexOf(list, field, e[field])
           IN  /\ list2 \in Seq(T) /\ Has(list2, field, e[field])
               /\ \A i \in DOMAIN list : i \in DOMAIN list2 /\ (list2[i] = list[i] \/ (i = n /\ list2[i] = e))
               /\ n \in DOMAIN list => list[n][field] = e[field]
<1> DEFINE list2 == Put(list, field, e)
           n == IndexOf(list, field, e[field])
<1>1. CASE Has(list, field, e[field])
  <2>1. n \in DOMAIN list /\ list[n][field] = e[field] /\ list2 = [list EXCEPT ![n] = e]
    BY <1>1, IndexOfIs DEF Put
  <2> HIDE DEF n, list2
  <2>2. /\ list2 \in Seq(T) /\ DOMAIN list2 = DOMAIN list /\ list2[n] = e
        /\ \A i \in DOMAIN list : list2[i] = list[i] \/ (i = n /\ list2[i] = e)
    BY <2>1, ExceptSeq
  <2>. QED BY <2>1, <2>2 DEF Has, n, list2
<1>2. CASE ~ Has(list, field, e[field])
  <2>1. n = 0 /\ list2 = Append(list, e)
    BY <1>2, IndexOfIs DEF Put
  <2> HIDE DEF n, list2
  <2>2. /\ list2 \in Seq(T) /\ Len(list2) = Len(list) + 1 /\ list2[Len(list) + 1] = e
        /\ \A i \in 1 .. Len(list) : list2[i] = list[i]
    BY <2>1, AppendProperties
  <2>3. Len(list) \in Nat /\ DOMAIN list = 1 .. Len(list) /\ DOMAIN list2 = 1 .. Len(list) + 1
    BY <2>2
  <2>. QED BY <2>1, <2>2, <2>3 DEF Has, n, list2
<1>. QED BY <1>1, <1>2
-----------------------------------------------------------------------------
(* What an administrative change does to the file: it stays a file, no     *)
(* quota shrinks, no binding is orphaned, no service goes, and what        *)
(* routing depends on changes only when a notice follows.                  *)
KeysKept(f, g) == \A i \in DOMAIN f.api_keys : /\ i \in DOMAIN g.api_keys
                                               /\ g.api_keys[i].key = f.api_keys[i].key
                                               /\ g.api_keys[i].used >= f.api_keys[i].used
Orphan(f, b) == b \in ToSet(f.bindings) /\ ~ Has(f.providers, "name", b.provider)
IdsKept(f, g) == \A i \in DOMAIN f.services : Has(g.services, "id", f.services[i].id)
SameRoutes(f, g) == /\ g.services = f.services /\ g.bindings = f.bindings
                    /\ DOMAIN g.providers = DOMAIN f.providers
                    /\ \A i \in DOMAIN f.providers :
                         g.providers[i] = [f.providers[i] EXCEPT !.models = g.providers[i].models]

Amends(new, next) == /\ new \in Files /\ next \in {Idle, Notify}
                     /\ KeysKept(file, new)
                     /\ \A b : Orphan(new, b) => Orphan(file, b)
                     /\ IdsKept(file, new)
                     /\ SameRoutes(file, new) \/ next = Notify

LEMMA ElementsAre ==
    ASSUME NEW T, NEW list \in Seq(T)
    PROVE  DOMAIN list = 1 .. Len(list) /\ \A i \in DOMAIN list : list[i] \in T
OBVIOUS

LEMMA FileFields ==
    ASSUME NEW f \in Files
    PROVE  /\ f.mode \in Text /\ f.services \in Seq(Service) /\ f.providers \in Seq(Provider)
           /\ f.bindings \in Seq(Binding) /\ f.api_keys \in Seq(ApiKey)
BY DEF Files

LEMMA SameFields ==
    ASSUME NEW f \in Files, NEW g \in Files
    PROVE  /\ g.api_keys = f.api_keys => KeysKept(f, g)
           /\ g.services = f.services => IdsKept(f, g)
           /\ g.bindings = f.bindings /\ g.providers = f.providers => \A b : Orphan(g, b) => Orphan(f, b)
           /\ g.services = f.services /\ g.bindings = f.bindings /\ g.providers = f.providers => SameRoutes(f, g)
<1>1. ASSUME g.api_keys = f.api_keys
      PROVE  KeysKept(f, g)
  <2>1. f.api_keys \in Seq(ApiKey)
    BY FileFields
  <2>2. \A k \in ApiKey : k.used \in Int
    BY DEF ApiKey
  <2>3. \A i \in DOMAIN f.api_keys : f.api_keys[i].used \in Int
    BY <2>1, <2>2, ElementsAre
  <2>. QED BY <1>1, <2>3 DEF KeysKept
<1>2. g.services = f.services => IdsKept(f, g)
  BY DEF IdsKept, Has
<1>3. ASSUME g.services = f.services, g.bindings = f.bindings, g.providers = f.providers
      PROVE  SameRoutes(f, g)
  <2>1. \A p \in Provider : p = [p EXCEPT !.models = p.models]
    BY DEF Provider
  <2>2. f.providers \in Seq(Provider)
    BY FileFields
  <2>3. \A i \in DOMAIN f.providers : f.providers[i] = [f.providers[i] EXCEPT !.models = f.providers[i].models]
    BY <2>1, <2>2, ElementsAre
  <2>. QED BY <1>3, <2>3 DEF SameRoutes
<1>. QED BY <1>1, <1>2, <1>3 DEF Orphan

LEMMA NewMode ==
    ASSUME file \in Files, NEW mode \in Text
    PROVE  Amends([file EXCEPT !.mode = mode], Idle)
<1> DEFINE g == [file EXCEPT !.mode = mode]
<1>1. /\ g \in Files /\ g.services = file.services /\ g.providers = file.providers
      /\ g.bindings = file.bindings /\ g.api_keys = file.api_keys
  BY DEF Files
<1> HIDE DEF g
<1>2. Amends(g, Idle)
  BY <1>1, SameFields DEF Amends
<1>. QED BY <1>2 DEF g

LEMMA NewServices ==
    ASSUME file \in Files, NEW l \in Seq(Service), \A i \in DOMAIN file.services : Has(l, "id", file.services[i].id)
    PROVE  Amends([file EXCEPT !.services = l], Notify)
<1> DEFINE g == [file EXCEPT !.services = l]
<1>1. /\ g \in Files /\ g.services = l /\ g.providers = file.providers
      /\ g.bindings = file.bindings /\ g.api_keys = file.api_keys
  BY DEF Files
<1> HIDE DEF g
<1>2. IdsKept(file, g)
  BY <1>1 DEF IdsKept
<1>3. Amends(g, Notify)
  BY <1>1, <1>2, SameFields DEF Amends
<1>. QED BY <1>3 DEF g

LEMMA NewProviders ==
    ASSUME file \in Files, NEW l \in Seq(Provider),
           \A i \in DOMAIN file.providers : Has(l, "name", file.providers[i].name)
    PROVE  Amends([file EXCEPT !.providers = l], Notify)
<1> DEFINE g == [file EXCEPT !.providers = l]
<1>1. /\ g \in Files /\ g.services = file.services /\ g.providers = l
      /\ g.bindings = file.bindings /\ g.api_keys = file.api_keys
  BY DEF Files
<1> HIDE DEF g
<1>2. \A b : Has(file.providers, "name", b.provider) => Has(l, "name", b.provider)
  BY DEF Has
<1>3. \A b : Orphan(g, b) => Orphan(file, b)
  BY <1>1, <1>2 DEF Orphan
<1>4. Amends(g, Notify)
  BY <1>1, <1>3, SameFields DEF Amends
<1>. QED BY <1>4 DEF g

LEMMA NewKeys ==
    ASSUME file \in Files, NEW l \in Seq(ApiKey),
           \A i \in DOMAIN file.api_keys : /\ i \in DOMAIN l /\ l[i].key = file.api_keys[i].key
                                           /\ l[i].used >= file.api_keys[i].used
    PROVE  Amends([file EXCEPT !.api_keys = l], Idle)
<1> DEFINE g == [file EXCEPT !.api_keys = l]
<1>1. /\ g \in Files /\ g.services = file.services /\ g.providers = file.providers
      /\ g.bindings = file.bindings /\ g.api_keys = l
  BY DEF Files
<1> HIDE DEF g
<1>2. KeysKept(file, g)
  BY <1>1 DEF KeysKept
<1>3. Amends(g, Idle)
  BY <1>1, <1>2, SameFields DEF Amends
<1>. QED BY <1>3 DEF g
-----------------------------------------------------------------------------
Amended(a) == \E new, next : Amends(new, next) /\ Change(a, new, next)

LEMMA DefaultModes ==
    ASSUME file \in Files, NEW a, NEW s \in Services, SetConfigValue(a, s) \/ SetDefaultMode(a, s)
    PROVE  Amended(a)
<1>1. Amends([file EXCEPT !.mode = s], Idle)
  BY ConfigValues, NewMode
<1>2. Change(a, [file EXCEPT !.mode = s], Idle)
  BY DEF SetConfigValue, SetDefaultMode
<1>. QED BY <1>1, <1>2 DEF Amended

LEMMA NewService ==
    ASSUME file \in Files, NEW a, NEW s \in Services, CreateService(a, s)
    PROVE  Amended(a)
<1> DEFINE e == [id |-> s, strategy |-> "round_robin"]
           l == Append(file.services, e)
<1>1. file.services \in Seq(Service) /\ e \in Service
  <2>1. file.services \in Seq(Service)
    BY FileFields
  <2>2. s \in Text
    BY ConfigValues
  <2>3. "round_robin" \in Text
    BY DEF Text
  <2>4. e \in Service
    BY <2>2, <2>3 DEF Service
  <2>. QED BY <2>1, <2>4
<1>2. Amends(file, Notify)
  BY SameFields DEF Amends
<1>3. /\ l \in Seq(Service)
      /\ \A i \in DOMAIN file.services : i \in DOMAIN l /\ l[i] = file.services[i]
  <2> HIDE DEF e
  <2>. QED BY <1>1, AppendProperties
<1>4. Amends([file EXCEPT !.services = l], Notify)
  <2> HIDE DEF l
  <2>1. \A i \in DOMAIN file.services : Has(l, "id", file.services[i].id)
    BY <1>3 DEF Has
  <2>. QED BY <1>3, <2>1, NewServices
<1>5. Change(a, file, Notify) \/ Change(a, [file EXCEPT !.services = l], Notify)
  <2>1. CASE Has(file.services, "id", s)
    BY <2>1 DEF CreateService
  <2>2. CASE ~ Has(file.services, "id", s)
    BY <2>2 DEF CreateService
  <2>. QED BY <2>1, <2>2
<1>. QED BY <1>2, <1>4, <1>5 DEF Amended

LEMMA NewStrategy ==
    ASSUME file \in Files, NEW a, NEW s, NEW strategy \in Text, SetServiceRoutingStrategy(a, s, strategy)
    PROVE  Amended(a)
<1> DEFINE n == IndexOf(file.services, "id", s)
           e == [file.services[n] EXCEPT !.strategy = strategy]
           l == [file.services EXCEPT ![n] = e]
<1>1. file.services \in Seq(Service) /\ n \in DOMAIN file.services
  BY FileFields, IndexOfIs DEF SetServiceRoutingStrategy
<1>2. Change(a, [file EXCEPT !.services = l], Notify)
  BY DEF SetServiceRoutingStrategy
<1> HIDE DEF n
<1>3. e \in Service /\ e.id = file.services[n].id
  <2>1. file.services[n] \in Service
    BY <1>1, ElementsAre
  <2>. QED BY <2>1 DEF Service
<1> HIDE DEF e
<1>4. /\ l \in Seq(Service) /\ DOMAIN l = DOMAIN file.services
      /\ \A i \in DOMAIN file.services : l[i].id = file.services[i].id
  BY <1>1, <1>3, ExceptSeq
<1> HIDE DEF l
<1>5. \A i \in DOMAIN file.services : Has(l, "id", file.services[i].id)
  BY <1>4 DEF Has
<1>. QED BY <1>2, <1>4, <1>5, NewServices DEF Amended

LEMMA NewProvider ==
    ASSUME file \in Files, NEW a, NEW form \in Forms, NEW models \in Models, CreateProvider(a, form, models)
    PROVE  Amended(a)
<1> DEFINE url == StoredUrl(form.endpoint, form.url)
           e == [form EXCEPT !.enabled = TRUE, !.models = models, !.url = url]
           l == Put(file.providers, "name", e)
<1>1. form \in Provider /\ models \in Text /\ file.providers \in Seq(Provider)
  BY FileFields, ConfigValues
<1>2. url \in Text
  <2>1. "none" \in Text
    BY DEF Text
  <2>2. form.url \in Text
    BY <1>1 DEF Provider
  <2>. QED BY <2>1, <2>2 DEF StoredUrl
<1>3. Change(a, [file EXCEPT !.providers = l], Notify)
  BY DEF CreateProvider
<1> HIDE DEF url
<1>4. e \in Provider
  BY <1>1, <1>2 DEF Provider
<1> HIDE DEF e
<1>5. /\ l \in Seq(Provider)
      /\ \A i \in DOMAIN file.providers : i \in DOMAIN l /\ l[i].name = file.providers[i].name
  <2> DEFINE n == IndexOf(file.providers, "name", e.name)
  <2>1. /\ l \in Seq(Provider)
        /\ \A i \in DOMAIN file.providers : i \in DOMAIN l /\ (l[i] = file.providers[i] \/ (i = n /\ l[i] = e))
        /\ n \in DOMAIN file.providers => file.providers[n].name = e.name
    BY <1>1, <1>4, PutIs
  <2>. QED BY <2>1
<1> HIDE DEF l
<1>6. \A i \in DOMAIN file.providers : Has(l, "name", file.providers[i].name)
  BY <1>5 DEF Has
<1>. QED BY <1>3, <1>5, <1>6, NewProviders DEF Amended

LEMMA NewEntry ==
    ASSUME file \in Files, NEW a, NEW form \in Forms, NEW given, UpdateProviderByName(a, form, given)
    PROVE  Amended(a)
<1> DEFINE n == IndexOf(file.providers, "name", form.name)
           old == file.providers[n]
           url == StoredUrl(old.endpoint, form.url)
           e == [old EXCEPT !.url = IF "url" \in given THEN url ELSE @,
                            !.key = IF "key" \in given THEN form.key ELSE @,
                            !.models = IF "models" \in given THEN form.models ELSE @]
           l == [file.providers EXCEPT ![n] = e]
<1>1. form \in Provider /\ file.providers \in Seq(Provider)
  BY FileFields, ConfigValues
<1>2. n \in DOMAIN file.providers
  BY <1>1, IndexOfIs DEF UpdateProviderByName
<1>3. Change(a, [file EXCEPT !.providers = l], Notify)
  BY DEF UpdateProviderByName
<1> HIDE DEF n
<1>4. old \in Provider
  BY <1>1, <1>2, ElementsAre
<1> HIDE DEF old
<1>5. url \in Text
  <2>1. "none" \in Text
    BY DEF Text
  <2>2. form.url \in Text
    BY <1>1 DEF Provider
  <2>. QED BY <2>1, <2>2 DEF StoredUrl
<1> HIDE DEF url
<1>6. e \in Provider /\ e.name = old.name
  BY <1>1, <1>4, <1>5 DEF Provider
<1> HIDE DEF e
<1>7. /\ l \in Seq(Provider) /\ DOMAIN l = DOMAIN file.providers
      /\ \A i \in DOMAIN file.providers : l[i].name = file.providers[i].name
  <2>1. old = file.providers[n]
    BY DEF old
  <2>. QED BY <1>1, <1>2, <1>6, <2>1, ExceptSeq
<1> HIDE DEF l
<1>8. \A i \in DOMAIN file.providers : Has(l, "name", file.providers[i].name)
  BY <1>7 DEF Has
<1>. QED BY <1>3, <1>7, <1>8, NewProviders DEF Amended

(* The bindings of a deleted provider go with it, so that none is orphaned.*)
LEMMA LessProvider ==
    ASSUME file \in Files, NEW a, NEW p, DeleteProviderByName(a, p)
    PROVE  Amended(a)
<1> DEFINE l == Retain(file.providers, "name", p)
           m == Retain(file.bindings, "provider", p)
           g == [file EXCEPT !.providers = l, !.bindings = m]
<1>1. file.providers \in Seq(Provider) /\ file.bindings \in Seq(Binding)
  BY FileFields
<1>2. Change(a, g, Notify)
  BY DEF DeleteProviderByName
<1>3. /\ l \in Seq(Provider)
      /\ \A i \in DOMAIN file.providers :
           file.providers[i].name # p => \E n \in DOMAIN l : l[n] = file.providers[i]
  BY <1>1, RetainIs
<1>4. /\ m \in Seq(Binding)
      /\ \A n \in DOMAIN m : \E i \in DOMAIN file.bindings : /\ file.bindings[i].provider # p
                                                             /\ m[n] = file.bindings[i]
  BY <1>1, RetainIs
<1> HIDE DEF l, m
<1>5. /\ g \in Files /\ g.services = file.services /\ g.providers = l
      /\ g.bindings = m /\ g.api_keys = file.api_keys
  BY <1>3, <1>4 DEF Files
<1> HIDE DEF g
<1>6. ASSUME NEW b, Orphan(g, b)
      PROVE  Orphan(file, b)
  <2>1. b \in ToSet(file.bindings) /\ b.provider # p
    BY <1>4, <1>5, <1>6 DEF Orphan, ToSet
  <2>2. Has(file.providers, "name", b.provider) => Has(l, "name", b.provider)
    BY <1>3, <2>1 DEF Has
  <2>. QED BY <1>5, <1>6, <2>1, <2>2 DEF Orphan
<1>7. Amends(g, Notify)
  BY <1>5, <1>6, SameFields DEF Amends
<1>. QED BY <1>2, <1>7 DEF Amended

LEMMA NewModels ==
    ASSUME file \in Files, NEW a, NEW n, NEW models \in Models, SetProviderModelOptions(a, n, models)
    PROVE  Amended(a)
<1> DEFINE e == [file.providers[n] EXCEPT !.models = models]
           l == [file.providers EXCEPT ![n] = e]
           g == [file EXCEPT !.providers = l]
<1>1. file.providers \in Seq(Provider) /\ n \in DOMAIN file.providers /\ models \in Text
  BY FileFields, ConfigValues DEF SetProviderModelOptions
<1>2. Change(a, g, Idle)
  BY DEF SetProviderModelOptions
<1>3. file.providers[n] \in Provider
  BY <1>1, ElementsAre
<1>4. e \in Provider /\ e.name = file.providers[n].name /\ e = [file.providers[n] EXCEPT !.models = e.models]
  BY <1>1, <1>3 DEF Provider
<1> HIDE DEF e
<1>5. /\ l \in Seq(Provider) /\ DOMAIN l = DOMAIN file.providers /\ l[n] = e
      /\ \A i \in DOMAIN file.providers \ {n} : l[i] = file.providers[i]
  BY <1>1, <1>4, ExceptSeq
<1> HIDE DEF l
<1>6. /\ g \in Files /\ g.services = file.services /\ g.providers = l
      /\ g.bindings = file.bindings /\ g.api_keys = file.api_keys
  BY <1>5 DEF Files
<1> HIDE DEF g
<1>7. SameRoutes(file, g)
  <2>1. SameRoutes(file, file)
    BY SameFields
  <2>. QED BY <1>4, <1>5, <1>6, <2>1 DEF SameRoutes
<1>8. ASSUME NEW b, Orphan(g, b)
      PROVE  Orphan(file, b)
  <2>1. \A i \in DOMAIN file.providers : l[i].name = file.providers[i].name
    BY <1>4, <1>5
  <2>. QED BY <1>5, <1>6, <1>8, <2>1 DEF Orphan, Has
<1>9. Amends(g, Idle)
  BY <1>6, <1>7, <1>8, SameFields DEF Amends
<1>. QED BY <1>2, <1>9 DEF Amended

LEMMA NewKey ==
    ASSUME file \in Files, NEW a, NEW k \in Keys, NEW s \in Services, CreateApiKey(a, k, s)
    PROVE  Amended(a)
<1> DEFINE n == IndexOf(file.api_keys, "key", k)
           used == IF n = 0 THEN 0 ELSE file.api_keys[n].used
           e == [key |-> k, service |-> s, used |-> used]
           l == Put(file.api_keys, "key", e)
<1>1. file.api_keys \in Seq(ApiKey) /\ k \in Text /\ s \in Text
  BY FileFields, ConfigValues
<1>2. (n = 0 \/ n \in DOMAIN file.api_keys) /\ 0 \notin DOMAIN file.api_keys
  BY <1>1, IndexOfIs
<1>3. Change(a, [file EXCEPT !.api_keys = l], Idle)
  BY DEF CreateApiKey
<1>4. e.key = k /\ e.used = used
  OBVIOUS
<1>5. IndexOf(file.api_keys, "key", e.key) = n
  BY <1>4
<1> HIDE DEF n
<1>6. \A i \in DOMAIN file.api_keys : file.api_keys[i] \in ApiKey /\ file.api_keys[i].used \in Int
  <2>1. \A x \in ApiKey : x.used \in Int
    BY DEF ApiKey
  <2>. QED BY <1>1, <2>1, ElementsAre
<1>7. used \in Int
  BY <1>2, <1>6
<1>8. n \in DOMAIN file.api_keys => used = file.api_keys[n].used
  BY <1>2
<1> HIDE DEF used
<1>9. e \in ApiKey
  BY <1>1, <1>7 DEF ApiKey
<1> HIDE DEF e
<1>10. /\ l \in Seq(ApiKey)
       /\ \A i \in DOMAIN file.api_keys : i \in DOMAIN l /\ (l[i] = file.api_keys[i] \/ (i = n /\ l[i] = e))
       /\ n \in DOMAIN file.api_keys => file.api_keys[n].key = e.key
  <2> DEFINE n2 == IndexOf(file.api_keys, "key", e.key)
  <2>1. /\ l \in Seq(ApiKey)
        /\ \A i \in DOMAIN file.api_keys : i \in DOMAIN l /\ (l[i] = file.api_keys[i] \/ (i = n2 /\ l[i] = e))
        /\ n2 \in DOMAIN file.api_keys => file.api_keys[n2].key = e.key
    BY <1>1, <1>9, PutIs
  <2>. QED BY <1>5, <2>1
<1> HIDE DEF l
<1>11. \A i \in DOMAIN file.api_keys : /\ i \in DOMAIN l /\ l[i].key = file.api_keys[i].key
                                       /\ l[i].used >= file.api_keys[i].used
  BY <1>4, <1>6, <1>8, <1>10
<1>. QED BY <1>3, <1>10, <1>11, NewKeys DEF Amended

LEMMA OtherService ==
    ASSUME file \in Files, NEW a, NEW k, NEW s \in Services, RebindApiKeyService(a, k, s)
    PROVE  Amended(a)
<1> DEFINE n == IndexOf(file.api_keys, "key", k)
           e == [file.api_keys[n] EXCEPT !.service = s]
           l == [file.api_keys EXCEPT ![n] = e]
<1>1. file.api_keys \in Seq(ApiKey) /\ s \in Text
  BY FileFields, ConfigValues
<1>2. n \in DOMAIN file.api_keys
  BY <1>1, IndexOfIs DEF RebindApiKeyService
<1>3. Change(a, [file EXCEPT !.api_keys = l], Idle)
  BY DEF RebindApiKeyService
<1> HIDE DEF n
<1>4. \A i \in DOMAIN file.api_keys : file.api_keys[i] \in ApiKey /\ file.api_keys[i].used \in Int
  <2>1. \A x \in ApiKey : x.used \in Int
    BY DEF ApiKey
  <2>. QED BY <1>1, <2>1, ElementsAre
<1>5. e \in ApiKey /\ e.key = file.api_keys[n].key /\ e.used = file.api_keys[n].used
  <2>1. file.api_keys[n] \in ApiKey
    BY <1>2, <1>4
  <2>. QED BY <1>1, <2>1 DEF ApiKey
<1> HIDE DEF e
<1>6. /\ l \in Seq(ApiKey) /\ DOMAIN l = DOMAIN file.api_keys
      /\ \A i \in DOMAIN file.api_keys : l[i] = file.api_keys[i] \/ (i = n /\ l[i] = e)
  BY <1>1, <1>2, <1>5, ExceptSeq
<1> HIDE DEF l
<1>. QED BY <1>3, <1>4, <1>5, <1>6, NewKeys, SMTT(40) DEF Amended

LEMMA MoreUsed ==
    ASSUME file \in Files, NEW a, NEW k, IncrementUsedQuota(a, k)
    PROVE  Amended(a)
<1> DEFINE n == IndexOf(file.api_keys, "key", k)
           e == [file.api_keys[n] EXCEPT !.used = @ + 1]
           l == [file.api_keys EXCEPT ![n] = e]
<1>1. file.api_keys \in Seq(ApiKey)
  BY FileFields
<1>2. n \in DOMAIN file.api_keys
  BY <1>1, IndexOfIs DEF IncrementUsedQuota
<1>3. Change(a, [file EXCEPT !.api_keys = l], Idle)
  BY DEF IncrementUsedQuota
<1> HIDE DEF n
<1>4. \A i \in DOMAIN file.api_keys : file.api_keys[i] \in ApiKey /\ file.api_keys[i].used \in Int
  <2>1. \A x \in ApiKey : x.used \in Int
    BY DEF ApiKey
  <2>. QED BY <1>1, <2>1, ElementsAre
<1>5. e \in ApiKey /\ e.key = file.api_keys[n].key /\ e.used = file.api_keys[n].used + 1
  <2>1. file.api_keys[n] \in ApiKey
    BY <1>2, <1>4
  <2>. QED BY <2>1 DEF ApiKey
<1> HIDE DEF e
<1>6. /\ l \in Seq(ApiKey) /\ DOMAIN l = DOMAIN file.api_keys
      /\ \A i \in DOMAIN file.api_keys : l[i] = file.api_keys[i] \/ (i = n /\ l[i] = e)
  BY <1>1, <1>2, <1>5, ExceptSeq
<1> HIDE DEF l
<1>7. \A i \in DOMAIN file.api_keys : l[i].key = file.api_keys[i].key /\ l[i].used >= file.api_keys[i].used
  BY <1>2, <1>4, <1>5, <1>6
<1>. QED BY <1>3, <1>6, <1>7, NewKeys DEF Amended

(* A bind that was overtaken by a deletion writes the one orphan there is. *)
LEMMA Bound ==
    ASSUME file \in Files, NEW a, call[a].entry \in Binding, BindWrite(a)
    PROVE  /\ file' \in Files /\ KeysKept(file, file') /\ IdsKept(file, file')
           /\ \A b : Orphan(file', b) => Orphan(file, b) \/ b = call[a].entry
<1> DEFINE e == call[a].entry
           I == {i \in 1 .. Len(file.bindings) : /\ file.bindings[i].service = e.service
                                                 /\ file.bindings[i].provider = e.provider}
           n == IF I # {} THEN Min(I) ELSE 0
           l == IF n = 0 THEN Append(file.bindings, e) ELSE [file.bindings EXCEPT ![n] = e]
<1>1. file.bindings \in Seq(Binding) /\ e \in Binding
  BY FileFields
<1>2. file' = [file EXCEPT !.bindings = l]
  BY DEF BindWrite, SelectInSeq
<1>3. n = 0 \/ n \in DOMAIN file.bindings
  <2>1. I \subseteq DOMAIN file.bindings
    BY <1>1
  <2> HIDE DEF I
  <2>2. (I = {} => n = 0) /\ (I # {} => n \in I)
    BY <1>1, <2>1, FirstPosition
  <2>. QED BY <2>1, <2>2
<1> HIDE DEF n, e
<1>4. l \in Seq(Binding) /\ \A j \in DOMAIN l : l[j] = e \/ \E i \in DOMAIN file.bindings : l[j] = file.bindings[i]
  <2>1. CASE n = 0
    <3>1. l = Append(file.bindings, e)
      BY <2>1
    <3> HIDE DEF l
    <3>. QED BY <1>1, <3>1, AppendProperties
  <2>2. CASE n # 0
    <3>1. l = [file.bindings EXCEPT ![n] = e] /\ n \in DOMAIN file.bindings
      BY <1>3, <2>2
    <3> HIDE DEF l
    <3>. QED BY <1>1, <3>1, ExceptSeq
  <2>. QED BY <2>1, <2>2
<1> HIDE DEF l
<1>5. /\ file' \in Files /\ file'.services = file.services /\ file'.providers = file.providers
      /\ file'.bindings = l /\ file'.api_keys = file.api_keys
  BY <1>2, <1>4 DEF Files
<1>6. ASSUME NEW b, Orphan(file', b), b # e
      PROVE  Orphan(file, b)
  BY <1>4, <1>5, <1>6 DEF Orphan, ToSet
<1>7. KeysKept(file, file') /\ IdsKept(file, file')
  BY <1>5, SameFields
<1>. QED BY <1>5, <1>6, <1>7 DEF e
-----------------------------------------------------------------------------
(* The invariant: types; a dead process holds nothing; and, as long as no  *)
(* two saves have overlapped, the one save that writes has the temporary   *)
(* file to itself and the file on disk is whole, each save carries the     *)
(* file as it is unless a change slipped in, and a clean store has the     *)
(* file on disk.                                                           *)
SaverStates == {Idle, [at |-> "renamed"]} \union [at : {"copied"}, copy : Files]
                   \union [at : {"opened", "written"}, copy : Files, inode : Inodes]
CallStates == {Idle, Notify} \union [at : {"bind"}, entry : Binding]
Names == Inodes \union {Missing}

StoreTypes == /\ file \in Files /\ dirty \in BOOLEAN /\ up \in BOOLEAN
              /\ slipped \in BOOLEAN /\ overlapped \in BOOLEAN
              /\ saver \in [Savers -> SaverStates]
              /\ call \in [Admins -> CallStates]
              /\ disk \in [path : Names, tmp : Names, data : [Inodes -> Files \union {Torn}]]

DownHoldsNothing == ~ up => /\ ~ dirty /\ ~ slipped
                            /\ \A s \in Savers : saver[s] = Idle
                            /\ \A a \in Admins : call[a] = Idle

Writes(s) == saver[s].at \in {"opened", "written"}
OneWriter == \A s, t \in Savers : Writes(s) /\ Writes(t) => s = t
TmpIsMine == /\ disk.tmp = disk.path => disk.tmp = Missing
             /\ \A s \in Savers : Writes(s) => disk.tmp # Missing /\ saver[s].inode = disk.tmp
             /\ \A s \in Savers : saver[s].at = "written" => disk.data[disk.tmp] = saver[s].copy
CopyIsFile == ~ slipped => \A s \in Savers : /\ saver[s].at \in {"copied", "opened", "written"} => saver[s].copy = file
                                             /\ saver[s].at = "renamed" => OnDisk = file
CleanIsSaved == up /\ ~ dirty /\ ~ slipped => OnDisk = file
Alone == OneWriter /\ TmpIsMine /\ CopyIsFile /\ CleanIsSaved /\ OnDisk \in Files

CInv == StoreTypes /\ DownHoldsNothing /\ (overlapped \/ Alone)

LEMMA TornIsNoFile == Torn \notin Files
<1>1. Torn.torn = TRUE /\ DOMAIN Torn = {"torn"}
  BY DEF Torn
<1>2. \A f \in Files : "mode" \in DOMAIN f
  BY DEF Files
<1>. QED BY <1>1, <1>2

LEMMA EmptyIsAFile == EmptyFile \in Files
<1>1. "none" \in Text
  BY DEF Text
<1>. QED BY <1>1 DEF EmptyFile, Files

LEMMA CallForms ==
    ASSUME NEW c \in CallStates
    PROVE  c.at = "bind" => c.entry \in Binding
<1>1. Idle.at = "idle" /\ Notify.at = "notify"
  BY DEF Idle, Notify
<1>2. c = Idle \/ c = Notify \/ c \in [at : {"bind"}, entry : Binding]
  BY DEF CallStates
<1>3. c \in [at : {"bind"}, entry : Binding] => c.entry \in Binding
  OBVIOUS
<1>. QED BY <1>1, <1>2, <1>3

(* What an administrative step does to the store.                          *)
Amending(a) ==
    /\ up /\ up' = up /\ saver' = saver /\ disk' = disk /\ overlapped' = overlapped
    /\ call' \in [Admins -> CallStates]
    /\ file' \in Files /\ KeysKept(file, file') /\ IdsKept(file, file')
    /\ \A b : Orphan(file', b) => Orphan(file, b) \/ (call[a].at = "bind" /\ call[a].entry = b)
    /\ \/ file' = file /\ dirty' = dirty /\ slipped' = slipped
       \/ dirty' = TRUE /\ slipped' = (slipped \/ Saving # {})
    /\ SameRoutes(file, file') \/ call'[a].at = "notify"

LEMMA AmendedIs ==
    ASSUME CInv, NEW a \in Admins, Amended(a)
    PROVE  Amending(a)
<1>1. PICK new, next : Amends(new, next) /\ Change(a, new, next)
  BY DEF Amended
<1>2. call \in [Admins -> CallStates] /\ next \in CallStates /\ (next = Notify => next.at = "notify")
  BY <1>1 DEF CInv, StoreTypes, Amends, CallStates, Notify
<1>3. call' \in [Admins -> CallStates] /\ call'[a] = next
  BY <1>1, <1>2 DEF Change
<1>4. file' = new
  BY <1>1 DEF Change
<1>. QED BY <1>1, <1>2, <1>3, <1>4 DEF Change, Amends, Amending

LEMMA Overtaken ==
    ASSUME CInv, NEW a \in Admins, BindWrite(a)
    PROVE  Amending(a)
<1>1. call[a] \in CallStates /\ call \in [Admins -> CallStates] /\ file \in Files /\ Idle.at = "idle"
  BY DEF CInv, StoreTypes, Idle
<1>2. call[a].at = "bind" /\ up
  BY <1>1 DEF BindWrite, CInv, DownHoldsNothing
<1>3. call[a].entry \in Binding
  BY <1>1, <1>2, CallForms
<1>4. call' = [call EXCEPT ![a] = Notify] /\ Notify \in CallStates /\ Notify.at = "notify"
  BY DEF BindWrite, CallStates, Notify
<1>5. call' \in [Admins -> CallStates] /\ call'[a].at = "notify"
  BY <1>1, <1>4
<1>6. /\ file' \in Files /\ KeysKept(file, file') /\ IdsKept(file, file')
      /\ \A b : Orphan(file', b) => Orphan(file, b) \/ b = call[a].entry
  BY <1>1, <1>3, Bound
<1>7. /\ up' = up /\ saver' = saver /\ disk' = disk /\ overlapped' = overlapped
      /\ dirty' = TRUE /\ slipped' = (slipped \/ Saving # {})
  BY DEF BindWrite
<1>. QED BY <1>2, <1>5, <1>6, <1>7 DEF Amending

LEMMA CallOnly ==
    ASSUME CInv, NEW a \in Admins,
           RequestCoreSync(a) \/ \E s \in Services, i \in DOMAIN file.providers, n \in Priorities : BindLookup(a, s, i, n)
    PROVE  Amending(a)
<1>1. call \in [Admins -> CallStates] /\ file \in Files /\ Idle.at = "idle"
  BY DEF CInv, StoreTypes, Idle
<1>2. file' = file /\ dirty' = dirty /\ slipped' = slipped /\ up' = up /\ saver' = saver /\ disk' = disk
      /\ overlapped' = overlapped
  BY DEF RequestCoreSync, BindLookup, config
<1>3. up /\ call' \in [Admins -> CallStates]
  <2>1. CASE RequestCoreSync(a)
    <3>1. Idle \in CallStates
      BY DEF CallStates
    <3>. QED BY <1>1, <2>1, <3>1 DEF RequestCoreSync, CInv, DownHoldsNothing
  <2>2. ASSUME NEW s \in Services, NEW i \in DOMAIN file.providers, NEW n \in Priorities, BindLookup(a, s, i, n)
        PROVE  up /\ call' \in [Admins -> CallStates]
    <3> DEFINE e == [service |-> s, provider |-> file.providers[i].name, priority |-> n]
    <3>1. s \in Text /\ n \in Int
      BY ConfigValues DEF Text
    <3>2. file.providers[i] \in Provider
      BY <1>1, FileFields, ElementsAre
    <3>3. file.providers[i].name \in Text
      BY <3>2 DEF Provider
    <3>4. e \in Binding
      BY <3>1, <3>3 DEF Binding
    <3>5. up /\ call' = [call EXCEPT ![a] = [at |-> "bind", entry |-> e]]
      BY <2>2 DEF BindLookup
    <3> HIDE DEF e
    <3>6. [at |-> "bind", entry |-> e] \in CallStates
      BY <3>4 DEF CallStates
    <3>. QED BY <1>1, <3>5, <3>6
  <2>. QED BY <2>1, <2>2
<1>4. /\ KeysKept(file, file') /\ IdsKept(file, file') /\ SameRoutes(file, file')
      /\ \A b : Orphan(file', b) => Orphan(file, b)
  BY <1>1, <1>2, SameFields
<1>. QED BY <1>1, <1>2, <1>3, <1>4 DEF Amending

LEMMA AdminKinds ==
    ASSUME CInv, NEW a \in Admins, Administer(a)
    PROVE  \/ Amended(a) \/ BindWrite(a) \/ RequestCoreSync(a)
           \/ \E s \in Services, i \in DOMAIN file.providers, n \in Priorities : BindLookup(a, s, i, n)
<1>1. file \in Files
  BY DEF CInv, StoreTypes
<1>2. "fallback" \in Text /\ "weighted" \in Text
  BY DEF Text
<1>3. ASSUME NEW s \in Services, \/ SetConfigValue(a, s) \/ SetDefaultMode(a, s) \/ CreateService(a, s)
                                 \/ SetServiceRoutingStrategy(a, s, "fallback")
                                 \/ SetServiceRoutingStrategy(a, s, "weighted")
                                 \/ \E k \in Keys : CreateApiKey(a, k, s) \/ RebindApiKeyService(a, k, s)
      PROVE  Amended(a)
  BY <1>1, <1>2, <1>3, DefaultModes, NewService, NewStrategy, NewKey, OtherService
<1>4. ASSUME NEW form \in Forms, \/ \E m \in Models : CreateProvider(a, form, m)
                                 \/ \E given \in SUBSET Replaceable : UpdateProviderByName(a, form, given)
                                 \/ DeleteProviderByName(a, form.name)
      PROVE  Amended(a)
  BY <1>1, <1>4, NewProvider, NewEntry, LessProvider
<1>5. ASSUME \/ \E i \in DOMAIN file.providers, m \in Models : SetProviderModelOptions(a, i, m)
             \/ \E k \in Keys : IncrementUsedQuota(a, k)
      PROVE  Amended(a)
  BY <1>1, <1>5, NewModels, MoreUsed
<1>. QED BY <1>3, <1>4, <1>5 DEF Administer

LEMMA Administered ==
    ASSUME CInv, NEW a \in Admins, Administer(a)
    PROVE  Amending(a)
BY AdminKinds, AmendedIs, Overtaken, CallOnly

LEMMA AmendingKeeps ==
    ASSUME CInv, NEW a \in Admins, Amending(a)
    PROVE  CInv'
<1>1. StoreTypes' /\ DownHoldsNothing'
  BY DEF Amending, CInv, StoreTypes, DownHoldsNothing
<1>2. ASSUME Alone
      PROVE  Alone'
  <2>1. OneWriter' /\ TmpIsMine' /\ OnDisk' = OnDisk
    BY <1>2 DEF Alone, Amending, OneWriter, TmpIsMine, Writes, OnDisk
  <2>2. CASE file' = file /\ dirty' = dirty /\ slipped' = slipped
    BY <1>2, <2>1, <2>2 DEF Alone, Amending, CopyIsFile, CleanIsSaved
  <2>3. CASE dirty' = TRUE /\ slipped' = (slipped \/ Saving # {})
    <3>1. CleanIsSaved'
      BY <2>3 DEF CleanIsSaved
    <3>2. ASSUME ~ slipped', NEW s \in Savers
          PROVE  saver[s].at = "idle"
      BY <2>3, <3>2 DEF Saving
    <3>3. CopyIsFile'
      BY <3>2 DEF CopyIsFile, Amending
    <3>. QED BY <1>2, <2>1, <3>1, <3>3 DEF Alone
  <2>. QED BY <2>2, <2>3 DEF Amending
<1>. QED BY <1>1, <1>2 DEF CInv, Amending
-----------------------------------------------------------------------------
LEMMA InodesAre == 0 \in Inodes /\ 1 \in Inodes /\ Missing \notin Inodes /\ Inodes \subseteq Int
<1>1. Cardinality(Savers) \in Nat
  BY ConfigValues, FS_CardinalityType
<1>. QED BY <1>1 DEF Inodes, Missing

LEMMA SaverForms ==
    ASSUME NEW c \in SaverStates
    PROVE  /\ c.at \in {"idle", "copied", "opened", "written", "renamed"}
           /\ c.at \in {"copied", "opened", "written"} => c.copy \in Files
           /\ c.at \in {"opened", "written"} => c.inode \in Inodes
<1>1. Idle.at = "idle"
  BY DEF Idle
<1>2. \/ c = Idle \/ c = [at |-> "renamed"] \/ c \in [at : {"copied"}, copy : Files]
      \/ c \in [at : {"opened", "written"}, copy : Files, inode : Inodes]
  BY DEF SaverStates
<1>. QED BY <1>1, <1>2

(* There are two inodes more than saves: a save that creates the temporary *)
(* file finds one that no name stands for and no other save still writes.  *)
LEMMA FreeInode ==
    ASSUME CInv, NEW s \in Savers, saver[s].at = "copied", disk.tmp = Missing
    PROVE  LET held == {saver[t].inode : t \in {t \in Saving : saver[t].at \in {"opened", "written"}}}
           IN  Inodes \ ({disk.path, disk.tmp} \union held) # {}
<1> DEFINE W == {t \in Saving : saver[t].at \in {"opened", "written"}}
           f == [t \in W |-> saver[t].inode]
           held == {saver[t].inode : t \in W}
           N == Cardinality(Savers)
<1>1. IsFiniteSet(Savers) /\ N \in Nat
  BY ConfigValues, FS_CardinalityType
<1>2. IsFiniteSet(Savers \ {s}) /\ Cardinality(Savers \ {s}) = N - 1
  BY <1>1, FS_RemoveElement
<1>3. W \in SUBSET (Savers \ {s})
  BY DEF Saving
<1>4. IsFiniteSet(W) /\ Cardinality(W) <= N - 1 /\ Cardinality(W) \in Nat
  <2> HIDE DEF W
  <2>. QED BY <1>2, <1>3, FS_Subset, FS_CardinalityType
<1>5. f \in Surjection(W, held)
  <2> HIDE DEF W
  <2>. QED BY DEF Surjection
<1>6. IsFiniteSet(held) /\ Cardinality(held) <= Cardinality(W) /\ Cardinality(held) \in Nat
  <2> HIDE DEF W, f, held
  <2>. QED BY <1>4, <1>5, FS_Surjection, FS_CardinalityType
<1> DEFINE X == held \union {disk.path}
<1>7. IsFiniteSet(X) /\ Cardinality(X) <= N
  <2> HIDE DEF W, held
  <2>1. /\ IsFiniteSet(held \union {disk.path})
        /\ Cardinality(held \union {disk.path}) =
             IF disk.path \in held THEN Cardinality(held) ELSE Cardinality(held) + 1
    BY <1>6, FS_AddElement
  <2>. QED BY <1>1, <1>4, <1>6, <2>1
<1>8. ASSUME Inodes \ ({disk.path, disk.tmp} \union held) = {}
      PROVE  FALSE
  <2>1. Missing \notin Inodes
    BY InodesAre
  <2>2. Inodes \in SUBSET X
    <3> HIDE DEF W, held
    <3>. QED BY <1>8, <2>1
  <2>3. Cardinality(Inodes) = N + 2
    BY <1>1, FS_Interval DEF Inodes
  <2> HIDE DEF X
  <2>4. Cardinality(Inodes) <= Cardinality(X)
    BY <1>7, <2>2, FS_Subset
  <2>5. Cardinality(X) \in Nat
    BY <1>7, FS_CardinalityType
  <2>. QED BY <1>1, <1>7, <2>3, <2>4, <2>5
<1>. QED BY <1>8

LEMMA CopyKeeps ==
    ASSUME CInv, NEW s \in Savers, SaveCopy(s)
    PROVE  CInv'
<1> DEFINE c == [at |-> "copied", copy |-> file]
<1>1. c \in SaverStates
  BY DEF SaverStates, CInv, StoreTypes
<1>2. saver' = [saver EXCEPT ![s] = c] /\ c.at = "copied" /\ c.copy = file
  BY DEF SaveCopy
<1> HIDE DEF c
<1>3. StoreTypes' /\ DownHoldsNothing'
  BY <1>1, <1>2 DEF CInv, StoreTypes, DownHoldsNothing, SaveCopy
<1>4. ASSUME Alone
      PROVE  Alone'
  <2>1. saver \in [Savers -> SaverStates]
    BY DEF CInv, StoreTypes
  <2>2. OneWriter' /\ TmpIsMine'
    BY <1>2, <1>4, <2>1 DEF Alone, OneWriter, TmpIsMine, Writes, SaveCopy
  <2>3. OnDisk' = OnDisk /\ CleanIsSaved'
    BY <1>4 DEF Alone, CleanIsSaved, OnDisk, SaveCopy
  <2>4. CopyIsFile'
    <3>1. CASE Saving = {}
      <4>1. \A t \in Savers : saver[t].at = "idle"
        BY <3>1 DEF Saving
      <4>. QED BY <1>2, <2>1, <4>1 DEF CopyIsFile, SaveCopy
    <3>2. CASE Saving # {}
      <4>1. slipped' = slipped /\ file' = file
        BY <3>2 DEF SaveCopy, CInv, StoreTypes
      <4>. QED BY <1>2, <1>4, <2>1, <2>3, <4>1 DEF CopyIsFile, Alone
    <3>. QED BY <3>1, <3>2
  <2>. QED BY <1>4, <2>2, <2>3, <2>4 DEF Alone
<1>5. overlapped' = overlapped
  BY DEF SaveCopy
<1>. QED BY <1>3, <1>4, <1>5 DEF CInv

LEMMA OpenKeeps ==
    ASSUME CInv, NEW s \in Savers, SaveOpen(s)
    PROVE  CInv'
<1> DEFINE held == {saver[t].inode : t \in {t \in Saving : saver[t].at \in {"opened", "written"}}}
           free == Inodes \ ({disk.path, disk.tmp} \union held)
           i == IF disk.tmp # Missing THEN disk.tmp ELSE CHOOSE j \in free : TRUE
           c == [at |-> "opened", copy |-> saver[s].copy, inode |-> i]
<1>1. /\ saver \in [Savers -> SaverStates] /\ saver[s] \in SaverStates
      /\ disk \in [path : Names, tmp : Names, data : [Inodes -> Files \union {Torn}]]
  BY DEF CInv, StoreTypes
<1>2. saver[s].at = "copied" /\ saver[s].copy \in Files
  BY <1>1, SaverForms DEF SaveOpen
<1>3. /\ disk' = [disk EXCEPT !.tmp = i, !.data[i] = Torn]
      /\ saver' = [saver EXCEPT ![s] = c]
      /\ overlapped' = (overlapped \/ held # {})
  BY DEF SaveOpen
<1>4. i \in Inodes /\ (disk.tmp # Missing => i = disk.tmp) /\ (disk.tmp = Missing => i # disk.path)
  <2>1. CASE disk.tmp # Missing
    BY <1>1, <2>1 DEF Names
  <2>2. CASE disk.tmp = Missing
    <3>1. free # {}
      BY <1>2, <2>2, FreeInode
    <3>2. i \in free
      <4> HIDE DEF free
      <4>. QED BY <2>2, <3>1
    <3>. QED BY <2>2, <3>2
  <2>. QED BY <2>1, <2>2
<1>5. held = {} => \A t \in Savers : ~ Writes(t)
  BY DEF Saving, Writes
<1> HIDE DEF i, held
<1>6. c \in SaverStates /\ c.at = "opened" /\ c.copy = saver[s].copy /\ c.inode = i
  BY <1>2, <1>4 DEF SaverStates
<1> HIDE DEF c
<1>7. /\ disk'.tmp = i /\ disk'.path = disk.path /\ disk'.data = [disk.data EXCEPT ![i] = Torn]
      /\ disk' \in [path : Names, tmp : Names, data : [Inodes -> Files \union {Torn}]]
  BY <1>1, <1>3, <1>4 DEF Names
<1>8. StoreTypes' /\ DownHoldsNothing'
  <2>1. overlapped' \in BOOLEAN
    BY <1>3 DEF CInv, StoreTypes
  <2>2. up
    <3>1. Idle.at = "idle"
      BY DEF Idle
    <3>. QED BY <1>2, <3>1 DEF CInv, DownHoldsNothing
  <2>3. /\ file' = file /\ dirty' = dirty /\ slipped' = slipped /\ up' = up /\ call' = call
    BY DEF SaveOpen, config
  <2>4. saver' \in [Savers -> SaverStates]
    BY <1>1, <1>3, <1>6
  <2>. QED BY <1>7, <2>1, <2>2, <2>3, <2>4 DEF CInv, StoreTypes, DownHoldsNothing
<1>9. ASSUME ~ overlapped'
      PROVE  Alone'
  <2>1. Alone /\ \A t \in Savers : ~ Writes(t)
    BY <1>3, <1>5, <1>9 DEF CInv
  <2>2. i # disk.path
    BY <1>4, <2>1 DEF Alone, TmpIsMine
  <2>3. OnDisk' = OnDisk
    BY <1>1, <1>7, <2>2 DEF OnDisk, Names
  <2>4. \A t \in Savers : Writes(t)' => t = s
    BY <1>1, <1>3, <2>1 DEF Writes
  <2>5. OneWriter'
    BY <2>4 DEF OneWriter
  <2>6. TmpIsMine'
    <3>1. i # Missing
      BY <1>4, InodesAre
    <3>. QED BY <1>1, <1>3, <1>6, <1>7, <2>2, <2>4, <3>1 DEF TmpIsMine, Writes
  <2>7. CopyIsFile'
    <3>1. \A t \in Savers : t # s => saver'[t] = saver[t]
      BY <1>1, <1>3
    <3>2. saver'[s] = c
      BY <1>1, <1>3
    <3>3. file' = file /\ slipped' = slipped
      BY DEF SaveOpen, config
    <3>. QED BY <1>2, <1>6, <2>1, <2>3, <3>1, <3>2, <3>3 DEF CopyIsFile, Alone
  <2>8. CleanIsSaved'
    BY <2>1, <2>3 DEF CleanIsSaved, Alone, SaveOpen, config
  <2>. QED BY <2>1, <2>3, <2>5, <2>6, <2>7, <2>8 DEF Alone, SaveOpen, config
<1>. QED BY <1>8, <1>9 DEF CInv

LEMMA SavingIsUp ==
    ASSUME CInv, NEW s \in Savers, saver[s].at # "idle"
    PROVE  up
<1>1. Idle.at = "idle"
  BY DEF Idle
<1>. QED BY <1>1 DEF CInv, DownHoldsNothing

LEMMA WriteKeeps ==
    ASSUME CInv, NEW s \in Savers, SaveWrite(s)
    PROVE  CInv'
<1> DEFINE c == [saver[s] EXCEPT !.at = "written"]
           i == saver[s].inode
<1>1. /\ saver \in [Savers -> SaverStates] /\ saver[s] \in SaverStates /\ saver[s].at = "opened"
      /\ disk \in [path : Names, tmp : Names, data : [Inodes -> Files \union {Torn}]]
  BY DEF CInv, StoreTypes, SaveWrite
<1>2. saver[s].copy \in Files /\ i \in Inodes /\ i # Missing
  BY <1>1, SaverForms, InodesAre
<1>3. /\ disk' = [disk EXCEPT !.data[i] = saver[s].copy] /\ saver' = [saver EXCEPT ![s] = c]
  BY DEF SaveWrite
<1>4. c \in SaverStates /\ c.at = "written" /\ c.copy = saver[s].copy /\ c.inode = i
  <2>1. Idle.at = "idle"
    BY DEF Idle
  <2>2. saver[s] \in [at : {"opened", "written"}, copy : Files, inode : Inodes]
    BY <1>1, <2>1 DEF SaverStates
  <2>3. c \in [at : {"opened", "written"}, copy : Files, inode : Inodes]
    BY <2>2
  <2>. QED BY <2>2, <2>3 DEF SaverStates
<1> HIDE DEF c, i
<1>5. /\ disk'.tmp = disk.tmp /\ disk'.path = disk.path /\ disk'.data = [disk.data EXCEPT ![i] = saver[s].copy]
      /\ disk' \in [path : Names, tmp : Names, data : [Inodes -> Files \union {Torn}]]
  BY <1>1, <1>2, <1>3
<1>6. /\ file' = file /\ dirty' = dirty /\ slipped' = slipped /\ up' = up /\ call' = call
      /\ overlapped' = overlapped
  BY DEF SaveWrite, config
<1>7. saver' \in [Savers -> SaverStates] /\ saver'[s] = c /\ \A t \in Savers : t # s => saver'[t] = saver[t]
  BY <1>1, <1>3, <1>4
<1>8. StoreTypes' /\ DownHoldsNothing'
  <2>1. up
    BY <1>1, SavingIsUp
  <2>. QED BY <1>5, <1>6, <1>7, <2>1 DEF CInv, StoreTypes, DownHoldsNothing
<1>9. ASSUME Alone
      PROVE  Alone'
  <2>1. i = disk.tmp /\ i # disk.path
    BY <1>1, <1>2, <1>9 DEF Alone, TmpIsMine, Writes, i
  <2>2. OnDisk' = OnDisk
    BY <1>1, <1>5, <2>1 DEF OnDisk, Names
  <2>3. \A t \in Savers : Writes(t) <=> Writes(t)'
    BY <1>1, <1>4, <1>7 DEF Writes
  <2>4. \A t \in Savers : Writes(t) => t = s
    BY <1>1, <1>9 DEF Alone, OneWriter, Writes
  <2>5. OneWriter'
    BY <2>3, <2>4 DEF OneWriter
  <2>6. disk'.data[disk.tmp] = saver[s].copy
    BY <1>1, <1>2, <1>5, <2>1
  <2>7. TmpIsMine'
    BY <1>2, <1>4, <1>5, <1>7, <2>1, <2>3, <2>4, <2>6 DEF TmpIsMine, Writes
  <2>8. CopyIsFile'
    BY <1>1, <1>4, <1>6, <1>7, <1>9, <2>2 DEF CopyIsFile, Alone
  <2>. QED BY <1>6, <1>9, <2>2, <2>5, <2>7, <2>8 DEF Alone, CleanIsSaved
<1>. QED BY <1>6, <1>8, <1>9 DEF CInv

LEMMA RenameKeeps ==
    ASSUME CInv, NEW s \in Savers, SaveRename(s)
    PROVE  CInv'
<1> DEFINE c == [at |-> "renamed"]
<1>1. /\ saver \in [Savers -> SaverStates] /\ saver[s] \in SaverStates /\ saver[s].at = "written"
      /\ disk \in [path : Names, tmp : Names, data : [Inodes -> Files \union {Torn}]] /\ disk.tmp # Missing
  BY DEF CInv, StoreTypes, SaveRename
<1>2. disk' = [disk EXCEPT !.path = disk.tmp, !.tmp = Missing] /\ saver' = [saver EXCEPT ![s] = c]
  BY DEF SaveRename
<1>3. c \in SaverStates /\ c.at = "renamed"
  BY DEF SaverStates
<1> HIDE DEF c
<1>4. /\ disk'.tmp = Missing /\ disk'.path = disk.tmp /\ disk'.data = disk.data
      /\ disk' \in [path : Names, tmp : Names, data : [Inodes -> Files \union {Torn}]]
  BY <1>1, <1>2 DEF Names
<1>5. /\ file' = file /\ dirty' = dirty /\ slipped' = slipped /\ up' = up /\ call' = call
      /\ overlapped' = overlapped
  BY DEF SaveRename, config
<1>6. saver' \in [Savers -> SaverStates] /\ saver'[s] = c /\ \A t \in Savers : t # s => saver'[t] = saver[t]
  BY <1>1, <1>2, <1>3
<1>7. StoreTypes' /\ DownHoldsNothing'
  <2>1. up
    BY <1>1, SavingIsUp
  <2>. QED BY <1>4, <1>5, <1>6, <2>1 DEF CInv, StoreTypes, DownHoldsNothing
<1>8. ASSUME Alone
      PROVE  Alone'
  <2>1. \A t \in Savers : Writes(t) => t = s
    BY <1>1, <1>8 DEF Alone, OneWriter, Writes
  <2>2. \A t \in Savers : ~ Writes(t)'
    BY <1>3, <1>6, <2>1 DEF Writes
  <2>3. OneWriter' /\ TmpIsMine'
    BY <1>4, <2>2 DEF OneWriter, TmpIsMine, Writes
  <2>4. OnDisk' = saver[s].copy
    BY <1>1, <1>4, <1>8 DEF Alone, TmpIsMine, OnDisk
  <2>5. saver[s].copy \in Files /\ (~ slipped => saver[s].copy = file)
    BY <1>1, <1>8, SaverForms DEF Alone, CopyIsFile
  <2>6. CopyIsFile'
    BY <1>3, <1>5, <1>6, <1>8, <2>4, <2>5 DEF CopyIsFile, Alone
  <2>. QED BY <1>5, <2>3, <2>4, <2>5, <2>6 DEF Alone, CleanIsSaved
<1>. QED BY <1>5, <1>7, <1>8 DEF CInv

(* A save that ends, well or not.                                          *)
LEMMA EndKeeps ==
    ASSUME CInv, NEW s \in Savers, SaveDone(s) \/ SaveFails(s)
    PROVE  CInv'
<1>1. saver \in [Savers -> SaverStates] /\ saver' = [saver EXCEPT ![s] = Idle]
  BY DEF CInv, StoreTypes, SaveDone, SaveFails
<1>2. Idle.at = "idle" /\ Idle \in SaverStates
  BY DEF Idle, SaverStates
<1>3. /\ file' = file /\ slipped' = slipped /\ up' = up /\ call' = call /\ disk' = disk
      /\ overlapped' = overlapped
  BY DEF SaveDone, SaveFails, config
<1>4. saver' \in [Savers -> SaverStates] /\ saver'[s] = Idle /\ \A t \in Savers : t # s => saver'[t] = saver[t]
  BY <1>1, <1>2
<1>5. dirty' \in BOOLEAN /\ (dirty' # dirty => saver[s].at = "renamed")
  BY DEF CInv, StoreTypes, SaveDone, SaveFails, config
<1>6. StoreTypes' /\ DownHoldsNothing'
  <2>1. up
    <3>1. saver[s].at # "idle"
      BY DEF SaveDone, SaveFails
    <3>. QED BY <3>1, SavingIsUp
  <2>. QED BY <1>3, <1>4, <1>5, <2>1 DEF CInv, StoreTypes, DownHoldsNothing
<1>7. ASSUME Alone
      PROVE  Alone'
  <2>1. \A t \in Savers : Writes(t)' => Writes(t) /\ t # s
    BY <1>2, <1>4 DEF Writes
  <2>2. OneWriter'
    BY <1>7, <2>1 DEF Alone, OneWriter
  <2>3. TmpIsMine'
    BY <1>2, <1>3, <1>4, <1>7, <2>1 DEF Alone, TmpIsMine
  <2>4. OnDisk' = OnDisk
    BY <1>3 DEF OnDisk
  <2>5. CopyIsFile'
    BY <1>2, <1>3, <1>4, <1>7, <2>4 DEF Alone, CopyIsFile
  <2>6. CleanIsSaved'
    <3>1. CASE dirty' = dirty
      BY <1>3, <1>7, <2>4, <3>1 DEF Alone, CleanIsSaved
    <3>2. CASE dirty' # dirty
      BY <1>3, <1>5, <1>7, <2>4, <3>2 DEF Alone, CopyIsFile, CleanIsSaved
    <3>. QED BY <3>1, <3>2
  <2>. QED BY <1>7, <2>2, <2>3, <2>4, <2>5, <2>6, <1>3 DEF Alone
<1>. QED BY <1>3, <1>6, <1>7 DEF CInv

LEMMA CrashKeeps ==
    ASSUME CInv, Crash
    PROVE  CInv'
<1>1. /\ up' = FALSE /\ file' = EmptyFile /\ dirty' = FALSE /\ slipped' = FALSE
      /\ call' = [a \in Admins |-> Idle] /\ saver' = [s \in Savers |-> Idle]
      /\ disk' = disk /\ overlapped' = overlapped
  BY DEF Crash
<1>2. Idle.at = "idle" /\ Idle \in SaverStates /\ Idle \in CallStates
  BY DEF Idle, SaverStates, CallStates
<1>3. StoreTypes' /\ DownHoldsNothing'
  <2>1. call' \in [Admins -> CallStates] /\ saver' \in [Savers -> SaverStates]
    BY <1>1, <1>2
  <2>. QED BY <1>1, <2>1, EmptyIsAFile DEF CInv, StoreTypes, DownHoldsNothing
<1>4. ASSUME Alone
      PROVE  Alone'
  <2>1. \A t \in Savers : saver'[t].at = "idle"
    BY <1>1, <1>2
  <2>2. OnDisk' = OnDisk
    BY <1>1 DEF OnDisk
  <2>3. OneWriter' /\ TmpIsMine' /\ CopyIsFile'
    BY <1>1, <1>4, <2>1 DEF Alone, OneWriter, TmpIsMine, CopyIsFile, Writes
  <2>. QED BY <1>1, <1>4, <2>2, <2>3 DEF Alone, CleanIsSaved
<1>. QED BY <1>1, <1>3, <1>4 DEF CInv

LEMMA LoadKeeps ==
    ASSUME CInv, Load
    PROVE  CInv'
<1>1. /\ ~ up /\ OnDisk # Torn /\ file' = OnDisk /\ up' = TRUE /\ dirty' = dirty /\ call' = call
      /\ saver' = saver /\ disk' = disk /\ slipped' = slipped /\ overlapped' = overlapped
  BY DEF Load
<1>2. file' \in Files
  <2>1. disk \in [path : Names, tmp : Names, data : [Inodes -> Files \union {Torn}]]
    BY DEF CInv, StoreTypes
  <2>. QED BY <1>1, <2>1, EmptyIsAFile DEF OnDisk, Names
<1>3. StoreTypes' /\ DownHoldsNothing'
  BY <1>1, <1>2 DEF CInv, StoreTypes, DownHoldsNothing
<1>4. ASSUME Alone
      PROVE  Alone'
  <2>1. OnDisk' = OnDisk
    BY <1>1 DEF OnDisk
  <2>2. \A s \in Savers : saver[s].at = "idle"
    <3>1. Idle.at = "idle"
      BY DEF Idle
    <3>. QED BY <1>1, <3>1 DEF CInv, DownHoldsNothing
  <2>3. OneWriter' /\ TmpIsMine' /\ CopyIsFile' /\ CleanIsSaved'
    BY <1>1, <1>4, <2>1, <2>2 DEF Alone, OneWriter, TmpIsMine, CopyIsFile, CleanIsSaved, Writes
  <2>. QED BY <1>4, <2>1, <2>3 DEF Alone
<1>. QED BY <1>1, <1>3, <1>4 DEF CInv

LEMMA InitStore == Init => CInv
<1> SUFFICES ASSUME Init
             PROVE  CInv
  OBVIOUS
<1>1. file \in Files
  BY ConfigValues DEF Init
<1>2. 0 \in Inodes /\ Missing # 0
  BY InodesAre
<1>3. /\ disk \in [path : Names, tmp : Names, data : [Inodes -> Files \union {Torn}]]
      /\ disk.tmp = Missing /\ disk.path = (IF file = EmptyFile THEN Missing ELSE 0) /\ disk.data[0] = file
  BY <1>1, <1>2 DEF Init, Names
<1>4. OnDisk = file
  BY <1>2, <1>3 DEF OnDisk
<1>5. Idle.at = "idle" /\ Idle \in SaverStates /\ Idle \in CallStates
  BY DEF Idle, SaverStates, CallStates
<1>6. saver = [s \in Savers |-> Idle] /\ call = [a \in Admins |-> Idle]
  BY DEF Init
<1>7. StoreTypes
  <2>1. call \in [Admins -> CallStates] /\ saver \in [Savers -> SaverStates]
    BY <1>5, <1>6
  <2>. QED BY <1>1, <1>3, <2>1 DEF Init, StoreTypes
<1>8. \A s \in Savers : saver[s].at = "idle"
  BY <1>5, <1>6
<1>9. OneWriter /\ TmpIsMine /\ CopyIsFile /\ CleanIsSaved
  BY <1>3, <1>4, <1>8 DEF OneWriter, TmpIsMine, CopyIsFile, CleanIsSaved, Writes
<1>. QED BY <1>1, <1>4, <1>7, <1>9 DEF CInv, Alone, DownHoldsNothing, Init
-----------------------------------------------------------------------------
LEMMA SavesKeep ==
    ASSUME CInv, NEW s \in Savers, Save(s)
    PROVE  CInv' /\ file' = file /\ up' = up
<1>1. CInv'
  BY CopyKeeps, OpenKeeps, WriteKeeps, RenameKeeps, EndKeeps DEF Save
<1>2. file' = file /\ up' = up
  BY DEF Save, SaveCopy, SaveOpen, SaveWrite, SaveRename, SaveDone, SaveFails, config
<1>. QED BY <1>1, <1>2

LEMMA StoreKeeps == CInv /\ [StoreNext]_vars => CInv'
<1> SUFFICES ASSUME CInv, [StoreNext]_vars
             PROVE  CInv'
  OBVIOUS
<1>1. CASE UNCHANGED vars
  BY <1>1 DEF CInv, StoreTypes, DownHoldsNothing, Alone, OneWriter, TmpIsMine, CopyIsFile, CleanIsSaved, Writes, OnDisk, vars
<1>2. CASE StoreNext
  BY <1>2, Administered, AmendingKeeps, SavesKeep, CrashKeeps, LoadKeeps DEF StoreNext
<1>. QED BY <1>1, <1>2

(* The invariant: see CInv.                                                *)
THEOREM StoreInvHolds == StoreSpec => []CInv
<1>1. CInv /\ [StoreNext]_vars => CInv'
  BY StoreKeeps
<1>. QED BY InitStore, <1>1, PTL DEF StoreSpec

(* A store that calls itself clean has its file on disk, and the file on   *)
(* disk is whole, whatever crashes and fails, but for a change that slips  *)
(* into a save and saves that overlap (store.rs:57-77).                    *)
THEOREM CleanSaved == StoreSpec => []CleanMeansSaved
<1>1. CInv => CleanMeansSaved
  <2>1. CInv /\ ~ overlapped => OnDisk \in Files /\ CleanIsSaved
    BY DEF CInv, Alone
  <2>. QED BY <2>1, TornIsNoFile DEF CleanMeansSaved, CleanIsSaved
<1>. QED BY StoreInvHolds, <1>1, PTL

LEMMA QuotaStep ==
    ASSUME CInv, StoreNext, up, up', NEW i \in DOMAIN file.api_keys
    PROVE  \E j \in DOMAIN file'.api_keys : /\ file'.api_keys[j].key = file.api_keys[i].key
                                            /\ file'.api_keys[j].used >= file.api_keys[i].used
<1>1. \/ \E a \in Admins : Administer(a)
      \/ \E s \in Savers : Save(s)
  BY DEF StoreNext, Crash, Load
<1>2. CASE \E a \in Admins : Administer(a)
  BY <1>2, Administered DEF Amending, KeysKept
<1>3. CASE \E s \in Savers : Save(s)
  <2>1. file' = file /\ file \in Files
    BY <1>3, SavesKeep DEF CInv, StoreTypes
  <2>2. KeysKept(file, file')
    BY <2>1, SameFields
  <2>. QED BY <2>2 DEF KeysKept
<1>. QED BY <1>1, <1>2, <1>3

(* No administrative call, save or failure gives back quota a key has used *)
(* (mutations.rs, api_keys.rs): only a crash does.                         *)
THEOREM NoQuotaRefilled == StoreSpec => QuotaNeverRefilled
<1>1. CInv /\ [StoreNext]_vars =>
        [\A i \in DOMAIN file.api_keys :
           up /\ up' => \E j \in DOMAIN file.api_keys' : /\ file'.api_keys[j].key = file.api_keys[i].key
                                                         /\ file'.api_keys[j].used >= file.api_keys[i].used]_vars
  BY QuotaStep
<1>. QED BY StoreInvHolds, <1>1, PTL DEF StoreSpec, QuotaNeverRefilled

LEMMA OrphanStep ==
    ASSUME CInv, StoreNext, up, NEW b, Orphan(file', b), ~ Orphan(file, b)
    PROVE  \E a \in Admins : call[a].at = "bind" /\ call[a].entry = b
<1>1. CASE \E a \in Admins : Administer(a)
  BY <1>1, Administered DEF Amending
<1>2. CASE \E s \in Savers : Save(s)
  BY <1>2, SavesKeep
<1>3. CASE Crash
  <2>1. file'.bindings = <<>>
    BY <1>3 DEF Crash, EmptyFile
  <2>. QED BY <2>1 DEF Orphan, ToSet
<1>4. ~ Load
  BY DEF Load
<1>. QED BY <1>1, <1>2, <1>3, <1>4 DEF StoreNext

(* A binding loses its provider only when a bind is overtaken by the       *)
(* deletion of the provider it has looked up (mutations.rs:198-243).       *)
THEOREM OrphansByRaceOnly == StoreSpec => DanglingOnlyByRace
<1>1. CInv /\ [StoreNext]_vars =>
        [\A b \in Dangling' \ Dangling : \/ ~ up
                                         \/ \E a \in Admins : call[a].at = "bind" /\ call[a].entry = b]_vars
  <2> SUFFICES ASSUME CInv, StoreNext, up, NEW b \in Dangling' \ Dangling
               PROVE  \E a \in Admins : call[a].at = "bind" /\ call[a].entry = b
    OBVIOUS
  <2>1. Orphan(file', b) /\ ~ Orphan(file, b)
    BY DEF Dangling, Orphan
  <2>. QED BY <2>1, OrphanStep
<1>. QED BY StoreInvHolds, <1>1, PTL DEF StoreSpec, DanglingOnlyByRace
-----------------------------------------------------------------------------
(* What routing depends on: all but the models of an endpoint.              *)
Routed(endpoint) == [endpoint EXCEPT !.models = {}]

LEMMA SameProvider ==
    ASSUME NEW f \in Files, NEW g \in Files, SameRoutes(f, g), NEW i \in DOMAIN f.providers, NEW b
    PROVE  /\ g.providers[i].name = f.providers[i].name
           /\ Projects(g.providers[i]) = Projects(f.providers[i])
           /\ Routed(CoreEndpoint(g.providers[i], b))
                = Routed(CoreEndpoint(f.providers[i], b))
<1> DEFINE p == f.providers[i]
           q == g.providers[i]
<1>1. p \in Provider /\ q = [p EXCEPT !.models = q.models]
  BY FileFields, ElementsAre DEF SameRoutes
<1> HIDE DEF p, q
<1>2. /\ q.name = p.name /\ q.type = p.type /\ q.endpoint = p.endpoint /\ q.url = p.url
      /\ q.key = p.key /\ q.enabled = p.enabled
  BY <1>1 DEF Provider
<1>3. Projects(q) = Projects(p)
  BY <1>2 DEF Projects, Resolves
<1>4. DriverId(q) = DriverId(p)
  BY <1>2 DEF DriverId
<1> HIDE DEF DriverId
<1>5. Routed(CoreEndpoint(q, b)) = Routed(CoreEndpoint(p, b))
  <2> DEFINE E(d, n, k, m) == [driver |-> d, id |-> n, models |-> m, priority |-> k]
  <2>1. CoreEndpoint(p, b) = E(DriverId(p), p.name, b.priority, p.models)
    BY DEF CoreEndpoint
  <2>2. CoreEndpoint(q, b) = E(DriverId(p), p.name, b.priority, q.models)
    BY <1>2, <1>4 DEF CoreEndpoint
  <2>3. ASSUME NEW d, NEW n, NEW k, NEW m
        PROVE  Routed(E(d, n, k, m)) = E(d, n, k, {})
    BY DEF Routed
  <2> HIDE DEF E
  <2>. QED BY <2>1, <2>2, <2>3
<1>. QED BY <1>2, <1>3, <1>5 DEF p, q

LEMMA SameIndex ==
    ASSUME NEW f \in Files, NEW g \in Files, SameRoutes(f, g), NEW name
    PROVE  /\ Has(g.providers, "name", name) = Has(f.providers, "name", name)
           /\ IndexOf(g.providers, "name", name) = IndexOf(f.providers, "name", name)
<1>1. /\ DOMAIN g.providers = DOMAIN f.providers
      /\ \A i \in DOMAIN f.providers : g.providers[i].name = f.providers[i].name
  <2>1. DOMAIN g.providers = DOMAIN f.providers
    BY DEF SameRoutes
  <2>. QED BY <2>1, SameProvider
<1>2. f.providers \in Seq(Provider) /\ g.providers \in Seq(Provider)
  BY FileFields
<1>3. Len(g.providers) = Len(f.providers) /\ DOMAIN f.providers = 1 .. Len(f.providers)
  BY <1>1, <1>2
<1>4. {i \in 1 .. Len(g.providers) : g.providers[i].name = name}
        = {i \in 1 .. Len(f.providers) : f.providers[i].name = name}
  BY <1>1, <1>3
<1>5. IndexOf(g.providers, "name", name) = IndexOf(f.providers, "name", name)
  BY <1>4 DEF IndexOf, SelectInSeq
<1>6. Has(g.providers, "name", name) = Has(f.providers, "name", name)
  BY <1>1 DEF Has
<1>. QED BY <1>5, <1>6

(* The bindings of a service, as a pool is built from them.                *)
LEMMA BindingsAre ==
    ASSUME NEW f \in Files, NEW id
    PROVE  LET bs == BindingsForService(f, id)
           IN  /\ bs \in Seq(Binding)
               /\ \A n \in DOMAIN bs : \E i \in DOMAIN f.bindings : f.bindings[i].service = id /\ bs[n] = f.bindings[i]
               /\ \A i \in DOMAIN f.bindings : f.bindings[i].service = id => \E n \in DOMAIN bs : bs[n] = f.bindings[i]
<1> DEFINE S == Where(f.bindings, "service", id)
<1>1. /\ S \subseteq DOMAIN f.bindings
      /\ \A i \in DOMAIN f.bindings : i \in S <=> f.bindings[i].service = id
  BY DEF Where
<1>2. f.bindings \in Seq(Binding)
  BY FileFields
<1>3. BindingsForService(f, id) = Pick(f.bindings, S)
  BY DEF BindingsForService
<1> HIDE DEF S
<1>4. LET bs == Pick(f.bindings, S)
      IN  /\ bs \in Seq(Binding)
          /\ \A n \in DOMAIN bs : \E i \in S : bs[n] = f.bindings[i]
          /\ \A i \in S : \E n \in DOMAIN bs : bs[n] = f.bindings[i]
  BY <1>1, <1>2, PickIs
<1>. QED BY <1>1, <1>3, <1>4

LEMMA SamePool ==
    ASSUME NEW f \in Files, NEW g \in Files, SameRoutes(f, g), NEW id
    PROVE  /\ Builds(g, id) = Builds(f, id)
           /\ Builds(f, id) => Routes(BuildPool(g, id)) = Routes(BuildPool(f, id))
<1> DEFINE bs == BindingsForService(f, id)
<1>1. BindingsForService(g, id) = bs /\ ServiceOf(g, id) = ServiceOf(f, id)
  BY DEF SameRoutes, BindingsForService, ServiceOf
<1> HIDE DEF bs
<1>2. ASSUME NEW b, Has(f.providers, "name", b.provider)
      PROVE  /\ Projects(ProviderOf(g, b)) = Projects(ProviderOf(f, b))
             /\ Routed(CoreEndpoint(ProviderOf(g, b), b))
                  = Routed(CoreEndpoint(ProviderOf(f, b), b))
  <2> DEFINE n == IndexOf(f.providers, "name", b.provider)
  <2>0. IndexOf(g.providers, "name", b.provider) = n
    BY SameIndex
  <2>1. n \in DOMAIN f.providers /\ IndexOf(g.providers, "name", b.provider) = n
    <3>1. f.providers \in Seq(Provider)
      BY FileFields
    <3>. QED BY <1>2, <2>0, <3>1, IndexOfIs
  <2>2. ProviderOf(f, b) = f.providers[n] /\ ProviderOf(g, b) = g.providers[n]
    BY <2>1 DEF ProviderOf
  <2> HIDE DEF n
  <2>. QED BY <2>1, <2>2, SameProvider
<1>3. \A b : Has(g.providers, "name", b.provider) = Has(f.providers, "name", b.provider)
  BY SameIndex
<1>4. Builds(g, id) = Builds(f, id)
  BY <1>1, <1>2, <1>3 DEF Builds, bs
<1>5. ASSUME Builds(f, id)
      PROVE  Routes(BuildPool(g, id)) = Routes(BuildPool(f, id))
  <2>1. \A i \in DOMAIN bs : Routed(CoreEndpoint(ProviderOf(g, bs[i]), bs[i]))
                               = Routed(CoreEndpoint(ProviderOf(f, bs[i]), bs[i]))
    BY <1>2, <1>5 DEF Builds, bs
  <2>2. /\ Routes(BuildPool(f, id)) =
             [strategy |-> ServiceOf(f, id).strategy,
              endpoints |-> [i \in DOMAIN bs |-> Routed(CoreEndpoint(ProviderOf(f, bs[i]), bs[i]))]]
        /\ Routes(BuildPool(g, id)) =
             [strategy |-> ServiceOf(f, id).strategy,
              endpoints |-> [i \in DOMAIN bs |-> Routed(CoreEndpoint(ProviderOf(g, bs[i]), bs[i]))]]
    BY <1>1 DEF Routes, BuildPool, Routed, bs
  <2>. QED BY <2>1, <2>2
<1>. QED BY <1>4, <1>5

(* What the administrator's selection names are the providers of the pool. *)
LEMMA Selected ==
    ASSUME file \in Files, NEW id, Builds(file, id)
    PROVE  ToSet(SelectAllProviders(id, "any")) =
             {file.bindings[i].provider : i \in {j \in DOMAIN file.bindings : file.bindings[j].service = id}}
<1> DEFINE list == file.bindings
           bound == Where(list, "service", id)
           before == {e \in bound \X bound :
                        \/ list[e[1]].priority < list[e[2]].priority
                        \/ list[e[1]].priority = list[e[2]].priority /\ e[1] <= e[2]}
           order == Arrange(bound, before)
           names == [n \in DOMAIN order |-> list[order[n]].provider]
           Serves(p) == p.enabled /\ ("any" = "any" \/ p.type = "any")
           chosen == {n \in DOMAIN names : \E i \in DOMAIN file.providers :
                         file.providers[i].name = names[n] /\ Serves(file.providers[i])}
<1>1. SelectAllProviders(id, "any") = Pick(names, chosen)
  BY DEF SelectAllProviders
<1>2. list \in Seq(Binding) /\ file.providers \in Seq(Provider)
  BY FileFields
<1>3. bound = {j \in DOMAIN list : list[j].service = id}
  BY DEF Where
<1>4. /\ bound \subseteq 1 .. Len(list) /\ bound \subseteq Int /\ IsFiniteSet(bound)
      /\ \A i \in bound : list[i] \in Binding /\ list[i].priority \in Int
  <2>1. \A b \in Binding : b.priority \in Int
    BY DEF Binding
  <2>2. bound \in SUBSET (1 .. Len(list)) /\ Len(list) \in Nat
    BY <1>2, <1>3
  <2>3. IsFiniteSet(bound)
    <3>1. IsFiniteSet(1 .. Len(list))
      BY <2>2, FS_Interval
    <3> HIDE DEF bound
    <3>. QED BY <2>2, <3>1, FS_Subset
  <2>. QED BY <1>2, <2>1, <2>2, <2>3
<1> HIDE DEF bound
<1>5. \A i, j \in bound : <<i, j>> \in before <=> \/ list[i].priority < list[j].priority
                                                  \/ list[i].priority = list[j].priority /\ i <= j
  OBVIOUS
<1> HIDE DEF before, list
<1>6. order \in Seq(bound) /\ \A i \in bound : \E n \in DOMAIN order : order[n] = i
  <2> DEFINE pr(i) == list[i].priority
  <2>0. /\ \A i \in bound : pr(i) \in Int /\ i \in Int
        /\ \A i, j \in bound : <<i, j>> \in before <=> pr(i) < pr(j) \/ (pr(i) = pr(j) /\ i <= j)
    BY <1>4, <1>5
  <2> HIDE DEF pr
  <2>1. \A i \in bound : <<i, i>> \in before
    BY <2>0
  <2>2. \A i, j \in bound : <<i, j>> \in before \/ <<j, i>> \in before
    <3>1. \A i, j \in bound : (pr(i) < pr(j) \/ (pr(i) = pr(j) /\ i <= j)) \/ (pr(j) < pr(i) \/ (pr(j) = pr(i) /\ j <= i))
      BY <2>0
    <3>. QED BY <2>0, <3>1
  <2>3. \A i, j \in bound : <<i, j>> \in before /\ <<j, i>> \in before => i = j
    BY <2>0
  <2>4. \A i, j, k \in bound : <<i, j>> \in before /\ <<j, k>> \in before => <<i, k>> \in before
    BY <2>0
  <2>5. Total(before, bound)
    BY <2>1, <2>2, <2>3, <2>4 DEF Total
  <2>. QED BY <1>4, <2>5, ArrangeAll
<1> HIDE DEF order
<1>7. /\ names \in Seq(Text) /\ DOMAIN names = DOMAIN order
      /\ \A n \in DOMAIN names : order[n] \in bound /\ names[n] = list[order[n]].provider
  <2>1. \A b \in Binding : b.provider \in Text
    BY DEF Binding
  <2>2. \A n \in DOMAIN order : order[n] \in bound
    BY <1>6
  <2>3. DOMAIN order = 1 .. Len(order) /\ Len(order) \in Nat
    BY <1>6
  <2>4. \A n \in DOMAIN order : list[order[n]].provider \in Text
    BY <1>4, <2>1, <2>2
  <2>5. names \in [1 .. Len(order) -> Text]
    BY <2>3, <2>4
  <2>6. names \in Seq(Text) /\ DOMAIN names = DOMAIN order
    <3> HIDE DEF names
    <3>. QED BY <2>3, <2>5
  <2>7. \A n \in DOMAIN order : names[n] = list[order[n]].provider
    OBVIOUS
  <2> HIDE DEF names
  <2>. QED BY <2>2, <2>6, <2>7
<1> HIDE DEF names
<1>8. chosen = DOMAIN names
  <2> SUFFICES ASSUME NEW n \in DOMAIN names
               PROVE  \E i \in DOMAIN file.providers : file.providers[i].name = names[n] /\ file.providers[i].enabled
    OBVIOUS
  <2>1. order[n] \in bound /\ names[n] = list[order[n]].provider
    BY <1>7
  <2>2. order[n] \in DOMAIN file.bindings /\ file.bindings[order[n]].service = id
    BY <1>3, <2>1 DEF list
  <2>3. PICK m \in DOMAIN BindingsForService(file, id) : BindingsForService(file, id)[m] = file.bindings[order[n]]
    BY <2>2, BindingsAre, SMTT(40)
  <2> DEFINE b == file.bindings[order[n]]
             k == IndexOf(file.providers, "name", b.provider)
  <2>4. Has(file.providers, "name", b.provider) /\ Projects(ProviderOf(file, b))
    BY <2>3 DEF Builds
  <2>5. k \in DOMAIN file.providers /\ file.providers[k].name = b.provider
    BY <1>2, <2>4, IndexOfIs
  <2>6. file.providers[k].enabled
    BY <2>4 DEF ProviderOf, Projects
  <2>. QED BY <2>1, <2>5, <2>6 DEF list
<1> HIDE DEF chosen
<1>9. LET picked == Pick(names, DOMAIN names)
      IN  /\ \A n \in DOMAIN picked : \E i \in DOMAIN names : picked[n] = names[i]
          /\ \A i \in DOMAIN names : \E n \in DOMAIN picked : picked[n] = names[i]
  BY <1>7, PickIs, SMTT(40)
<1>10. ToSet(SelectAllProviders(id, "any")) = {names[n] : n \in DOMAIN names}
  BY <1>1, <1>8, <1>9 DEF ToSet
<1>11. {names[n] : n \in DOMAIN names} = {list[i].provider : i \in bound}
  BY <1>6, <1>7
<1>. QED BY <1>3, <1>10, <1>11 DEF list

(* A pool among ps routes as the one built from the file does.             *)
InStepFor(ps, f, id) == IF Builds(f, id)
                        THEN id \in DOMAIN ps /\ Routes(ps[id]) = Routes(BuildPool(f, id))
                        ELSE id \notin DOMAIN ps

LEMMA NamesOfPool ==
    ASSUME file \in Files, NEW id, Builds(file, id), NEW pool, Routes(pool) = Routes(BuildPool(file, id))
    PROVE  ToSet(SelectAllProviders(id, "any")) = {e.id : e \in ToSet(pool.endpoints)}
<1> DEFINE bs == BindingsForService(file, id)
           ends == pool.endpoints
           Bare(e) == [e EXCEPT !.models = {}]
<1>1. [i \in DOMAIN ends |-> Bare(ends[i])]
        = [i \in DOMAIN bs |-> Bare(CoreEndpoint(ProviderOf(file, bs[i]), bs[i]))]
  <2>1. Routes(pool).endpoints = [i \in DOMAIN ends |-> Bare(ends[i])]
    BY DEF Routes
  <2>2. Routes(BuildPool(file, id)).endpoints = [i \in DOMAIN bs |-> Bare(CoreEndpoint(ProviderOf(file, bs[i]), bs[i]))]
    BY DEF Routes, BuildPool
  <2>. QED BY <2>1, <2>2
<1> HIDE DEF bs, ends
<1>2. DOMAIN ends = DOMAIN bs /\ \A i \in DOMAIN bs : Bare(ends[i]) = Bare(CoreEndpoint(ProviderOf(file, bs[i]), bs[i]))
  BY <1>1, Zenon
<1>3. \A i \in DOMAIN bs : ends[i].id = ProviderOf(file, bs[i]).name
  <2> SUFFICES ASSUME NEW i \in DOMAIN bs
               PROVE  ends[i].id = ProviderOf(file, bs[i]).name
    OBVIOUS
  <2> DEFINE e == ends[i]
             c == CoreEndpoint(ProviderOf(file, bs[i]), bs[i])
  <2>1. Bare(e) = Bare(c)
    BY <1>2
  <2>2. c.id = ProviderOf(file, bs[i]).name /\ "id" \in DOMAIN c /\ Bare(c).id = c.id
    BY DEF CoreEndpoint
  <2> HIDE DEF e, c
  <2>3. DOMAIN e = DOMAIN c
    BY <2>1
  <2>4. Bare(e).id = e.id
    BY <2>2, <2>3
  <2>. QED BY <2>1, <2>2, <2>4 DEF e
<1>4. \A i \in DOMAIN bs : ProviderOf(file, bs[i]).name = bs[i].provider
  <2>1. file.providers \in Seq(Provider)
    BY FileFields
  <2>2. \A i \in DOMAIN bs : Has(file.providers, "name", bs[i].provider)
    BY DEF Builds, bs
  <2>. QED BY <2>1, <2>2, IndexOfIs DEF ProviderOf
<1>5. {e.id : e \in ToSet(ends)} = {bs[i].provider : i \in DOMAIN bs}
  BY <1>2, <1>3, <1>4 DEF ToSet
<1>6. {bs[i].provider : i \in DOMAIN bs} =
        {file.bindings[i].provider : i \in {j \in DOMAIN file.bindings : file.bindings[j].service = id}}
  BY BindingsAre DEF bs
<1>. QED BY <1>5, <1>6, Selected DEF ends
-----------------------------------------------------------------------------
(* The invariant.  While nothing that asks for a sync is on its way, the   *)
(* sync that runs copied a file that routes like the one of now, and what  *)
(* it has done so far agrees with it.  Whatever runs, its copy names no    *)
(* service the file has lost, and it sweeps pools of its own only.         *)
SyncStates == {[at |-> "idle"], [at |-> "due"]} \union [at : {"building"}, copy : Files, next : Nat \ {0}]
                  \union [at : {"sweeping"}, stale : SUBSET DOMAIN pools]

Asked == notices > 0 \/ sync.at = "due" \/ \E a \in Admins : call[a].at = "notify"

Built == sync.at = "building" =>
             /\ SameRoutes(sync.copy, file)
             /\ \A i \in DOMAIN file.services : i < sync.next => InStepFor(pools, file, file.services[i].id)
Listed == sync.at = "sweeping" => \A p \in sync.stale : ~ Has(file.services, "id", p)
Swept == sync.at \in {"sweeping", "idle"} =>
             /\ \A i \in DOMAIN file.services : InStepFor(pools, file, file.services[i].id)
             /\ \A p \in DOMAIN pools : pools[p].managed => \/ Has(file.services, "id", p)
                                                            \/ sync.at = "sweeping" /\ p \in sync.stale

OwnOnly == /\ sync.at = "building" => IdsKept(sync.copy, file)
           /\ sync.at = "sweeping" => \A p \in sync.stale : pools[p].managed

YInv == /\ CInv /\ notices \in Nat /\ sync \in SyncStates
        /\ ~ up => sync.at = "idle"
        /\ OwnOnly
        /\ (up /\ ~ Asked) => Built /\ Listed /\ Swept

LEMMA SameStep ==
    ASSUME NEW f \in Files, NEW g \in Files, SameRoutes(f, g), NEW ps, NEW id
    PROVE  InStepFor(ps, g, id) = InStepFor(ps, f, id)
<1>1. /\ Builds(g, id) = Builds(f, id)
      /\ Builds(f, id) => Routes(BuildPool(g, id)) = Routes(BuildPool(f, id))
  BY SamePool
<1>2. CASE Builds(f, id)
  BY <1>1, <1>2 DEF InStepFor
<1>3. CASE ~ Builds(f, id)
  BY <1>1, <1>3 DEF InStepFor
<1>. QED BY <1>2, <1>3

LEMMA RoutesChain ==
    ASSUME NEW f \in Files, NEW g \in Files, NEW h \in Files
    PROVE  /\ SameRoutes(f, g) /\ SameRoutes(g, h) => SameRoutes(f, h)
           /\ IdsKept(f, g) /\ IdsKept(g, h) => IdsKept(f, h)
<1>1. ASSUME SameRoutes(f, g), SameRoutes(g, h)
      PROVE  SameRoutes(f, h)
  <2>1. \A p \in Provider : \A x, y : [[p EXCEPT !.models = x] EXCEPT !.models = y] = [p EXCEPT !.models = y]
    BY DEF Provider
  <2>2. \A i \in DOMAIN f.providers : f.providers[i] \in Provider
    BY FileFields, ElementsAre
  <2>3. \A i \in DOMAIN f.providers : h.providers[i] = [f.providers[i] EXCEPT !.models = h.providers[i].models]
    <3> SUFFICES ASSUME NEW i \in DOMAIN f.providers
                 PROVE  h.providers[i] = [f.providers[i] EXCEPT !.models = h.providers[i].models]
      OBVIOUS
    <3> DEFINE p == f.providers[i]
               q == g.providers[i]
               r == h.providers[i]
    <3>1. q = [p EXCEPT !.models = q.models] /\ r = [q EXCEPT !.models = r.models] /\ p \in Provider
      BY <1>1, <2>2 DEF SameRoutes
    <3> HIDE DEF p, q, r
    <3>2. r = [p EXCEPT !.models = r.models]
      BY <2>1, <3>1
    <3>. QED BY <3>2 DEF p, r
  <2>. QED BY <1>1, <2>3 DEF SameRoutes
<1>2. ASSUME IdsKept(f, g), IdsKept(g, h)
      PROVE  IdsKept(f, h)
  BY <1>2 DEF IdsKept, Has
<1>. QED BY <1>1, <1>2

(* A change that matters to routing is followed by a notice, and a notice  *)
(* that is owed or queued stays so until the sync task takes it.           *)
LEMMA AdminAsks ==
    ASSUME CInv, notices \in Nat, NEW a \in Admins, Administer(a)
    PROVE  /\ notices' \in Nat /\ notices' >= notices
           /\ \A b \in Admins : call[b].at = "notify" => call'[b].at = "notify" \/ notices' > 0
<1>1. call \in [Admins -> CallStates]
  BY DEF CInv, StoreTypes
<1>2. CASE Amended(a)
  <2>1. PICK new, next : Change(a, new, next)
    BY <1>2 DEF Amended
  <2>. QED BY <1>1, <2>1 DEF Change
<1>3. CASE BindWrite(a)
  BY <1>1, <1>3 DEF BindWrite
<1>4. CASE RequestCoreSync(a)
  BY <1>1, <1>4 DEF RequestCoreSync
<1>5. CASE \E s \in Services, i \in DOMAIN file.providers, n \in Priorities : BindLookup(a, s, i, n)
  BY <1>1, <1>5 DEF BindLookup
<1>. QED BY <1>2, <1>3, <1>4, <1>5, AdminKinds

LEMMA SyncForms ==
    ASSUME sync \in SyncStates
    PROVE  /\ sync.at \in {"idle", "due", "building", "sweeping"}
           /\ sync.at = "building" => sync.copy \in Files /\ sync.next \in Nat \ {0}
           /\ sync.at = "sweeping" => sync.stale \in SUBSET DOMAIN pools
           /\ sync.at = "building" => sync \in [at : {"building"}, copy : Files, next : Nat \ {0}]
           /\ sync.at = "sweeping" => sync \in [at : {"sweeping"}, stale : SUBSET DOMAIN pools]
BY DEF SyncStates

LEMMA AdminStep ==
    ASSUME YInv, NEW a \in Admins, Administer(a), pools' = pools, sync' = sync
    PROVE  YInv'
<1>1. CInv /\ Amending(a) /\ CInv'
  BY Administered, AmendingKeeps DEF YInv
<1>2. /\ notices' \in Nat /\ (notices' = 0 => notices = 0)
      /\ \A b \in Admins : call[b].at = "notify" => call'[b].at = "notify" \/ notices' > 0
  BY AdminAsks DEF YInv
<1>3. /\ file \in Files /\ file' \in Files /\ up /\ up' /\ IdsKept(file, file')
      /\ SameRoutes(file, file') \/ call'[a].at = "notify"
  BY <1>1 DEF CInv, StoreTypes, Amending
<1>4. sync' \in SyncStates' /\ sync \in SyncStates
  BY DEF SyncStates, YInv
<1>5. OwnOnly'
  BY <1>3, <1>4, SyncForms, RoutesChain DEF YInv, OwnOnly
<1>6. ASSUME ~ Asked'
      PROVE  (Built /\ Listed /\ Swept)'
  <2>1. ~ Asked /\ SameRoutes(file, file')
    BY <1>2, <1>3, <1>6 DEF Asked, YInv
  <2>2. Built /\ Listed /\ Swept
    BY <1>3, <2>1 DEF YInv
  <2>3. file'.services = file.services /\ pools' = pools
        /\ \A id : InStepFor(pools, file', id) = InStepFor(pools, file, id)
    <3>1. file'.services = file.services
      BY <2>1 DEF SameRoutes
    <3>2. ASSUME NEW id
          PROVE  InStepFor(pools, file', id) = InStepFor(pools, file, id)
      BY <1>3, <2>1, SameStep
    <3>. QED BY <3>1, <3>2
  <2>4. Built'
    <3>1. sync.at = "building" => SameRoutes(sync.copy, file')
      BY <1>3, <1>4, <2>1, <2>2, SyncForms, RoutesChain DEF Built
    <3>. QED BY <2>2, <2>3, <3>1 DEF Built
  <2>5. Listed' /\ Swept'
    BY <2>2, <2>3 DEF Listed, Swept
  <2>. QED BY <2>4, <2>5
<1>. QED BY <1>1, <1>2, <1>3, <1>4, <1>5, <1>6 DEF YInv

LEMMA StoreSame ==
    ASSUME CInv, UNCHANGED <<file, dirty, up, call, saver, disk, slipped, overlapped>>
    PROVE  CInv'
BY DEF CInv, StoreTypes, DownHoldsNothing, Alone, OneWriter, TmpIsMine, CopyIsFile, CleanIsSaved, Writes, OnDisk

LEMMA StartStep ==
    ASSUME YInv, StartSync
    PROVE  YInv'
<1>1. CInv'
  BY StoreSame DEF YInv, StartSync, config
<1>2. notices' \in Nat /\ sync' = [at |-> "due"] /\ up' = up /\ up
  BY DEF YInv, StartSync
<1>3. sync' \in SyncStates' /\ sync'.at = "due"
  BY <1>2 DEF SyncStates
<1>. QED BY <1>1, <1>2, <1>3 DEF YInv, OwnOnly, Asked

LEMMA CopyStep ==
    ASSUME YInv, CopyFile
    PROVE  YInv'
<1>1. /\ CInv' /\ notices' \in Nat /\ up' = up /\ up /\ file' = file /\ file \in Files
      /\ sync' = [at |-> "building", copy |-> file, next |-> 1]
  BY StoreSame DEF YInv, CopyFile, vars, CInv, StoreTypes
<1>2. sync' \in SyncStates' /\ sync'.at = "building" /\ sync'.copy = file /\ sync'.next = 1
  BY <1>1 DEF SyncStates
<1>3. SameRoutes(file, file) /\ IdsKept(file, file)
  BY <1>1, SameFields
<1>4. \A i \in DOMAIN file.services : i >= 1
  BY <1>1, FileFields, ElementsAre
<1>5. OwnOnly'
  BY <1>1, <1>2, <1>3 DEF OwnOnly, IdsKept
<1>6. Built'
  <2>1. SameRoutes(sync'.copy, file')
    BY <1>1, <1>2, <1>3
  <2>2. \A i \in DOMAIN file'.services : ~ (i < sync'.next)
    BY <1>1, <1>2, <1>4, FileFields, ElementsAre
  <2>. QED BY <2>1, <2>2 DEF Built
<1>. QED BY <1>1, <1>2, <1>5, <1>6 DEF YInv, Listed, Swept

LEMMA ServiceStep ==
    ASSUME YInv, SyncService
    PROVE  YInv'
<1> DEFINE id == sync.copy.services[sync.next].id
<1>1. /\ sync.at = "building" /\ sync.next <= Len(sync.copy.services)
      /\ pools' = IF Builds(sync.copy, id) THEN With(id, BuildPool(sync.copy, id)) ELSE Without(id)
      /\ sync' = [sync EXCEPT !.next = @ + 1] /\ UNCHANGED vars
  BY DEF SyncService
<1>2. /\ sync \in [at : {"building"}, copy : Files, next : Nat \ {0}]
      /\ sync.copy \in Files /\ sync.next \in Nat \ {0} /\ sync.next \in DOMAIN sync.copy.services
  <2>1. sync \in SyncStates
    BY DEF YInv
  <2>2. sync.copy \in Files /\ sync.next \in Nat \ {0}
    BY <1>1, <2>1, SyncForms
  <2>3. DOMAIN sync.copy.services = 1 .. Len(sync.copy.services) /\ Len(sync.copy.services) \in Nat
    BY <2>2, FileFields
  <2>. QED BY <1>1, <2>1, <2>2, <2>3, SyncForms
<1>3. /\ CInv' /\ notices' = notices /\ up' = up /\ file' = file /\ call' = call /\ up /\ file \in Files
  BY <1>1, StoreSame DEF YInv, vars, CInv, StoreTypes
<1>4. /\ sync' \in SyncStates' /\ sync'.at = "building" /\ sync'.copy = sync.copy /\ sync'.next = sync.next + 1
  <2>1. sync' \in [at : {"building"}, copy : Files, next : Nat \ {0}]
    BY <1>1, <1>2
  <2>. QED BY <1>1, <1>2, <2>1 DEF SyncStates
<1>5. InStepFor(pools', sync.copy, id)
  <2>1. CASE Builds(sync.copy, id)
    <3>1. pools' = With(id, BuildPool(sync.copy, id))
      BY <1>1, <2>1
    <3>2. id \in DOMAIN pools' /\ pools'[id] = BuildPool(sync.copy, id)
      BY <3>1 DEF With
    <3>. QED BY <2>1, <3>2 DEF InStepFor
  <2>2. CASE ~ Builds(sync.copy, id)
    <3>1. pools' = Without(id)
      BY <1>1, <2>2
    <3>2. id \notin DOMAIN pools'
      BY <3>1 DEF Without
    <3>. QED BY <2>2, <3>2 DEF InStepFor
  <2>. QED BY <2>1, <2>2
<1>6. \A p : p # id => (p \in DOMAIN pools' <=> p \in DOMAIN pools) /\ (p \in DOMAIN pools => pools'[p] = pools[p])
  <2> HIDE DEF id
  <2>1. CASE Builds(sync.copy, id)
    <3>1. pools' = With(id, BuildPool(sync.copy, id))
      BY <1>1, <2>1
    <3>. QED BY <3>1 DEF With
  <2>2. CASE ~ Builds(sync.copy, id)
    <3>1. pools' = Without(id)
      BY <1>1, <2>2
    <3>. QED BY <3>1 DEF Without
  <2>. QED BY <2>1, <2>2
<1>7. OwnOnly'
  BY <1>1, <1>3, <1>4 DEF YInv, OwnOnly
<1>8. ASSUME ~ Asked'
      PROVE  Built'
  <2>1. Built
    BY <1>1, <1>3, <1>4, <1>8 DEF YInv, Asked
  <2>2. SameRoutes(sync.copy, file) /\ file.services = sync.copy.services
    BY <1>1, <2>1 DEF Built, SameRoutes
  <2>3. \A x : InStepFor(pools', file, x) = InStepFor(pools', sync.copy, x)
    BY <1>2, <1>3, <2>2, SameStep
  <2>4. \A x : x # id => InStepFor(pools', file, x) = InStepFor(pools, file, x)
    BY <1>6 DEF InStepFor
  <2>5. \A i \in DOMAIN file.services : i < sync.next + 1 => InStepFor(pools', file, file.services[i].id)
    <3> SUFFICES ASSUME NEW i \in DOMAIN file.services, i < sync.next + 1
                 PROVE  InStepFor(pools', file, file.services[i].id)
      OBVIOUS
    <3>1. CASE file.services[i].id = id
      BY <1>5, <2>3, <3>1
    <3>2. CASE file.services[i].id # id
      <4>1. i # sync.next
        BY <2>2, <3>2
      <4>2. i \in Nat
        BY <1>3, FileFields, ElementsAre
      <4>3. i < sync.next
        BY <1>2, <4>1, <4>2
      <4>. QED BY <1>1, <2>1, <2>4, <3>2, <4>3 DEF Built
    <3>. QED BY <3>1, <3>2
  <2>. QED BY <1>3, <1>4, <2>2, <2>5 DEF Built
<1>. QED BY <1>3, <1>4, <1>7, <1>8 DEF YInv, Listed, Swept

LEMMA ListStep ==
    ASSUME YInv, ListPools
    PROVE  YInv'
<1> DEFINE kept == {sync.copy.services[i].id : i \in DOMAIN sync.copy.services}
           stale == {p \in DOMAIN pools : pools[p].managed} \ kept
<1>1. /\ sync.at = "building" /\ sync.next > Len(sync.copy.services)
      /\ sync' = [at |-> "sweeping", stale |-> stale] /\ UNCHANGED <<vars, pools>>
  BY DEF ListPools
<1>2. stale \subseteq DOMAIN pools /\ \A p \in stale : pools[p].managed /\ p \notin kept
  OBVIOUS
<1>3. \A p \in DOMAIN pools : pools[p].managed => p \in kept \/ p \in stale
  OBVIOUS
<1> HIDE DEF stale
<1>4. sync' \in SyncStates' /\ sync'.at = "sweeping" /\ sync'.stale = stale
  BY <1>1, <1>2 DEF SyncStates
<1>5. /\ CInv' /\ notices' = notices /\ up' = up /\ file' = file /\ call' = call /\ pools' = pools
      /\ up /\ file \in Files
  BY <1>1, StoreSame DEF YInv, vars, CInv, StoreTypes
<1>6. OwnOnly'
  BY <1>2, <1>4, <1>5 DEF OwnOnly
<1>7. ASSUME ~ Asked'
      PROVE  Listed' /\ Swept'
  <2>1. Built
    BY <1>1, <1>4, <1>5, <1>7 DEF YInv, Asked
  <2>2. file.services = sync.copy.services
    BY <1>1, <2>1 DEF Built, SameRoutes
  <2>3. \A p : p \in kept <=> Has(file.services, "id", p)
    BY <2>2 DEF Has
  <2>4. Listed'
    BY <1>2, <1>4, <1>5, <2>3 DEF Listed
  <2>5. \A i \in DOMAIN file.services : i < sync.next
    <3>1. sync.next \in Nat
      BY <1>1, SyncForms DEF YInv
    <3>2. file.services \in Seq(Service)
      BY <1>5, FileFields
    <3>. QED BY <1>1, <2>2, <3>1, <3>2
  <2>6. \A i \in DOMAIN file'.services : InStepFor(pools', file, file.services[i].id)
    BY <1>1, <1>5, <2>1, <2>5 DEF Built
  <2>7. \A p \in DOMAIN pools' : pools'[p].managed => Has(file'.services, "id", p) \/ p \in sync'.stale
    BY <1>3, <1>4, <1>5, <2>3
  <2>. QED BY <1>4, <1>5, <2>4, <2>6, <2>7 DEF Swept
<1>. QED BY <1>4, <1>5, <1>6, <1>7 DEF YInv, Built

LEMMA SweepStep ==
    ASSUME YInv, Sweep
    PROVE  YInv'
<1>1. PICK p \in sync.stale : pools' = Without(p) /\ sync' = [sync EXCEPT !.stale = @ \ {p}]
  BY DEF Sweep
<1>2. /\ sync.at = "sweeping" /\ sync \in [at : {"sweeping"}, stale : SUBSET DOMAIN pools]
      /\ sync.stale \in SUBSET DOMAIN pools
  BY SyncForms DEF Sweep, YInv
<1>3. /\ CInv' /\ notices' = notices /\ up' = up /\ file' = file /\ call' = call /\ up /\ file \in Files
  BY StoreSame DEF Sweep, YInv, vars, CInv, StoreTypes
<1>4. /\ DOMAIN pools' = DOMAIN pools \ {p}
      /\ \A q \in DOMAIN pools' : pools'[q] = pools[q]
  BY <1>1 DEF Without
<1>5. sync'.at = "sweeping" /\ sync'.stale = sync.stale \ {p} /\ sync' \in SyncStates'
  <2>1. sync'.at = "sweeping" /\ sync'.stale = sync.stale \ {p}
        /\ sync' \in [at : {"sweeping"}, stale : SUBSET DOMAIN pools']
    BY <1>1, <1>2, <1>4
  <2>. QED BY <2>1 DEF SyncStates
<1>6. OwnOnly'
  BY <1>2, <1>4, <1>5 DEF YInv, OwnOnly
<1>7. ASSUME ~ Asked'
      PROVE  Listed' /\ Swept'
  <2>1. Listed /\ Swept
    BY <1>2, <1>3, <1>5, <1>7 DEF YInv, Asked
  <2>2. ~ Has(file.services, "id", p)
    BY <1>2, <2>1 DEF Listed
  <2>3. \A i \in DOMAIN file.services : file.services[i].id # p
    BY <2>2 DEF Has
  <2>4. \A i \in DOMAIN file'.services : InStepFor(pools', file, file.services[i].id)
    BY <1>2, <1>3, <1>4, <2>1, <2>3 DEF Swept, InStepFor
  <2>5. \A q \in DOMAIN pools' : pools'[q].managed => Has(file'.services, "id", q) \/ q \in sync'.stale
    BY <1>2, <1>3, <1>4, <1>5, <2>1 DEF Swept
  <2>6. Listed'
    BY <1>2, <1>3, <1>5, <2>1 DEF Listed
  <2>. QED BY <1>3, <1>5, <2>4, <2>5, <2>6 DEF Swept
<1>. QED BY <1>3, <1>5, <1>6, <1>7 DEF YInv, Built

LEMMA EndStep ==
    ASSUME YInv, EndSync
    PROVE  YInv'
<1>1. /\ CInv' /\ notices' = notices /\ up' = up /\ file' = file /\ call' = call /\ pools' = pools
      /\ up /\ file \in Files /\ sync.at = "sweeping" /\ sync.stale = {} /\ sync' = [at |-> "idle"]
  BY StoreSame DEF EndSync, YInv, vars, CInv, StoreTypes
<1>2. sync' \in SyncStates' /\ sync'.at = "idle"
  BY <1>1 DEF SyncStates
<1>3. ASSUME ~ Asked'
      PROVE  Swept'
  <2>1. Swept
    BY <1>1, <1>2, <1>3 DEF YInv, Asked
  <2>2. \A i \in DOMAIN file'.services : InStepFor(pools', file, file.services[i].id)
    BY <1>1, <2>1 DEF Swept, InStepFor
  <2>3. \A q \in DOMAIN pools' : pools'[q].managed => Has(file'.services, "id", q)
    BY <1>1, <2>1 DEF Swept
  <2>. QED BY <1>1, <1>2, <2>2, <2>3 DEF Swept
<1>. QED BY <1>1, <1>2, <1>3 DEF YInv, OwnOnly, Built, Listed

LEMMA CrashStep ==
    ASSUME YInv, NEW survives, CrashAll(survives)
    PROVE  YInv'
<1>1. CInv' /\ notices' = 0 /\ sync' = [at |-> "idle"] /\ up' = FALSE
  BY CrashKeeps DEF YInv, CrashAll, Crash
<1>2. sync' \in SyncStates' /\ sync'.at = "idle"
  BY <1>1 DEF SyncStates
<1>. QED BY <1>1, <1>2 DEF YInv, OwnOnly

LEMMA LoadStep ==
    ASSUME YInv, LoadAndSync
    PROVE  YInv'
<1>1. CInv' /\ notices' = notices /\ sync' = [at |-> "due"] /\ up' = TRUE
  BY LoadKeeps DEF YInv, LoadAndSync, Load
<1>2. sync' \in SyncStates' /\ sync'.at = "due"
  BY <1>1 DEF SyncStates
<1>. QED BY <1>1, <1>2 DEF YInv, OwnOnly, Asked

LEMMA SameAll ==
    ASSUME YInv, UNCHANGED allVars
    PROVE  YInv'
<1>1. /\ CInv' /\ notices' = notices /\ up' = up /\ file' = file /\ call' = call /\ pools' = pools /\ sync' = sync
  BY StoreSame DEF allVars, vars, YInv
<1>2. SyncStates' = SyncStates
  BY <1>1 DEF SyncStates
<1>3. OwnOnly' /\ (Asked' = Asked)
  BY <1>1 DEF YInv, OwnOnly, Asked
<1>4. (up /\ ~ Asked) => Built' /\ Listed' /\ Swept'
  BY <1>1 DEF YInv, Built, Listed, Swept
<1>. QED BY <1>1, <1>2, <1>3, <1>4 DEF YInv

LEMMA SyncKeeps == YInv /\ [SyncNext]_allVars => YInv'
<1> SUFFICES ASSUME YInv, [SyncNext]_allVars
             PROVE  YInv'
  OBVIOUS
<1>1. CASE UNCHANGED allVars
  BY <1>1, SameAll
<1>2. CASE SyncNext
  <2>1. CASE (\E a \in Admins : Administer(a)) /\ UNCHANGED <<pools, sync>>
    BY <2>1, AdminStep
  <2>2. CASE Sync
    BY <2>2, StartStep, CopyStep, ServiceStep, ListStep, SweepStep, EndStep DEF Sync
  <2>3. CASE \E survives \in BOOLEAN : CrashAll(survives)
    BY <2>3, CrashStep
  <2>4. CASE LoadAndSync
    BY <2>4, LoadStep
  <2>. QED BY <1>2, <2>1, <2>2, <2>3, <2>4 DEF SyncNext
<1>. QED BY <1>1, <1>2

LEMMA InitSync == SyncInit => YInv
<1> SUFFICES ASSUME SyncInit
             PROVE  YInv
  OBVIOUS
<1>1. CInv /\ notices = 0 /\ up /\ sync = [at |-> "due"]
  BY InitStore DEF SyncInit, Init
<1>2. sync \in SyncStates /\ sync.at = "due"
  BY <1>1 DEF SyncStates
<1>. QED BY <1>1, <1>2 DEF YInv, OwnOnly, Asked
-----------------------------------------------------------------------------
(* The invariant: see YInv.                                                *)
THEOREM SyncInvHolds == SyncSpec => []YInv
<1>1. YInv /\ [SyncNext]_allVars => YInv'
  BY SyncKeeps
<1>2. SyncSpec => SyncInit /\ [][SyncNext]_allVars
  BY PTL DEF SyncSpec
<1>. QED BY InitSync, <1>1, <1>2, PTL

(* Whenever no notice and no sync is on its way, the engine's pools are    *)
(* what the file of now builds, models aside, and the administrator's      *)
(* selection names the providers the engine calls (core_sync.rs:16-83).    *)
THEOREM EngineIsInStep == SyncSpec => []EngineInStep
<1>1. YInv => EngineInStep
  <2> SUFFICES ASSUME YInv, Settled
               PROVE  InStep
    BY DEF EngineInStep
  <2>1. ~ Asked /\ up /\ file \in Files /\ notices = 0
    BY DEF Settled, YInv, CInv, StoreTypes, Asked
  <2>2. Swept /\ sync.at = "idle"
    BY <2>1 DEF YInv, Settled
  <2>3. ASSUME NEW i \in DOMAIN file.services, Builds(file, file.services[i].id)
        PROVE  LET id == file.services[i].id
               IN  /\ id \in DOMAIN pools
                   /\ Routes(pools[id]) = Routes(BuildPool(file, id))
                   /\ ToSet(SelectAllProviders(id, "any")) = {e.id : e \in ToSet(pools[id].endpoints)}
    <3> DEFINE id == file.services[i].id
    <3>1. id \in DOMAIN pools /\ Routes(pools[id]) = Routes(BuildPool(file, id))
      BY <2>2, <2>3 DEF Swept, InStepFor
    <3> HIDE DEF id
    <3>2. Builds(file, id)
      BY <2>3 DEF id
    <3>3. ToSet(SelectAllProviders(id, "any")) = {e.id : e \in ToSet(pools[id].endpoints)}
      BY <2>1, <3>1, <3>2, NamesOfPool
    <3>. QED BY <3>1, <3>3 DEF id
  <2>4. ASSUME NEW i \in DOMAIN file.services, ~ Builds(file, file.services[i].id)
        PROVE  file.services[i].id \notin DOMAIN pools
    BY <2>2, <2>4 DEF Swept, InStepFor
  <2>5. \A p \in DOMAIN pools : pools[p].managed => Has(file.services, "id", p)
    BY <2>2 DEF Swept
  <2>. QED BY <2>3, <2>4, <2>5 DEF InStep
<1>. QED BY SyncInvHolds, <1>1, PTL

LEMMA HostStep ==
    ASSUME YInv, SyncNext, up', NEW p \in DOMAIN pools, ~ pools[p].managed, ~ Has(file.services, "id", p)
    PROVE  p \in DOMAIN pools' /\ pools'[p] = pools[p]
<1>1. CASE SyncService
  <2> DEFINE id == sync.copy.services[sync.next].id
  <2>1. /\ sync.at = "building" /\ sync.next <= Len(sync.copy.services)
        /\ pools' = IF Builds(sync.copy, id) THEN With(id, BuildPool(sync.copy, id)) ELSE Without(id)
    BY <1>1 DEF SyncService
  <2>2. sync.copy \in Files /\ sync.next \in Nat \ {0} /\ IdsKept(sync.copy, file)
    BY <2>1, SyncForms DEF YInv, OwnOnly
  <2>3. sync.next \in DOMAIN sync.copy.services
    <3>1. sync.copy.services \in Seq(Service)
      BY <2>2, FileFields
    <3>. QED BY <2>1, <2>2, <3>1
  <2>4. p # id
    BY <2>2, <2>3 DEF IdsKept
  <2> HIDE DEF id
  <2>5. CASE Builds(sync.copy, id)
    <3>1. pools' = With(id, BuildPool(sync.copy, id))
      BY <2>1, <2>5
    <3>. QED BY <2>4, <3>1 DEF With
  <2>6. CASE ~ Builds(sync.copy, id)
    <3>1. pools' = Without(id)
      BY <2>1, <2>6
    <3>. QED BY <2>4, <3>1 DEF Without
  <2>. QED BY <2>5, <2>6
<1>2. CASE Sweep
  <2>1. PICK q \in sync.stale : pools' = Without(q)
    BY <1>2 DEF Sweep
  <2>2. q # p
    BY <1>2, <2>1 DEF Sweep, YInv, OwnOnly
  <2>. QED BY <2>1, <2>2 DEF Without
<1>3. CASE pools' = pools
  BY <1>3
<1>4. SyncService \/ Sweep \/ pools' = pools
  BY DEF SyncNext, Sync, StartSync, CopyFile, ListPools, EndSync, CrashAll, Crash, LoadAndSync
<1>. QED BY <1>1, <1>2, <1>3, <1>4

(* No sync touches a pool of the host's, but for one that has the id of a  *)
(* service (core_sync.rs:30-57).                                           *)
THEOREM HostPoolsLeftAlone == SyncSpec => HostPoolsKept
<1>1. YInv /\ [SyncNext]_allVars =>
        [\A p \in DOMAIN pools :
           (~ pools[p].managed /\ ~ Has(file.services, "id", p) /\ up')
              => p \in DOMAIN pools' /\ pools'[p] = pools[p]]_allVars
  BY HostStep
<1>2. SyncSpec => SyncInit /\ [][SyncNext]_allVars
  BY PTL DEF SyncSpec
<1>. QED BY SyncInvHolds, <1>1, <1>2, PTL DEF HostPoolsKept
=============================================================================
