---------------------------- MODULE LimiterProofs ----------------------------
(***************************************************************************)
(* Proofs about RuntimeLimiter, for any requests, definitions of the key   *)
(* and bounds: the state is well formed, the three counters count who is   *)
(* where, and nobody is let in above the limit it came with.               *)
(*                                                                         *)
(* The invariant joins the two: that a release that takes the first waiter *)
(* off the list leaves the queue's count right needs the list to hold      *)
(* exactly those who wait, each once.  A step moves one request, and the   *)
(* waiter it notifies; what a move does to a count is one lemma (Moved),   *)
(* and what it does to the list three (RosterJoined, RosterServed,         *)
(* RosterLeft).                                                            *)
(*                                                                         *)
(* That the rate is shaped rests on an invariant of the bucket (Paced):    *)
(* a token and the time it was granted for are set against what the bucket *)
(* holds or owes, which neither idle time nor a debt can outrun.           *)
(***************************************************************************)
EXTENDS RuntimeLimiter, FiniteSetTheorems, SequenceTheorems, TLAPS

Forms == [at : Places, limit : (Nat \ {0}) \union {NoLimit}, due : Int, late : BOOLEAN]

(* The list w holds each member of S once.                                 *)
Roster(w, S) == w \in Seq(Requests) /\ IsInjective(w) /\ ToSet(w) = S

Standing(f, P) == {q \in Requests : f[q].at \in P}
Weight(place, P) == IF place \in P THEN 1 ELSE 0

Inside == {"holding"}
Queued == Queueing \union {"timed_out", "dropped_queued"}
Asleep == {"sleeping", "turned_away", "dropped_asleep"}

Counted(f, inside, queued, asleep) ==
    /\ inside = Cardinality(Standing(f, Inside))
    /\ queued = Cardinality(Standing(f, Queued))
    /\ asleep = Cardinality(Standing(f, Asleep))

Shape == /\ now \in 0 .. MaxTime /\ known \in BOOLEAN /\ last_update \in 0 .. now
         /\ tokens \in 0 - ShapingTicks .. Burst
         /\ granted \in Seq(0 .. MaxTime)
         /\ permit \in BOOLEAN

KeptBy(f, w, inside, queued, asleep) ==
    /\ f \in [Requests -> Forms]
    /\ Roster(w, Standing(f, {"waiting"}))
    /\ Counted(f, inside, queued, asleep)

Kept == KeptBy(req, waiters, in_flight, in_queue, sleepers)

LInv == Shape /\ Kept
-----------------------------------------------------------------------------
LEMMA MinOfTwo ==
    ASSUME NEW a \in Int, NEW b \in Int
    PROVE  Min({a, b}) = IF a <= b THEN a ELSE b
<1> DEFINE m == IF a <= b THEN a ELSE b
<1>1. m \in {a, b} /\ \A y \in {a, b} : m <= y
  OBVIOUS
<1>2. \A x \in {a, b} : (\A y \in {a, b} : x <= y) => x = m
  OBVIOUS
<1>3. Min({a, b}) \in {a, b} /\ \A y \in {a, b} : Min({a, b}) <= y
  BY <1>1 DEF Min
<1>. QED BY <1>2, <1>3

LEMMA StandingFinite ==
    ASSUME NEW f, NEW P
    PROVE  /\ IsFiniteSet(Standing(f, P))
           /\ Cardinality(Standing(f, P)) \in Nat
<1>1. Standing(f, P) \in SUBSET Requests
  BY DEF Standing
<1>. QED BY <1>1, LimiterConfig, FS_Subset, FS_CardinalityType DEF LimiterConfig

(* One request moves: each count changes by that request's own share.      *)
LEMMA Moved ==
    ASSUME NEW f, NEW g, NEW r \in Requests, NEW P,
           \A q \in Requests \ {r} : g[q].at = f[q].at
    PROVE  Cardinality(Standing(g, P))
             = Cardinality(Standing(f, P)) + Weight(g[r].at, P) - Weight(f[r].at, P)
<1> DEFINE F == Standing(f, P)
           G == Standing(g, P)
<1>1. IsFiniteSet(F) /\ IsFiniteSet(G) /\ Cardinality(F) \in Nat /\ Cardinality(G) \in Nat
  BY StandingFinite
<1>2. CASE f[r].at \in P /\ g[r].at \in P
  <2>1. G = F
    BY <1>2 DEF Standing
  <2>. QED BY <1>1, <1>2, <2>1 DEF Weight
<1>3. CASE f[r].at \notin P /\ g[r].at \notin P
  <2>1. G = F
    BY <1>3 DEF Standing
  <2>. QED BY <1>1, <1>3, <2>1 DEF Weight
<1>4. CASE f[r].at \notin P /\ g[r].at \in P
  <2>1. G = F \union {r} /\ r \notin F
    BY <1>4 DEF Standing
  <2>2. Cardinality(G) = Cardinality(F) + 1
    BY <1>1, <2>1, FS_AddElement
  <2>. QED BY <1>1, <1>4, <2>2 DEF Weight
<1>5. CASE f[r].at \in P /\ g[r].at \notin P
  <2>1. G = F \ {r} /\ r \in F
    BY <1>5 DEF Standing
  <2>2. Cardinality(G) = Cardinality(F) - 1
    BY <1>1, <2>1, FS_RemoveElement
  <2>. QED BY <1>1, <1>5, <2>2 DEF Weight
<1>. QED BY <1>2, <1>3, <1>4, <1>5
-----------------------------------------------------------------------------
LEMMA RosterJoined ==
    ASSUME NEW w, NEW S, NEW r \in Requests, Roster(w, S), r \notin S
    PROVE  Roster(Append(w, r), S \union {r})
<1> DEFINE v == Append(w, r)
<1>1. /\ w \in Seq(Requests) /\ Len(w) \in Nat /\ DOMAIN w = 1 .. Len(w)
      /\ \A i \in 1 .. Len(w) : w[i] \in S
      /\ \A x \in S : \E i \in 1 .. Len(w) : w[i] = x
  BY LenProperties DEF Roster, ToSet
<1>2. /\ v \in Seq(Requests) /\ DOMAIN v = 1 .. Len(w) + 1
      /\ v[Len(w) + 1] = r
      /\ \A i \in 1 .. Len(w) : v[i] = w[i]
  BY <1>1
<1>3. IsInjective(v)
  BY <1>1, <1>2 DEF IsInjective, Roster
<1>4. ToSet(v) = S \union {r}
  <2>1. \A i \in DOMAIN v : v[i] \in S \union {r}
    BY <1>1, <1>2
  <2>2. \A x \in S \union {r} : \E i \in DOMAIN v : v[i] = x
    <3>1. \A x \in S : \E i \in 1 .. Len(w) : v[i] = x
      BY <1>1, <1>2
    <3>. QED BY <1>1, <1>2, <3>1
  <2>. QED BY <2>1, <2>2 DEF ToSet
<1>. QED BY <1>2, <1>3, <1>4 DEF Roster

LEMMA RosterServed ==
    ASSUME NEW w, NEW S, Roster(w, S), w # <<>>
    PROVE  Head(w) \in S /\ Head(w) \in Requests /\ Roster(Tail(w), S \ {Head(w)})
<1> DEFINE v == Tail(w)
<1>1. /\ w \in Seq(Requests) /\ Len(w) \in Nat \ {0} /\ DOMAIN w = 1 .. Len(w)
      /\ \A i \in 1 .. Len(w) : w[i] \in S /\ w[i] \in Requests
      /\ \A x \in S : \E i \in 1 .. Len(w) : w[i] = x
      /\ \A i, j \in 1 .. Len(w) : w[i] = w[j] => i = j
  BY LenProperties, EmptySeq DEF Roster, ToSet, IsInjective
<1>2. /\ v \in Seq(Requests) /\ DOMAIN v = 1 .. Len(w) - 1
      /\ \A i \in 1 .. Len(w) - 1 : v[i] = w[i + 1]
      /\ Head(w) = w[1]
  BY <1>1
<1>3. IsInjective(v)
  BY <1>1, <1>2 DEF IsInjective
<1>4. ToSet(v) = S \ {w[1]}
  <2>1. \A i \in DOMAIN v : v[i] \in S \ {w[1]}
    BY <1>1, <1>2
  <2>2. ASSUME NEW x \in S \ {w[1]} PROVE \E i \in DOMAIN v : v[i] = x
    <3>1. PICK j \in 1 .. Len(w) : w[j] = x
      BY <1>1
    <3>2. j - 1 \in 1 .. Len(w) - 1 /\ v[j - 1] = x
      BY <1>1, <1>2, <3>1
    <3>. QED BY <1>2, <3>2
  <2>. QED BY <2>1, <2>2 DEF ToSet
<1>. QED BY <1>1, <1>2, <1>3, <1>4 DEF Roster

LEMMA RosterLeft ==
    ASSUME NEW w, NEW S, Roster(w, S), NEW k \in DOMAIN w
    PROVE  Roster(RemoveAt(w, k), S \ {w[k]})
<1> DEFINE v == RemoveAt(w, k)
<1>1. /\ w \in Seq(Requests) /\ Len(w) \in Nat \ {0} /\ DOMAIN w = 1 .. Len(w)
      /\ \A i \in 1 .. Len(w) : w[i] \in S /\ w[i] \in Requests
      /\ \A x \in S : \E i \in 1 .. Len(w) : w[i] = x
      /\ \A i, j \in 1 .. Len(w) : w[i] = w[j] => i = j
  BY LenProperties, EmptySeq DEF Roster, ToSet, IsInjective
<1> DEFINE front == SubSeq(w, 1, k - 1)
           back == SubSeq(w, k + 1, Len(w))
<1>2. /\ front \in Seq(Requests) /\ Len(front) = k - 1
      /\ \A i \in 1 .. k - 1 : front[i] = w[i]
  <2>1. \A i \in 1 .. k - 1 : w[i] \in Requests
    BY <1>1
  <2>2. /\ front \in Seq(Requests)
        /\ Len(front) = IF 1 <= k - 1 THEN k - 1 - 1 + 1 ELSE 0
        /\ \A i \in 1 .. k - 1 - 1 + 1 : front[i] = w[1 + i - 1]
    BY <1>1, <2>1, SubSeqProperties
  <2>. QED BY <1>1, <2>2
<1>2a. /\ back \in Seq(Requests) /\ Len(back) = Len(w) - k
       /\ \A i \in 1 .. Len(w) - k : back[i] = w[i + k]
  <2>1. \A i \in k + 1 .. Len(w) : w[i] \in Requests
    BY <1>1
  <2>2. /\ back \in Seq(Requests)
        /\ Len(back) = IF k + 1 <= Len(w) THEN Len(w) - (k + 1) + 1 ELSE 0
        /\ \A i \in 1 .. Len(w) - (k + 1) + 1 : back[i] = w[k + 1 + i - 1]
    BY <1>1, <2>1, SubSeqProperties
  <2>. QED BY <1>1, <2>2, SMTT(40)
<1>3. /\ v \in Seq(Requests) /\ Len(v) = Len(w) - 1 /\ DOMAIN v = 1 .. Len(w) - 1
      /\ \A i \in 1 .. Len(w) - 1 : v[i] = IF i < k THEN w[i] ELSE w[i + 1]
  <2>1. v = front \o back
    BY DEF RemoveAt
  <2> HIDE DEF front, back, v
  <2>2. /\ v \in Seq(Requests) /\ Len(v) = Len(front) + Len(back)
        /\ \A i \in 1 .. Len(front) + Len(back) :
              v[i] = IF i <= Len(front) THEN front[i] ELSE back[i - Len(front)]
    BY <1>2, <1>2a, <2>1, ConcatProperties
  <2>3. v \in Seq(Requests) /\ Len(v) = Len(w) - 1 /\ DOMAIN v = 1 .. Len(w) - 1
    BY <1>1, <1>2, <1>2a, <2>2, LenProperties
  <2>4. ASSUME NEW i \in 1 .. Len(w) - 1, i < k PROVE v[i] = w[i]
    BY <1>1, <1>2, <1>2a, <2>2, <2>4
  <2>5. ASSUME NEW i \in 1 .. Len(w) - 1, ~ (i < k) PROVE v[i] = w[i + 1]
    <3>1. v[i] = back[i - (k - 1)] /\ i - (k - 1) \in 1 .. Len(w) - k
      BY <1>1, <1>2, <1>2a, <2>2, <2>5, SMTT(40)
    <3>2. back[i - (k - 1)] = w[i - (k - 1) + k]
      BY <1>2a, <3>1
    <3>. QED BY <1>1, <3>1, <3>2
  <2>. QED BY <2>3, <2>4, <2>5
<1>4. IsInjective(v)
  BY <1>1, <1>3, SMTT(40) DEF IsInjective
<1>5. ToSet(v) = S \ {w[k]}
  <2>1. \A i \in DOMAIN v : v[i] \in S \ {w[k]}
    BY <1>1, <1>3
  <2>2. ASSUME NEW x \in S \ {w[k]} PROVE \E i \in DOMAIN v : v[i] = x
    <3>1. PICK j \in 1 .. Len(w) : w[j] = x
      BY <1>1
    <3>2. CASE j < k
      <4>1. j \in DOMAIN v /\ v[j] = x
        BY <1>1, <1>3, <3>1, <3>2
      <4>. QED BY <4>1
    <3>3. CASE j > k
      <4>1. j - 1 \in DOMAIN v /\ v[j - 1] = x
        BY <1>1, <1>3, <3>1, <3>3
      <4>. QED BY <4>1
    <3>. QED BY <1>1, <3>1, <3>2, <3>3
  <2>. QED BY <2>1, <2>2 DEF ToSet
<1>. QED BY <1>3, <1>4, <1>5 DEF Roster
-----------------------------------------------------------------------------
(* Request r goes to x, and the list and the counters follow.              *)
LEMMA Relocated ==
    ASSUME NEW f, NEW w, NEW i, NEW q, NEW s, KeptBy(f, w, i, q, s),
           NEW r \in Requests, NEW x \in Forms,
           NEW v, Roster(v, IF x.at = "waiting" THEN Standing(f, {"waiting"}) \union {r}
                            ELSE Standing(f, {"waiting"}) \ {r}),
           NEW i2, i2 = i + Weight(x.at, Inside) - Weight(f[r].at, Inside),
           NEW q2, q2 = q + Weight(x.at, Queued) - Weight(f[r].at, Queued),
           NEW s2, s2 = s + Weight(x.at, Asleep) - Weight(f[r].at, Asleep)
    PROVE  KeptBy([f EXCEPT ![r] = x], v, i2, q2, s2)
<1> DEFINE g == [f EXCEPT ![r] = x]
<1>1. /\ g \in [Requests -> Forms] /\ g[r] = x
      /\ \A p \in Requests \ {r} : g[p] = f[p]
  BY DEF KeptBy
<1>2. \A p \in Requests \ {r} : g[p].at = f[p].at
  BY <1>1
<1> HIDE DEF g
<1>3. Standing(g, {"waiting"}) = IF x.at = "waiting" THEN Standing(f, {"waiting"}) \union {r}
                                ELSE Standing(f, {"waiting"}) \ {r}
  BY <1>1, <1>2 DEF Standing
<1>4. \A P : Cardinality(Standing(g, P))
               = Cardinality(Standing(f, P)) + Weight(x.at, P) - Weight(f[r].at, P)
  <2>. TAKE P
  <2>1. Cardinality(Standing(g, P))
           = Cardinality(Standing(f, P)) + Weight(g[r].at, P) - Weight(f[r].at, P)
    BY <1>2, Moved
  <2>. QED BY <1>1, <2>1
<1>5. Counted(g, i2, q2, s2)
  BY <1>4 DEF KeptBy, Counted
<1>6. KeptBy(g, v, i2, q2, s2)
  BY <1>1, <1>3, <1>5 DEF KeptBy
<1>. QED BY <1>6 DEF g

(* The counters of a kept state are not below the request's own share.     *)
LEMMA CountsKnown ==
    ASSUME NEW f, NEW w, NEW i, NEW q, NEW s, KeptBy(f, w, i, q, s), NEW r \in Requests
    PROVE  /\ i \in Nat /\ q \in Nat /\ s \in Nat
           /\ f[r].at \in Inside => i > 0
           /\ f[r].at \in Queued => q > 0
<1>1. i \in Nat /\ q \in Nat /\ s \in Nat
  BY StandingFinite DEF KeptBy, Counted
<1>2. ASSUME NEW P, f[r].at \in P PROVE Cardinality(Standing(f, P)) # 0
  <2>1. r \in Standing(f, P)
    BY <1>2 DEF Standing
  <2>. QED BY <2>1, StandingFinite, FS_EmptySet
<1>. QED BY <1>1, <1>2 DEF KeptBy, Counted

LEMMA RosterStays ==
    ASSUME NEW w, NEW S, Roster(w, S), NEW r, r \notin S
    PROVE  Roster(w, S \ {r})
<1>1. S \ {r} = S
  OBVIOUS
<1>. QED BY <1>1
-----------------------------------------------------------------------------
(* The steps that move one request between places where it is not on the   *)
(* list: only the counters have to follow.                                 *)
LEMMA MovesOffTheList ==
    ASSUME Kept, NEW r \in Requests, NEW x \in Forms,
           req' = [req EXCEPT ![r] = x], UNCHANGED waiters,
           req[r].at # "waiting", x.at # "waiting",
           in_flight' = in_flight + Weight(x.at, Inside) - Weight(req[r].at, Inside),
           in_queue' = in_queue + Weight(x.at, Queued) - Weight(req[r].at, Queued),
           sleepers' = sleepers + Weight(x.at, Asleep) - Weight(req[r].at, Asleep)
    PROVE  Kept'
<1>1. r \notin Standing(req, {"waiting"})
  BY DEF Standing
<1>2. Roster(waiters', Standing(req, {"waiting"}) \ {r})
  BY <1>1, RosterStays DEF Kept, KeptBy
<1>3. KeptBy([req EXCEPT ![r] = x], waiters', in_flight', in_queue', sleepers')
  BY <1>2, Relocated DEF Kept
<1>. QED BY <1>3 DEF Kept

LEMMA RestForms ==
    /\ Idle \in Forms /\ Idle.at = "idle"
    /\ \A to \in Places : Rest(to) \in Forms /\ Rest(to).at = to
<1>1. Idle \in Forms /\ Idle.at = "idle"
  BY DEF Forms, Idle, Places
<1>2. ASSUME NEW to \in Places PROVE Rest(to) \in Forms /\ Rest(to).at = to
  BY <1>1 DEF Forms, Rest
<1>. QED BY <1>1, <1>2

(* The same for a step that only changes the place, and for one after      *)
(* which the request knows nothing.                                        *)
LEMMA Goes ==
    ASSUME Kept, NEW r \in Requests, NEW from, NEW to \in Places,
           Go(r, from, to) \/ Settle(r, from, to), UNCHANGED waiters,
           from # "waiting", to # "waiting",
           in_flight' = in_flight + Weight(to, Inside) - Weight(from, Inside),
           in_queue' = in_queue + Weight(to, Queued) - Weight(from, Queued),
           sleepers' = sleepers + Weight(to, Asleep) - Weight(from, Asleep)
    PROVE  Kept'
<1>1. req \in [Requests -> Forms] /\ req[r] \in Forms /\ req[r].at = from
  BY DEF Kept, KeptBy, Go, Settle
<1>2. CASE Go(r, from, to)
  <2> DEFINE x == [req[r] EXCEPT !.at = to]
  <2>1. x \in Forms /\ x.at = to
    BY <1>1 DEF Forms
  <2>2. req' = [req EXCEPT ![r] = x]
    BY <1>1, <1>2 DEF Go
  <2> HIDE DEF x
  <2>. QED BY <1>1, <2>1, <2>2, MovesOffTheList
<1>3. CASE Settle(r, from, to)
  <2>1. Rest(to) \in Forms /\ Rest(to).at = to
    BY RestForms
  <2>2. req' = [req EXCEPT ![r] = Rest(to)]
    BY <1>3 DEF Settle
  <2>. QED BY <1>1, <2>1, <2>2, MovesOffTheList
<1>. QED BY <1>2, <1>3

LEMMA Leaves ==
    ASSUME Kept, NEW r \in Requests, Leave(r), UNCHANGED waiters, req[r].at # "waiting",
           in_flight' = in_flight - Weight(req[r].at, Inside),
           in_queue' = in_queue - Weight(req[r].at, Queued),
           sleepers' = sleepers - Weight(req[r].at, Asleep)
    PROVE  Kept'
<1>1. Idle \in Forms /\ Idle.at = "idle"
  BY RestForms
<1>2. \A P \in {Inside, Queued, Asleep} : Weight(Idle.at, P) = 0
  BY <1>1 DEF Weight, Inside, Queued, Asleep, Queueing
<1>3. in_flight \in Nat /\ in_queue \in Nat /\ sleepers \in Nat
  BY CountsKnown DEF Kept
<1>4. \A P : Weight(req[r].at, P) \in {0, 1}
  BY DEF Weight
<1>5. /\ in_flight' = in_flight + Weight(Idle.at, Inside) - Weight(req[r].at, Inside)
      /\ in_queue' = in_queue + Weight(Idle.at, Queued) - Weight(req[r].at, Queued)
      /\ sleepers' = sleepers + Weight(Idle.at, Asleep) - Weight(req[r].at, Asleep)
  BY <1>2, <1>3, <1>4
<1>6. req' = [req EXCEPT ![r] = Idle]
  BY DEF Leave
<1>7. Idle.at # "waiting"
  BY <1>1
<1>. QED BY <1>1, <1>5, <1>6, <1>7, MovesOffTheList

(* The first of the list is notified.                                      *)
LEMMA Noticed ==
    ASSUME NEW f, NEW w, NEW i, NEW q, NEW s, KeptBy(f, w, i, q, s), w # <<>>
    PROVE  KeptBy([f EXCEPT ![Head(w)].at = "notified"], Tail(w), i, q, s)
<1> DEFINE n == Head(w)
           y == [f[n] EXCEPT !.at = "notified"]
<1>1. /\ n \in Standing(f, {"waiting"}) /\ n \in Requests
      /\ Roster(Tail(w), Standing(f, {"waiting"}) \ {n})
  BY RosterServed DEF KeptBy
<1>2. f \in [Requests -> Forms] /\ f[n] \in Forms /\ f[n].at = "waiting"
  BY <1>1 DEF KeptBy, Standing
<1>3. y \in Forms /\ y.at = "notified"
  BY <1>2 DEF Forms, Places, Queueing
<1>4. [f EXCEPT ![Head(w)].at = "notified"] = [f EXCEPT ![n] = y]
  BY <1>2
<1> HIDE DEF n, y
<1>5. /\ Weight(y.at, Inside) = 0 /\ Weight(f[n].at, Inside) = 0
      /\ Weight(y.at, Queued) = 1 /\ Weight(f[n].at, Queued) = 1
      /\ Weight(y.at, Asleep) = 0 /\ Weight(f[n].at, Asleep) = 0
  BY <1>2, <1>3 DEF Weight, Inside, Queued, Asleep, Queueing
<1>6. i \in Nat /\ q \in Nat /\ s \in Nat
  BY <1>1, CountsKnown
<1>7. /\ i = i + Weight(y.at, Inside) - Weight(f[n].at, Inside)
      /\ q = q + Weight(y.at, Queued) - Weight(f[n].at, Queued)
      /\ s = s + Weight(y.at, Asleep) - Weight(f[n].at, Asleep)
  BY <1>5, <1>6
<1>8. KeptBy([f EXCEPT ![n] = y], Tail(w), i, q, s)
  BY <1>1, <1>3, <1>7, Relocated
<1>. QED BY <1>4, <1>8

(* notify_one after request r went to x, a place off the list.             *)
LEMMA Notifies ==
    ASSUME Kept, NEW r \in Requests, NEW x \in Forms, NotifyOne([req EXCEPT ![r] = x]),
           req[r].at # "waiting", x.at # "waiting",
           in_flight' = in_flight + Weight(x.at, Inside) - Weight(req[r].at, Inside),
           in_queue' = in_queue + Weight(x.at, Queued) - Weight(req[r].at, Queued),
           sleepers' = sleepers + Weight(x.at, Asleep) - Weight(req[r].at, Asleep)
    PROVE  Kept'
<1> DEFINE base == [req EXCEPT ![r] = x]
<1>1. CASE waiters = <<>>
  BY <1>1, MovesOffTheList DEF NotifyOne
<1>2. CASE waiters # <<>>
  <2>1. KeptBy(base, waiters, in_flight', in_queue', sleepers')
    <3>1. Roster(waiters, Standing(req, {"waiting"}) \ {r})
      BY RosterStays DEF Kept, KeptBy, Standing
    <3>. QED BY <3>1, Relocated DEF Kept
  <2> HIDE DEF base
  <2>2. KeptBy([base EXCEPT ![Head(waiters)].at = "notified"], Tail(waiters),
               in_flight', in_queue', sleepers')
    BY <1>2, <2>1, Noticed
  <2>3. req' = [base EXCEPT ![Head(waiters)].at = "notified"] /\ waiters' = Tail(waiters)
    BY <1>2 DEF NotifyOne, base
  <2>. QED BY <2>2, <2>3 DEF Kept
<1>. QED BY <1>1, <1>2
-----------------------------------------------------------------------------
LEMMA LimiterInit == Init => LInv
<1> SUFFICES ASSUME Init PROVE LInv
  OBVIOUS
<1>1. req \in [Requests -> Forms] /\ \A r \in Requests : req[r].at = "idle"
  BY RestForms DEF Init
<1>2. \A P : "idle" \notin P => Standing(req, P) = {}
  BY <1>1 DEF Standing
<1>3. Roster(waiters, Standing(req, {"waiting"}))
  <2>1. waiters = <<>> /\ Standing(req, {"waiting"}) = {}
    BY <1>2 DEF Init
  <2>2. <<>> \in Seq(Requests) /\ DOMAIN <<>> = {}
    OBVIOUS
  <2>. QED BY <2>1, <2>2 DEF Roster, IsInjective, ToSet
<1>4. Counted(req, in_flight, in_queue, sleepers)
  BY <1>2, FS_EmptySet DEF Init, Counted, Inside, Queued, Asleep, Queueing
<1>5. Shape
  <2>1. MaxTime \in Nat /\ Burst \in Nat /\ ShapingTicks \in Nat
    BY LimiterConfig DEF LimiterConfig
  <2>2. 0 \in 0 .. MaxTime /\ 0 \in 0 .. 0 /\ 0 \in 0 - ShapingTicks .. Burst
    BY <2>1
  <2>3. <<>> \in Seq(0 .. MaxTime)
    OBVIOUS
  <2>. QED BY <2>2, <2>3 DEF Init, Shape
<1>. QED BY <1>1, <1>3, <1>4, <1>5 DEF LInv, Kept, KeptBy

(* Ask is the only step that touches the bucket.                           *)
LEMMA AskKeeps ==
    ASSUME LInv, NEW r \in Requests, Ask(r)
    PROVE  LInv'
<1>1. PICK key \in ApiKeys :
          LET wait == 1 - Refilled(key)
              Move(to, due) == req' = [req EXCEPT ![r] =
                                 [at |-> to, limit |-> key.limit, due |-> due, late |-> FALSE]]
          IN  \/ /\ ~ key.qps
                 /\ tokens' = Found(key).tokens /\ last_update' = Found(key).last_update
                 /\ Move("shaped", 0) /\ UNCHANGED granted
              \/ /\ key.qps /\ last_update' = now
                 /\ \/ /\ wait <= 0
                       /\ tokens' = Refilled(key) - 1 /\ Grant(now)
                       /\ Move("shaped", 0)
                    \/ /\ wait \in 1 .. ShapingTicks /\ now + wait <= MaxTime
                       /\ tokens' = Refilled(key) - 1 /\ Grant(now + wait)
                       /\ Move("borrowed", now + wait)
                    \/ /\ wait > ShapingTicks
                       /\ tokens' = Refilled(key)
                       /\ UNCHANGED <<req, granted>>
  BY DEF Ask
<1>2. /\ req[r].at = "idle" /\ known' = TRUE
      /\ UNCHANGED <<now, in_flight, in_queue, permit, waiters, sleepers>>
  BY DEF Ask, counters, notify
<1> DEFINE F == Found(key)
           R == Refilled(key)
           Asked(to, due) == [at |-> to, limit |-> key.limit, due |-> due, late |-> FALSE]
<1>3. /\ F.tokens \in 0 - ShapingTicks .. Burst /\ F.last_update \in 0 .. now
      /\ now \in Nat /\ Burst \in Nat \ {0} /\ ShapingTicks \in Nat
  BY LimiterConfig DEF LInv, Shape, Found, LimiterConfig
<1>4. R \in Int /\ R <= Burst /\ R >= F.tokens
  <2>1. F.tokens + (now - F.last_update) \in Int /\ F.tokens + (now - F.last_update) >= F.tokens
    BY <1>3
  <2> HIDE DEF F
  <2>2. Min({F.tokens + (now - F.last_update), Burst})
           = IF F.tokens + (now - F.last_update) <= Burst
             THEN F.tokens + (now - F.last_update) ELSE Burst
    BY <1>3, <2>1, MinOfTwo
  <2>3. R = Min({F.tokens + (now - F.last_update), Burst})
    BY DEF Refilled, F
  <2> HIDE DEF R
  <2>. QED BY <1>3, <2>1, <2>2, <2>3
<1>5. /\ tokens' \in 0 - ShapingTicks .. Burst
      /\ last_update' \in 0 .. now
  <2> HIDE DEF F, R
  <2>1. CASE ~ key.qps
    BY <1>1, <1>3, <2>1 DEF F
  <2>2. CASE key.qps
    BY <1>1, <1>3, <1>4, <2>2 DEF R
  <2>. QED BY <2>1, <2>2
<1>6. granted' \in Seq(0 .. MaxTime)
  <2>1. ASSUME NEW t \in 0 .. MaxTime, Grant(t) PROVE granted' \in Seq(0 .. MaxTime)
    BY <2>1 DEF Grant, LInv, Shape
  <2>2. now \in 0 .. MaxTime /\ MaxTime \in Nat
    BY LimiterConfig DEF LInv, Shape, LimiterConfig
  <2>3. \A wait \in 1 .. ShapingTicks : now + wait <= MaxTime => now + wait \in 0 .. MaxTime
    BY <1>3, <2>2
  <2>. QED BY <1>1, <2>1, <2>2, <2>3 DEF LInv, Shape
<1>7. Shape'
  BY <1>2, <1>5, <1>6 DEF LInv, Shape
<1>8. Kept'
  <2>1. \/ req' = [req EXCEPT ![r] = Asked("shaped", 0)]
        \/ \E wait \in Int : req' = [req EXCEPT ![r] = Asked("borrowed", now + wait)]
        \/ UNCHANGED req
    BY <1>1, <1>4
  <2>2. \A due \in Int : \A to \in {"shaped", "borrowed"} :
            Asked(to, due) \in Forms /\ Asked(to, due).at = to
    BY LimiterConfig DEF LimiterConfig, Forms, Places
  <2> HIDE DEF Asked
  <2>3. ASSUME NEW x \in Forms, req' = [req EXCEPT ![r] = x], x.at \in {"shaped", "borrowed"}
        PROVE  Kept'
    <3>1. \A P \in {Inside, Queued, Asleep} : Weight(x.at, P) = 0 /\ Weight(req[r].at, P) = 0
      BY <1>2, <2>3 DEF Weight, Inside, Queued, Asleep, Queueing
    <3>2. in_flight \in Nat /\ in_queue \in Nat /\ sleepers \in Nat
      BY CountsKnown DEF LInv, Kept
    <3>3. /\ in_flight' = in_flight + Weight(x.at, Inside) - Weight(req[r].at, Inside)
          /\ in_queue' = in_queue + Weight(x.at, Queued) - Weight(req[r].at, Queued)
          /\ sleepers' = sleepers + Weight(x.at, Asleep) - Weight(req[r].at, Asleep)
      BY <1>2, <3>1, <3>2
    <3>. QED BY <1>2, <2>3, <3>3, MovesOffTheList DEF LInv
  <2>4. CASE UNCHANGED req
    BY <1>2, <2>4 DEF LInv, Kept
  <2>5. CASE req' = [req EXCEPT ![r] = Asked("shaped", 0)]
    <3>1. PICK x : x = Asked("shaped", 0)
      OBVIOUS
    <3>2. x \in Forms /\ x.at = "shaped"
      BY <2>2, <3>1
    <3>3. req' = [req EXCEPT ![r] = x]
      BY <2>5, <3>1
    <3>. QED BY <2>3, <3>2, <3>3
  <2>6. CASE \E wait \in Int : req' = [req EXCEPT ![r] = Asked("borrowed", now + wait)]
    <3>1. PICK wait \in Int : req' = [req EXCEPT ![r] = Asked("borrowed", now + wait)]
      BY <2>6
    <3>2. now + wait \in Int
      BY <1>3
    <3>. QED BY <2>2, <2>3, <3>1, <3>2
  <2>. QED BY <2>1, <2>4, <2>5, <2>6
<1>. QED BY <1>7, <1>8 DEF LInv
-----------------------------------------------------------------------------
(* A step that takes a request off the list, or puts one on it.            *)
LEMMA Unlists ==
    ASSUME Kept, NEW r \in Requests, NEW to \in {"timed_out", "dropped_queued"},
           req' = [req EXCEPT ![r] = Rest(to)], Unlist(r),
           req[r].at \in {"queued", "woken", "waiting", "timed_out"},
           UNCHANGED <<in_flight, in_queue, sleepers>>
    PROVE  Kept'
<1>1. Rest(to) \in Forms /\ Rest(to).at = to
  BY RestForms DEF Places
<1>2. /\ in_flight \in Nat /\ in_queue \in Nat /\ sleepers \in Nat
      /\ Weight(to, Inside) = 0 /\ Weight(req[r].at, Inside) = 0
      /\ Weight(to, Queued) = 1 /\ Weight(req[r].at, Queued) = 1
      /\ Weight(to, Asleep) = 0 /\ Weight(req[r].at, Asleep) = 0
  BY CountsKnown DEF Kept, Weight, Inside, Queued, Asleep, Queueing
<1>3. /\ in_flight' = in_flight + Weight(Rest(to).at, Inside) - Weight(req[r].at, Inside)
      /\ in_queue' = in_queue + Weight(Rest(to).at, Queued) - Weight(req[r].at, Queued)
      /\ sleepers' = sleepers + Weight(Rest(to).at, Asleep) - Weight(req[r].at, Asleep)
  BY <1>1, <1>2
<1>4. Rest(to).at # "waiting"
  BY <1>1
<1>5. CASE req[r].at # "waiting"
  BY <1>1, <1>3, <1>4, <1>5, MovesOffTheList DEF Unlist
<1>6. CASE req[r].at = "waiting"
  <2>1. PICK k \in DOMAIN waiters : waiters[k] = r /\ waiters' = RemoveAt(waiters, k)
    BY <1>6 DEF Unlist
  <2>2. Roster(waiters', Standing(req, {"waiting"}) \ {r})
    BY <2>1, RosterLeft DEF Kept, KeptBy
  <2>3. KeptBy([req EXCEPT ![r] = Rest(to)], waiters', in_flight', in_queue', sleepers')
    BY <1>1, <1>3, <1>4, <2>2, Relocated DEF Kept
  <2>. QED BY <2>3 DEF Kept
<1>. QED BY <1>5, <1>6

LEMMA AwaitNoticeKeeps ==
    ASSUME Kept, NEW r \in Requests, AwaitNotice(r)
    PROVE  Kept'
<1>1. /\ in_flight \in Nat /\ in_queue \in Nat /\ sleepers \in Nat
      /\ UNCHANGED <<in_flight, in_queue, sleepers>>
  BY CountsKnown DEF Kept, AwaitNotice, counters
<1>2. \A to \in {"queued", "waiting", "woken"} :
          /\ Weight(to, Inside) = 0 /\ Weight(to, Queued) = 1 /\ Weight(to, Asleep) = 0
          /\ to \in Places
  BY DEF Weight, Inside, Queued, Asleep, Queueing, Places
<1>3. CASE permit
  <2>1. Go(r, "queued", "woken") /\ UNCHANGED waiters
    BY <1>3 DEF AwaitNotice
  <2>. QED BY <1>1, <1>2, <2>1, Goes
<1>4. CASE ~ permit
  <2> DEFINE x == [req[r] EXCEPT !.at = "waiting"]
  <2>1. /\ req[r].at = "queued" /\ req \in [Requests -> Forms] /\ req[r] \in Forms
        /\ req' = [req EXCEPT ![r].at = "waiting"] /\ waiters' = Append(waiters, r)
    BY <1>4 DEF AwaitNotice, Go, Kept, KeptBy
  <2>2. x \in Forms /\ x.at = "waiting"
    BY <1>2, <2>1 DEF Forms
  <2>3. req' = [req EXCEPT ![r] = x]
    BY <2>1
  <2> HIDE DEF x
  <2>4. Roster(waiters', Standing(req, {"waiting"}) \union {r})
    <3>1. r \notin Standing(req, {"waiting"})
      BY <2>1 DEF Standing
    <3>. QED BY <2>1, <3>1, RosterJoined DEF Kept, KeptBy
  <2>5. /\ in_flight' = in_flight + Weight(x.at, Inside) - Weight(req[r].at, Inside)
        /\ in_queue' = in_queue + Weight(x.at, Queued) - Weight(req[r].at, Queued)
        /\ sleepers' = sleepers + Weight(x.at, Asleep) - Weight(req[r].at, Asleep)
    BY <1>1, <1>2, <2>1, <2>2
  <2>6. KeptBy([req EXCEPT ![r] = x], waiters', in_flight', in_queue', sleepers')
    BY <2>2, <2>4, <2>5, Relocated DEF Kept
  <2>. QED BY <2>3, <2>6 DEF Kept
<1>. QED BY <1>3, <1>4

LEMMA ProgressKeeps ==
    ASSUME Kept, NEW r \in Requests, Progress(r)
    PROVE  Kept'
<1> USE DEF Weight, Inside, Queued, Asleep, Queueing
<1>1. in_flight \in Nat /\ in_queue \in Nat /\ sleepers \in Nat
  BY CountsKnown DEF Kept
<1>2. \A place \in Inside \union Queued \union Asleep \union {"shaped", "borrowed"} : place \in Places
  BY DEF Places
<1>3. CASE FallAsleep(r)
  <2>1. PICK to \in {"turned_away", "sleeping"} : Go(r, "borrowed", to)
    BY <1>3 DEF FallAsleep
  <2>2. sleepers' = sleepers + 1 /\ UNCHANGED <<in_flight, in_queue, waiters>>
    BY <1>3 DEF FallAsleep, counters, notify
  <2>. QED BY <1>1, <1>2, <2>1, <2>2, Goes
<1>4. CASE TurnedAway(r) \/ QueueRefused(r)
  BY <1>1, <1>4, Leaves DEF TurnedAway, QueueRefused, counters, notify
<1>5. CASE WakeUp(r)
  <2> DEFINE x == [req[r] EXCEPT !.at = "shaped", !.due = 0]
  <2>1. /\ req[r].at = "sleeping" /\ req \in [Requests -> Forms] /\ req[r] \in Forms
        /\ req' = [req EXCEPT ![r].at = "shaped", ![r].due = 0]
        /\ sleepers' = sleepers - 1 /\ UNCHANGED <<in_flight, in_queue, waiters>>
    BY <1>5 DEF WakeUp, Kept, KeptBy, counters, notify
  <2>2. x \in Forms /\ x.at = "shaped"
    <3> DEFINE y == [req[r] EXCEPT !.at = "shaped"]
    <3>1. y \in Forms /\ y.at = "shaped"
      BY <1>2, <2>1 DEF Forms
    <3>2. x = [y EXCEPT !.due = 0]
      OBVIOUS
    <3> HIDE DEF x, y
    <3>. QED BY <3>1, <3>2 DEF Forms
  <2>3. req' = [req EXCEPT ![r] = x]
    BY <2>1
  <2> HIDE DEF x
  <2>4. /\ in_flight' = in_flight + Weight(x.at, Inside) - Weight(req[r].at, Inside)
        /\ in_queue' = in_queue + Weight(x.at, Queued) - Weight(req[r].at, Queued)
        /\ sleepers' = sleepers + Weight(x.at, Asleep) - Weight(req[r].at, Asleep)
    BY <1>1, <2>1, <2>2
  <2>5. req[r].at # "waiting" /\ x.at # "waiting" /\ UNCHANGED waiters
    BY <2>1, <2>2
  <2> HIDE DEF Weight, Inside, Queued, Asleep, Queueing
  <2>. QED BY <2>2, <2>3, <2>4, <2>5, MovesOffTheList
<1>6. CASE Enter(r)
  BY <1>1, <1>2, <1>6, Goes DEF Enter, notify
<1>7. CASE QueueUp(r)
  BY <1>1, <1>2, <1>7, Goes DEF QueueUp, notify
<1>8. CASE AwaitNotice(r)
  BY <1>8, AwaitNoticeKeeps
<1>9. CASE SeeNotice(r) \/ WaitAgain(r)
  <2>1. /\ Go(r, "notified", "woken") \/ Go(r, "woken", "queued")
        /\ UNCHANGED <<in_flight, in_queue, sleepers, waiters>>
    BY <1>9 DEF SeeNotice, WaitAgain, counters, notify
  <2>. QED BY <1>1, <1>2, <2>1, Goes
<1>10. CASE TakeOver(r)
  <2>1. req[r].at = "woken" /\ Settle(r, "woken", "holding")
        /\ in_flight' = in_flight + 1 /\ UNCHANGED <<sleepers, waiters>>
    BY <1>10 DEF TakeOver, Settle, notify
  <2>2. in_queue > 0
    BY <2>1, CountsKnown DEF Kept
  <2>3. in_queue' = in_queue - 1
    BY <1>10, <2>2 DEF TakeOver
  <2>. QED BY <1>1, <1>2, <2>1, <2>3, Goes
<1>11. CASE TimeOut(r)
  BY <1>11, Unlists DEF TimeOut, counters
<1>12. CASE RemoveQueued(r)
  <2>1. req[r].at = "timed_out" /\ Leave(r) /\ UNCHANGED <<in_flight, sleepers, waiters>>
    BY <1>12 DEF RemoveQueued, notify
  <2>2. in_queue > 0
    BY <2>1, CountsKnown DEF Kept
  <2>3. in_queue' = in_queue - 1
    BY <1>12, <2>2 DEF RemoveQueued
  <2>. QED BY <1>1, <2>1, <2>3, Leaves
<1>. QED BY <1>3, <1>4, <1>5, <1>6, <1>7, <1>8, <1>9, <1>10, <1>11, <1>12 DEF Progress

LEMMA CancelKeeps ==
    ASSUME Kept, NEW r \in Requests, Cancel(r)
    PROVE  Kept'
<1>1. /\ in_flight \in Nat /\ in_queue \in Nat /\ sleepers \in Nat
      /\ UNCHANGED <<in_flight, in_queue, sleepers>>
  BY CountsKnown DEF Kept, Cancel, counters
<1>2. CASE req[r].at = "shaped" /\ Leave(r) /\ UNCHANGED notify
  BY <1>1, <1>2, Leaves DEF notify, Weight, Inside, Queued, Asleep, Queueing
<1>3. CASE Settle(r, "sleeping", "dropped_asleep") /\ UNCHANGED notify
  BY <1>1, <1>3, Goes DEF notify, Weight, Inside, Queued, Asleep, Queueing, Places
<1>4. CASE /\ req[r].at \in {"waiting", "woken", "timed_out"}
           /\ req' = [req EXCEPT ![r] = Rest("dropped_queued")]
           /\ Unlist(r)
  BY <1>1, <1>4, Unlists
<1>5. CASE /\ req[r].at = "notified"
           /\ NotifyOne([req EXCEPT ![r] = Rest("dropped_queued")])
  <2>1. Rest("dropped_queued") \in Forms /\ Rest("dropped_queued").at = "dropped_queued"
    BY RestForms DEF Places
  <2> DEFINE x == Rest("dropped_queued")
  <2> HIDE DEF x
  <2>2. x \in Forms /\ x.at = "dropped_queued"
    BY <2>1 DEF x
  <2>3. NotifyOne([req EXCEPT ![r] = x])
    BY <1>5 DEF x
  <2>4. /\ in_flight' = in_flight + Weight(x.at, Inside) - Weight(req[r].at, Inside)
        /\ in_queue' = in_queue + Weight(x.at, Queued) - Weight(req[r].at, Queued)
        /\ sleepers' = sleepers + Weight(x.at, Asleep) - Weight(req[r].at, Asleep)
    BY <1>1, <1>5, <2>2 DEF Weight, Inside, Queued, Asleep, Queueing
  <2>. QED BY <1>5, <2>2, <2>3, <2>4, Notifies
<1>. QED BY <1>2, <1>3, <1>4, <1>5 DEF Cancel

LEMMA ReleaseKeeps ==
    ASSUME Kept, NEW r \in Requests, Release(r)
    PROVE  Kept'
<1>1. /\ in_flight \in Nat /\ in_queue \in Nat /\ sleepers \in Nat
      /\ req[r].at = "holding" /\ in_flight > 0
      /\ in_flight' = in_flight - 1 /\ UNCHANGED <<in_queue, sleepers>>
  <2>1. req[r].at = "holding" /\ UNCHANGED <<in_queue, sleepers>>
    BY DEF Release
  <2>2. in_flight \in Nat /\ in_queue \in Nat /\ sleepers \in Nat /\ in_flight > 0
    BY <2>1, CountsKnown DEF Kept, Inside
  <2>. QED BY <2>1, <2>2 DEF Release
<1>2. CASE in_queue > 0
  <2> DEFINE x == Idle
  <2>1. NotifyOne([req EXCEPT ![r] = x])
    BY <1>2 DEF Release
  <2>2. x \in Forms /\ x.at = "idle"
    BY RestForms
  <2> HIDE DEF x
  <2>3. /\ in_flight' = in_flight + Weight(x.at, Inside) - Weight(req[r].at, Inside)
        /\ in_queue' = in_queue + Weight(x.at, Queued) - Weight(req[r].at, Queued)
        /\ sleepers' = sleepers + Weight(x.at, Asleep) - Weight(req[r].at, Asleep)
    BY <1>1, <2>2 DEF Weight, Inside, Queued, Asleep, Queueing
  <2>. QED BY <1>1, <2>1, <2>2, <2>3, Notifies
<1>3. CASE ~ (in_queue > 0)
  <2>1. Leave(r) /\ UNCHANGED waiters
    BY <1>3 DEF Release, Leave, notify
  <2>. QED BY <1>1, <2>1, Leaves DEF Weight, Inside, Queued, Asleep, Queueing
<1>. QED BY <1>2, <1>3

LEMMA ExpireKeeps ==
    ASSUME Kept, NEW r \in Requests, Expire(r)
    PROVE  Kept'
<1> DEFINE x == [req[r] EXCEPT !.late = TRUE]
<1>1. /\ req \in [Requests -> Forms] /\ req[r] \in Forms
      /\ req' = [req EXCEPT ![r].late = TRUE]
      /\ UNCHANGED <<waiters, in_flight, in_queue, sleepers>>
  BY DEF Kept, KeptBy, Expire, counters, notify
<1>2. x \in Forms /\ x.at = req[r].at
  BY <1>1 DEF Forms
<1>3. req' \in [Requests -> Forms] /\ \A q \in Requests : req'[q].at = req[q].at
  BY <1>1, <1>2
<1>4. \A P : Standing(req', P) = Standing(req, P)
  BY <1>3 DEF Standing
<1>. QED BY <1>1, <1>3, <1>4 DEF Kept, KeptBy, Counted

(* Only Ask touches the bucket, and only time the clock.                   *)
LEMMA ShapeKept ==
    ASSUME Shape, NEW r \in Requests,
           Progress(r) \/ Expire(r) \/ Release(r) \/ Cancel(r)
    PROVE  Shape'
<1>1. UNCHANGED <<now, known, tokens, last_update, granted>>
  BY DEF Progress, FallAsleep, TurnedAway, WakeUp, Enter, QueueUp, QueueRefused, AwaitNotice,
         SeeNotice, TakeOver, WaitAgain, TimeOut, RemoveQueued, Expire, Release, Cancel, bucket
<1>2. permit' \in BOOLEAN
  BY DEF Shape, Progress, FallAsleep, TurnedAway, WakeUp, Enter, QueueUp, QueueRefused,
         AwaitNotice, SeeNotice, TakeOver, WaitAgain, TimeOut, RemoveQueued, Expire, Release,
         Cancel, NotifyOne, notify
<1>. QED BY <1>1, <1>2 DEF Shape

LEMMA LimiterStep == LInv /\ [Next]_vars => LInv'
<1> SUFFICES ASSUME LInv, [Next]_vars PROVE LInv'
  OBVIOUS
<1>1. CASE Tick
  <2>1. now' \in 0 .. MaxTime /\ last_update' \in 0 .. now'
    BY <1>1, LimiterConfig DEF LInv, Shape, Tick, bucket, LimiterConfig
  <2>. QED BY <1>1, <2>1 DEF LInv, Shape, Kept, Tick, bucket, counters, notify
<1>2. ASSUME NEW r \in Requests, Ask(r) PROVE LInv'
  BY <1>2, AskKeeps
<1>3. ASSUME NEW r \in Requests, Progress(r) PROVE LInv'
  BY <1>3, ProgressKeeps, ShapeKept DEF LInv
<1>4. ASSUME NEW r \in Requests, Expire(r) PROVE LInv'
  BY <1>4, ExpireKeeps, ShapeKept DEF LInv
<1>5. ASSUME NEW r \in Requests, Release(r) PROVE LInv'
  BY <1>5, ReleaseKeeps, ShapeKept DEF LInv
<1>6. ASSUME NEW r \in Requests, Cancel(r) PROVE LInv'
  BY <1>6, CancelKeeps, ShapeKept DEF LInv
<1>7. CASE UNCHANGED vars
  BY <1>7 DEF vars, LInv, Shape, Kept
<1>. QED BY <1>1, <1>2, <1>3, <1>4, <1>5, <1>6, <1>7 DEF Next

LEMMA LimiterAlwaysKept == Spec => []LInv
BY LimiterInit, LimiterStep, PTL DEF Spec
-----------------------------------------------------------------------------
(* A request comes to hold a slot by Enter or TakeOver alone, and to sleep *)
(* by FallAsleep: a notice moves nobody there.                             *)
LEMMA NoticeGivesNoSlot ==
    ASSUME NEW r \in Requests, NEW base \in [Requests -> Forms], NotifyOne(base),
           NEW place, place # "notified", base[r].at # place
    PROVE  req'[r].at # place
<1>1. CASE waiters = <<>>
  BY <1>1 DEF NotifyOne
<1>2. CASE waiters # <<>>
  <2> DEFINE h == Head(waiters)
  <2>1. req' = [base EXCEPT ![h].at = "notified"]
    BY <1>2 DEF NotifyOne
  <2> HIDE DEF h
  <2>2. CASE h = r
    <3>1. req'[r] = [base[r] EXCEPT !.at = "notified"]
      BY <2>1, <2>2
    <3>2. base[r] \in Forms
      OBVIOUS
    <3>3. req'[r].at = "notified"
      BY <3>1, <3>2 DEF Forms
    <3>. QED BY <3>3
  <2>3. CASE h # r
    BY <2>1, <2>3
  <2>. QED BY <2>2, <2>3
<1>. QED BY <1>1, <1>2

LEMMA OnlyWaysIn ==
    ASSUME req \in [Requests -> Forms], Next,
           NEW r \in Requests, NEW place \in {"holding", "sleeping"},
           req[r].at # place, req'[r].at = place
    PROVE  Enter(r) \/ TakeOver(r) \/ FallAsleep(r)
<1> SUFFICES ASSUME ~ Enter(r), ~ TakeOver(r), ~ FallAsleep(r) PROVE FALSE
  OBVIOUS
<1>1. ASSUME NEW q \in Requests, NEW x \in Forms, req' = [req EXCEPT ![q] = x], q = r => x.at # place
      PROVE  FALSE
  BY <1>1
<1>2. ASSUME NEW q \in Requests, NEW from, NEW to, Go(q, from, to), q = r => to # place
      PROVE  FALSE
  <2>1. req[q] \in Forms /\ req' = [req EXCEPT ![q].at = to]
    BY <1>2 DEF Go
  <2>2. CASE q = r
    <3>1. req'[r] = [req[r] EXCEPT !.at = to]
      BY <2>1, <2>2
    <3>2. req'[r].at = to
      BY <2>1, <2>2, <3>1 DEF Forms
    <3>. QED BY <1>2, <2>2, <3>2
  <2>3. CASE q # r
    BY <2>1, <2>3
  <2>. QED BY <2>2, <2>3
<1>3. ASSUME NEW q \in Requests, NEW to \in Places \ {place}, req' = [req EXCEPT ![q] = Rest(to)]
      PROVE  FALSE
  <2>1. Rest(to) \in Forms /\ Rest(to).at = to
    BY RestForms
  <2> DEFINE x == Rest(to)
  <2> HIDE DEF x
  <2>2. x \in Forms /\ x.at # place /\ req' = [req EXCEPT ![q] = x]
    BY <1>3, <2>1 DEF x
  <2>. QED BY <1>1, <2>2
<1>4. ASSUME NEW q \in Requests, Leave(q) PROVE FALSE
  BY <1>4 DEF Leave, Idle
<1>5. ASSUME NEW q \in Requests, Ask(q) PROVE FALSE
  <2>1. req'[r].at \in {req[r].at, "shaped", "borrowed"}
    BY <1>5 DEF Ask
  <2>. QED BY <2>1
<1>6. ASSUME NEW q \in Requests, Progress(q) PROVE FALSE
  <2>1. CASE FallAsleep(q)
    BY <1>2, <2>1 DEF FallAsleep
  <2>2. CASE TurnedAway(q) \/ QueueRefused(q) \/ RemoveQueued(q)
    BY <1>4, <2>2 DEF TurnedAway, QueueRefused, RemoveQueued
  <2>3. CASE WakeUp(q)
    BY <2>3 DEF WakeUp, Forms
  <2>4. CASE Enter(q) \/ TakeOver(q)
    <3>1. q # r /\ req' = [req EXCEPT ![q] = Rest("holding")]
      BY <2>4 DEF Enter, TakeOver, Settle
    <3>. QED BY <2>4, <3>1
  <2>5. CASE QueueUp(q) \/ SeeNotice(q) \/ WaitAgain(q)
    BY <1>2, <2>5 DEF QueueUp, SeeNotice, WaitAgain
  <2>6. CASE AwaitNotice(q)
    BY <1>2, <2>6 DEF AwaitNotice
  <2>7. CASE TimeOut(q)
    BY <1>3, <2>7 DEF TimeOut, Places
  <2>. QED BY <1>6, <2>1, <2>2, <2>3, <2>4, <2>5, <2>6, <2>7 DEF Progress
<1>7. ASSUME NEW q \in Requests, Expire(q) PROVE FALSE
  BY <1>7 DEF Expire, Forms
<1>8. ASSUME NEW q \in Requests, NEW x \in Forms, NotifyOne([req EXCEPT ![q] = x]), x.at # place
      PROVE  FALSE
  <2> DEFINE base == [req EXCEPT ![q] = x]
  <2>1. base \in [Requests -> Forms] /\ base[r].at # place
    BY <1>8
  <2> HIDE DEF base
  <2>2. NotifyOne(base)
    BY <1>8 DEF base
  <2>. QED BY <2>1, <2>2, NoticeGivesNoSlot
<1>9. ASSUME NEW q \in Requests, Release(q) PROVE FALSE
  <2>1. CASE in_queue > 0
    BY <1>8, <1>9, <2>1, RestForms DEF Release
  <2>2. CASE ~ (in_queue > 0)
    BY <1>4, <1>9, <2>2 DEF Release, Leave
  <2>. QED BY <2>1, <2>2
<1>10. ASSUME NEW q \in Requests, Cancel(q) PROVE FALSE
  <2>1. "dropped_queued" \in Places \ {place} /\ "dropped_asleep" \in Places \ {place}
    BY DEF Places
  <2>2. CASE NotifyOne([req EXCEPT ![q] = Rest("dropped_queued")])
    BY <1>8, <2>1, <2>2, RestForms
  <2>3. CASE Leave(q) \/ Settle(q, "sleeping", "dropped_asleep")
             \/ req' = [req EXCEPT ![q] = Rest("dropped_queued")]
    BY <1>3, <1>4, <2>1, <2>3 DEF Settle
  <2>. QED BY <1>10, <2>2, <2>3 DEF Cancel
<1>11. CASE Tick
  BY <1>11 DEF Tick
<1>. QED BY <1>5, <1>6, <1>7, <1>9, <1>10, <1>11 DEF Next
-----------------------------------------------------------------------------
(* The bucket stays within its size and its debt, and the list of waiters  *)
(* holds exactly those who wait (runtime.rs).                              *)
THEOREM LimiterTypeCorrect == Spec => []TypeOK
<1>1. LInv => TypeOK
  <2> SUFFICES ASSUME LInv PROVE TypeOK
    OBVIOUS
  <2>1. in_flight \in Nat /\ in_queue \in Nat /\ sleepers \in Nat
    BY StandingFinite DEF LInv, Kept, KeptBy, Counted
  <2>2. \A r \in Requests : req[r].at \in Places
    BY DEF LInv, Kept, KeptBy, Forms
  <2>3. /\ IsInjective(waiters) /\ At({"waiting"}) = ToSet(waiters)
        /\ \A i \in DOMAIN waiters : req[waiters[i]].at = "waiting"
    BY DEF LInv, Kept, KeptBy, Roster, At, Standing, ToSet
  <2>. QED BY <2>1, <2>2, <2>3 DEF LInv, Shape, TypeOK
<1>. QED BY <1>1, LimiterAlwaysKept, PTL

(* Whatever the order of locked sections, notices, timeouts and drops, the *)
(* counters the limits are checked against count who is inside.            *)
THEOREM CountersAlwaysExplained == Spec => []CountersExplained
<1>1. LInv => CountersExplained
  BY DEF LInv, Kept, KeptBy, Counted, Standing, CountersExplained, At, Inside, Queued, Asleep
<1>. QED BY <1>1, LimiterAlwaysKept, PTL

(* No step lets a request in above the concurrency_limit it came with,     *)
(* whether it found a slot or was notified of one.                         *)
THEOREM LimitsAlwaysKept == Spec => LimitsKept
<1> DEFINE Within == \A r \in Requests :
              (req[r].at # "holding" /\ req'[r].at = "holding" /\ req[r].limit # NoLimit)
                 => in_flight' <= req[r].limit
<1>1. LInv /\ [Next]_vars => [Within]_vars
  <2> SUFFICES ASSUME LInv, Next, NEW r \in Requests,
                      req[r].at # "holding", req'[r].at = "holding", req[r].limit # NoLimit
               PROVE  in_flight' <= req[r].limit
    OBVIOUS
  <2>1. /\ in_flight \in Nat /\ req[r].limit \in Nat
        /\ req \in [Requests -> Forms]
    BY StandingFinite DEF LInv, Kept, KeptBy, Counted, Forms
  <2>2. Enter(r) \/ TakeOver(r)
    <3>1. Enter(r) \/ TakeOver(r) \/ FallAsleep(r)
      BY <2>1, OnlyWaysIn
    <3>2. FallAsleep(r) => req'[r].at # "holding"
      BY <2>1 DEF FallAsleep, Go, Forms
    <3>. QED BY <3>1, <3>2
  <2>3. ~ Full(r) /\ in_flight' = in_flight + 1
    BY <2>2 DEF Enter, TakeOver
  <2>. QED BY <2>1, <2>3 DEF Full
<1>. QED BY <1>1, LimiterAlwaysKept, PTL DEF LimitsKept, Spec
-----------------------------------------------------------------------------
(* The shaping of the traffic.  A token borrowed is accounted for when it  *)
(* is granted: what was granted since the i-th token and what the bucket   *)
(* holds, or owes, are together no more than a full bucket and the time    *)
(* since; and no later token is granted for an earlier instant.            *)

OfTwo(a, b) == IF a <= b THEN a ELSE b

Paced(g, updated, holds) ==
    /\ \A i \in DOMAIN g :
         /\ Len(g) - i + 1 + holds <= Burst + (updated - g[i])
         /\ g[i] <= updated \/ g[i] + holds <= updated
    /\ \A i, j \in DOMAIN g :
         i <= j => g[i] <= g[j] /\ j - i + 1 <= Burst + (g[j] - g[i])

NoneTurnedOver == Cardinality(Standing(req, {"sleeping"})) <= MaxSleepers + 1 /\ in_queue <= MaxQueue

RInv == /\ LInv
        /\ ~ known => granted = <<>>
        /\ Paced(granted, last_update, tokens)
        /\ NoneTurnedOver

LEMMA PacedRefills ==
    ASSUME NEW g \in Seq(Nat), NEW u \in Int, NEW k \in Int, Paced(g, u, k),
           NEW n \in Int, u <= n
    PROVE  Paced(g, n, OfTwo(k + (n - u), Burst))
<1>1. Len(g) \in Nat /\ DOMAIN g = 1 .. Len(g) /\ \A i \in DOMAIN g : g[i] \in Nat
  OBVIOUS
<1>2. Burst \in Nat
  BY LimiterConfig DEF LimiterConfig
<1> DEFINE h == OfTwo(k + (n - u), Burst)
<1>3. h \in Int /\ h <= k + (n - u)
  BY <1>2 DEF OfTwo
<1> HIDE DEF h
<1>6. \A a, x \in Int :
          (a + 1 + k <= Burst + (u - x) /\ (x <= u \/ x + k <= u))
             => a + 1 + h <= Burst + (n - x) /\ (x <= n \/ x + h <= n)
  BY <1>2, <1>3
<1>4. ASSUME NEW i \in DOMAIN g
      PROVE  /\ Len(g) - i + 1 + h <= Burst + (n - g[i])
             /\ g[i] <= n \/ g[i] + h <= n
  <2>1. /\ Len(g) - i + 1 + k <= Burst + (u - g[i])
        /\ g[i] <= u \/ g[i] + k <= u
    BY DEF Paced
  <2>2. Len(g) - i \in Int /\ g[i] \in Int
    BY <1>1
  <2>. QED BY <1>6, <2>1, <2>2, Zenon
<1>5. Paced(g, n, h)
  BY <1>4 DEF Paced
<1>. QED BY <1>5 DEF h

(* The instant a request that finds h tokens, perhaps a debt, is told.     *)
LEMMA PacedGrants ==
    ASSUME NEW g \in Seq(Nat), NEW n \in Nat, NEW h \in Int, h <= Burst, Paced(g, n, h),
           NEW t \in Nat, t = IF h >= 1 THEN n ELSE n + (1 - h)
    PROVE  Paced(Append(g, t), n, h - 1)
<1> DEFINE f == Append(g, t)
           m == Len(g)
<1>1. m \in Nat /\ DOMAIN g = 1 .. m /\ \A i \in DOMAIN g : g[i] \in Nat
  OBVIOUS
<1>2. /\ Len(f) = m + 1 /\ DOMAIN f = 1 .. m + 1 /\ f[m + 1] = t
      /\ \A i \in 1 .. m : f[i] = g[i]
  OBVIOUS
<1>3. Burst \in Nat /\ Burst >= 1
  BY LimiterConfig DEF LimiterConfig
<1> HIDE DEF f, m
<1>4. \A i \in 1 .. m : /\ m - i + 1 + h <= Burst + (n - g[i])
                        /\ g[i] <= n \/ g[i] + h <= n
  BY <1>1, Zenon DEF Paced, m
<1>5. \A i, j \in 1 .. m : i <= j => g[i] <= g[j] /\ j - i + 1 <= Burst + (g[j] - g[i])
  BY <1>1, Zenon DEF Paced
<1>12. \A a, x \in Int :
           (a + 1 + h <= Burst + (n - x) /\ (x <= n \/ x + h <= n))
              => /\ (a + 1) + 1 + (h - 1) <= Burst + (n - x)
                 /\ x <= n \/ x + (h - 1) <= n
                 /\ x <= t /\ (a + 1) + 1 <= Burst + (t - x)
  BY <1>3
<1>6. ASSUME NEW i \in 1 .. m
      PROVE  /\ (m + 1) - i + 1 + (h - 1) <= Burst + (n - g[i])
             /\ g[i] <= n \/ g[i] + (h - 1) <= n
             /\ g[i] <= t /\ (m + 1) - i + 1 <= Burst + (t - g[i])
  <2>1. m - i \in Int /\ g[i] \in Int /\ (m + 1) - i = (m - i) + 1
    BY <1>1
  <2>2. m - i + 1 + h <= Burst + (n - g[i]) /\ (g[i] <= n \/ g[i] + h <= n)
    BY <1>4
  <2>3. /\ ((m - i) + 1) + 1 + (h - 1) <= Burst + (n - g[i])
        /\ g[i] <= n \/ g[i] + (h - 1) <= n
        /\ g[i] <= t /\ ((m - i) + 1) + 1 <= Burst + (t - g[i])
    BY <1>12, <2>1, <2>2, Zenon
  <2>. QED BY <2>1, <2>3, Zenon
<1>7. /\ (m + 1) - (m + 1) + 1 + (h - 1) <= Burst + (n - t)
      /\ t <= n \/ t + (h - 1) <= n
      /\ (m + 1) - (m + 1) + 1 <= Burst + (t - t)
  BY <1>1, <1>3
<1>8. ASSUME NEW i \in 1 .. m + 1
      PROVE  /\ Len(f) - i + 1 + (h - 1) <= Burst + (n - f[i])
             /\ f[i] <= n \/ f[i] + (h - 1) <= n
  <2>1. CASE i \in 1 .. m
    BY <1>2, <1>6, <2>1
  <2>2. CASE i = m + 1
    BY <1>2, <1>7, <2>2
  <2>. QED BY <1>1, <2>1, <2>2
<1>9. ASSUME NEW i \in 1 .. m + 1, NEW j \in 1 .. m + 1, i <= j
      PROVE  f[i] <= f[j] /\ j - i + 1 <= Burst + (f[j] - f[i])
  <2>1. CASE j \in 1 .. m
    <3>1. i \in 1 .. m
      BY <1>1, <1>9, <2>1
    <3>. QED BY <1>2, <1>5, <1>9, <2>1, <3>1
  <2>2. CASE j = m + 1 /\ i \in 1 .. m
    BY <1>2, <1>6, <2>2
  <2>3. CASE j = m + 1 /\ i = m + 1
    <3>1. f[i] = t /\ f[j] = t /\ j - i + 1 = (m + 1) - (m + 1) + 1 /\ t <= t
      BY <1>2, <2>3
    <3>. QED BY <1>7, <3>1
  <2>. QED BY <1>1, <1>9, <2>1, <2>2, <2>3
<1>10. Paced(f, n, h - 1)
  BY <1>2, <1>8, <1>9 DEF Paced
<1>. QED BY <1>10 DEF f


(* Every set of natural numbers that is not empty has a least one.         *)
LEMMA NatLeast ==
    ASSUME NEW T \in SUBSET Nat, T # {}
    PROVE  \E x \in T : \A y \in T : x <= y
<1> DEFINE U == {0 .. n : n \in T}
<1>1. U \subseteq FiniteSubsetsOf(Nat) /\ U # {}
  <2>1. \A n \in Nat : IsFiniteSet(0 .. n) /\ 0 .. n \in SUBSET Nat
    BY FS_Interval
  <2>. QED BY <2>1 DEF FiniteSubsetsOf
<1>2. \E u \in U : \A w \in U : ~ (<<w, u>> \in StrictSubsetOrdering(Nat))
  <2> HIDE DEF U
  <2>. QED BY <1>1, FS_StrictSubsetOrderingWellFounded, WFMin
<1>3. PICK x \in T : \A y \in T : ~ (<<0 .. y, 0 .. x>> \in StrictSubsetOrdering(Nat))
  BY <1>2
<1>4. ASSUME NEW y \in T, y < x
      PROVE  FALSE
  <2>1. 0 .. y \in SUBSET (0 .. x) /\ x \in 0 .. x /\ x \notin 0 .. y
    BY <1>4
  <2>2. 0 .. y \subseteq Nat /\ 0 .. x \subseteq Nat
    OBVIOUS
  <2>3. <<0 .. y, 0 .. x>> \in StrictSubsetOrdering(Nat)
    BY <2>1, <2>2 DEF StrictSubsetOrdering
  <2>. QED BY <1>3, <2>3
<1>. QED BY <1>4

(* Two grants at the ends of a stretch bound how many lie between them.    *)
LEMMA PacedStretch ==
    ASSUME NEW g \in Seq(Nat), NEW u \in Int, NEW k \in Int, Paced(g, u, k),
           NEW s \in Nat, NEW t \in Nat, s <= t
    PROVE  Cardinality({i \in DOMAIN g : g[i] \in s .. t}) <= Burst + (t - s)
<1> DEFINE D == {i \in DOMAIN g : g[i] \in s .. t}
           m == Len(g)
<1>1. m \in Nat /\ DOMAIN g = 1 .. m
  OBVIOUS
<1>2. Burst \in Nat
  BY LimiterConfig DEF LimiterConfig
<1>3. CASE D = {}
  <2>1. Cardinality(D) = 0
    BY <1>3, FS_EmptySet
  <2>. QED BY <1>2, <2>1
<1>4. CASE D # {}
  <2>1. D \in SUBSET Nat /\ \A i \in D : i \in 1 .. m /\ g[i] \in s .. t
    BY <1>1
  <2> DEFINE back == {m - i : i \in D}
  <2> HIDE DEF D, m
  <2>2. PICK a \in D : \A i \in D : a <= i
    BY <1>4, <2>1, NatLeast
  <2>3. back \in SUBSET Nat /\ back # {}
    BY <1>1, <1>4, <2>1
  <2>4. PICK b \in D : \A i \in D : m - b <= m - i
    <3>1. PICK x \in back : \A y \in back : x <= y
      <4> HIDE DEF back
      <4>. QED BY <2>3, NatLeast
    <3>. QED BY <3>1
  <2>5. a \in Nat /\ b \in Nat /\ a <= b /\ \A i \in D : i \in Nat /\ i <= b
    BY <1>1, <2>1, <2>2, <2>4
  <2>6. D \in SUBSET (a .. b)
    BY <2>1, <2>2, <2>5
  <2>7. /\ IsFiniteSet(a .. b) /\ Cardinality(a .. b) = b - a + 1
    BY <2>5, FS_Interval
  <2>8. Cardinality(D) <= Cardinality(a .. b) /\ Cardinality(D) \in Nat
    BY <2>6, <2>7, FS_Subset, FS_CardinalityType
  <2>9. b - a + 1 <= Burst + (g[b] - g[a])
    <3>1. a \in DOMAIN g /\ b \in DOMAIN g
      BY <2>1, <1>1, Zenon DEF m
    <3>. QED BY <2>5, <3>1 DEF Paced
  <2>10. g[a] \in s .. t /\ g[b] \in s .. t
    BY <2>1
  <2>11. \A x, y \in Int : (x \in s .. t /\ y \in s .. t) => Burst + (y - x) <= Burst + (t - s)
    BY <1>2
  <2>12. g[a] \in Int /\ g[b] \in Int
    BY <2>10
  <2>13. Burst + (g[b] - g[a]) <= Burst + (t - s)
    BY <2>10, <2>11, <2>12, Zenon
  <2>14. Cardinality(D) <= Burst + (t - s)
    BY <1>2, <2>5, <2>7, <2>8, <2>9, <2>12, <2>13, SMTT(40)
  <2>. QED BY <2>14 DEF D
<1>. QED BY <1>3, <1>4

LEMMA RefilledIs ==
    ASSUME Shape, NEW key
    PROVE  /\ Found(key).tokens \in 0 - ShapingTicks .. Burst
           /\ Found(key).last_update \in 0 .. now
           /\ Refilled(key) = OfTwo(Found(key).tokens + (now - Found(key).last_update), Burst)
<1>1. /\ Found(key).tokens \in 0 - ShapingTicks .. Burst /\ Found(key).last_update \in 0 .. now
      /\ now \in Nat /\ Burst \in Nat \ {0} /\ ShapingTicks \in Nat
  BY LimiterConfig DEF Shape, Found, LimiterConfig
<1> DEFINE a == Found(key).tokens + (now - Found(key).last_update)
<1>2. a \in Int /\ Burst \in Int
  BY <1>1
<1>3. Refilled(key) = Min({a, Burst})
  BY DEF Refilled
<1> HIDE DEF a
<1>4. Refilled(key) = OfTwo(a, Burst)
  BY <1>2, <1>3, MinOfTwo DEF OfTwo
<1>. QED BY <1>1, <1>4 DEF a

LEMMA AskPaces ==
    ASSUME RInv, NEW r \in Requests, Ask(r)
    PROVE  known' = TRUE /\ Paced(granted', last_update', tokens')
<1>1. PICK key \in ApiKeys :
          LET wait == 1 - Refilled(key)
          IN  \/ /\ tokens' = Found(key).tokens /\ last_update' = Found(key).last_update
                 /\ UNCHANGED granted
              \/ /\ last_update' = now
                 /\ \/ wait <= 0 /\ tokens' = Refilled(key) - 1 /\ Grant(now)
                    \/ /\ wait \in 1 .. ShapingTicks
                       /\ tokens' = Refilled(key) - 1 /\ Grant(now + wait)
                    \/ tokens' = Refilled(key) /\ UNCHANGED granted
  BY DEF Ask
<1>2. known' = TRUE
  BY DEF Ask
<1> DEFINE k == Found(key).tokens
           u == Found(key).last_update
           h == Refilled(key)
<1>3. /\ k \in Int /\ u \in Int /\ u <= now /\ now \in Nat /\ Burst \in Nat
      /\ h = OfTwo(k + (now - u), Burst) /\ ShapingTicks \in Nat
  BY RefilledIs, LimiterConfig DEF RInv, LInv, Shape, LimiterConfig
<1>4. granted \in Seq(Nat)
  BY LimiterConfig DEF RInv, LInv, Shape, LimiterConfig
<1>5. Paced(granted, u, k)
  <2>1. CASE known
    BY <2>1 DEF RInv, Found
  <2>2. CASE ~ known
    <3>1. granted = <<>> /\ DOMAIN <<>> = {}
      BY <2>2 DEF RInv
    <3>. QED BY <3>1 DEF Paced
  <2>. QED BY <2>1, <2>2
<1> HIDE DEF k, u, h
<1>6. Paced(granted, now, h) /\ h \in Int /\ h <= Burst
  BY <1>3, <1>4, <1>5, PacedRefills DEF OfTwo
<1>7. /\ 1 - h <= 0 => Paced(Append(granted, now), now, h - 1)
      /\ 1 - h \in 1 .. ShapingTicks => Paced(Append(granted, now + (1 - h)), now, h - 1)
  <2>1. ASSUME 1 - h <= 0 PROVE Paced(Append(granted, now), now, h - 1)
    <3>1. h >= 1
      BY <1>6, <2>1
    <3>. QED BY <1>3, <1>4, <1>6, <3>1, PacedGrants
  <2>2. ASSUME 1 - h \in 1 .. ShapingTicks
        PROVE  Paced(Append(granted, now + (1 - h)), now, h - 1)
    <3>1. ~ (h >= 1) /\ now + (1 - h) \in Nat
      BY <1>3, <1>6, <2>2
    <3>. QED BY <1>3, <1>4, <1>6, <3>1, PacedGrants
  <2>. QED BY <2>1, <2>2
<1>. QED BY <1>1, <1>2, <1>5, <1>6, <1>7 DEF Grant, k, u, h

(* More sleep only by FallAsleep, more wait only by QueueUp.               *)
LEMMA NoneMore ==
    ASSUME RInv, LInv', Next
    PROVE  NoneTurnedOver'
<1>1. /\ req \in [Requests -> Forms]
      /\ sleepers \in Nat /\ in_queue \in Nat /\ MaxSleepers \in Nat /\ MaxQueue \in Nat
  BY StandingFinite, LimiterConfig DEF RInv, LInv, Kept, KeptBy, Counted, LimiterConfig
<1> DEFINE S == Standing(req, {"sleeping"})
<1>2. /\ IsFiniteSet(S) /\ Cardinality(S) \in Nat
      /\ IsFiniteSet(Standing(req', {"sleeping"})) /\ Cardinality(Standing(req', {"sleeping"})) \in Nat
  BY StandingFinite
<1>3. Cardinality(S) <= MaxSleepers + 1 /\ in_queue <= MaxQueue
  BY DEF RInv, NoneTurnedOver
<1>4. Cardinality(Standing(req', {"sleeping"})) <= MaxSleepers + 1
  <2>1. CASE Standing(req', {"sleeping"}) \subseteq S
    <3>1. Cardinality(Standing(req', {"sleeping"})) <= Cardinality(S)
      BY <1>2, <2>1, FS_Subset
    <3>. QED BY <1>1, <1>2, <1>3, <3>1
  <2>2. CASE \E r \in Requests : req[r].at # "sleeping" /\ req'[r].at = "sleeping"
    <3>1. PICK r \in Requests : req[r].at # "sleeping" /\ req'[r].at = "sleeping"
      BY <2>2
    <3>2. FallAsleep(r)
      <4>1. Enter(r) \/ TakeOver(r) \/ FallAsleep(r)
        BY <1>1, <3>1, OnlyWaysIn
      <4>2. Enter(r) \/ TakeOver(r) => req' = [req EXCEPT ![r] = Rest("holding")]
        BY DEF Enter, TakeOver, Settle
      <4>3. Rest("holding").at = "holding"
        BY RestForms DEF Places
      <4>. QED BY <1>1, <3>1, <4>1, <4>2, <4>3
    <3>3. sleepers <= MaxSleepers
      BY <1>1, <3>1, <3>2 DEF FallAsleep, Go, Forms
    <3>4. Cardinality(S) <= sleepers
      <4>1. S \in SUBSET Standing(req, Asleep) /\ sleepers = Cardinality(Standing(req, Asleep))
        BY DEF Standing, Asleep, RInv, LInv, Kept, KeptBy, Counted
      <4>. QED BY <4>1, StandingFinite, FS_Subset
    <3>5. Standing(req', {"sleeping"}) = S \union {r} /\ r \notin S
      BY <1>1, <3>1, <3>2 DEF Standing, FallAsleep, Go
    <3>6. Cardinality(Standing(req', {"sleeping"})) = Cardinality(S) + 1
      BY <1>2, <3>5, FS_AddElement
    <3>. QED BY <1>1, <1>2, <3>3, <3>4, <3>6
  <2>. QED BY <2>1, <2>2 DEF Standing
<1>5. in_queue' <= MaxQueue
  <2>1. \/ in_queue' = in_queue
        \/ in_queue' = in_queue - 1
        \/ in_queue' = in_queue + 1 /\ in_queue < MaxQueue
    BY DEF Next, Tick, Ask, Progress, FallAsleep, TurnedAway, WakeUp, Enter, QueueUp,
           QueueRefused, AwaitNotice, SeeNotice, TakeOver, WaitAgain, TimeOut, RemoveQueued,
           Expire, Release, Cancel, counters
  <2>. QED BY <1>1, <1>3, <2>1
<1>. QED BY <1>4, <1>5 DEF NoneTurnedOver

LEMMA RateInit == Init => RInv
<1> SUFFICES ASSUME Init PROVE RInv
  OBVIOUS
<1>1. LInv
  BY LimiterInit
<1>2. granted = <<>> /\ DOMAIN <<>> = {} /\ in_queue = 0
  BY DEF Init
<1>3. Paced(granted, last_update, tokens)
  BY <1>2 DEF Paced
<1>4. NoneTurnedOver
  <2>1. Standing(req, {"sleeping"}) = {}
    BY DEF Init, Standing, Idle
  <2>2. Cardinality(Standing(req, {"sleeping"})) = 0
    BY <2>1, FS_EmptySet
  <2>. QED BY <1>2, <2>2, LimiterConfig DEF NoneTurnedOver, LimiterConfig
<1>. QED BY <1>1, <1>2, <1>3, <1>4 DEF RInv

LEMMA RateStep == RInv /\ [Next]_vars => RInv'
<1> SUFFICES ASSUME RInv, [Next]_vars PROVE RInv'
  OBVIOUS
<1>1. LInv'
  BY LimiterStep DEF RInv
<1>2. CASE UNCHANGED vars
  <2>1. NoneTurnedOver'
    BY <1>2 DEF vars, RInv, NoneTurnedOver
  <2>. QED BY <1>1, <1>2, <2>1 DEF vars, RInv
<1>3. CASE Next
  <2>1. NoneTurnedOver'
    BY <1>1, <1>3, NoneMore
  <2>2. CASE \E r \in Requests : Ask(r)
    BY <1>1, <2>1, <2>2, AskPaces DEF RInv
  <2>3. CASE UNCHANGED bucket
    BY <1>1, <2>1, <2>3 DEF RInv, bucket
  <2>4. (\E r \in Requests : Ask(r)) \/ UNCHANGED bucket
    BY <1>3 DEF Next, Tick, Progress, FallAsleep, TurnedAway, WakeUp, Enter, QueueUp,
           QueueRefused, AwaitNotice, SeeNotice, TakeOver, WaitAgain, TimeOut, RemoveQueued,
           Expire, Release, Cancel
  <2>. QED BY <2>2, <2>3, <2>4
<1>. QED BY <1>2, <1>3

(* In no stretch of time are more requests let through than a full bucket  *)
(* and what came back in it, whatever definition of the key each came      *)
(* with; one more sleeps than the limit says, and none too many queue.     *)
THEOREM RateAlwaysShaped == Spec => []RateShaped
<1>1. Spec => []RInv
  BY RateInit, RateStep, PTL DEF Spec
<1>2. RInv => RateShaped
  <2> SUFFICES ASSUME RInv PROVE RateShaped
    OBVIOUS
  <2>1. granted \in Seq(Nat) /\ last_update \in Int /\ tokens \in Int /\ MaxTime \in Nat
    BY LimiterConfig DEF RInv, LInv, Shape, LimiterConfig
  <2>2. ASSUME NEW s \in 0 .. MaxTime, NEW t \in s .. MaxTime
        PROVE  Cardinality({i \in DOMAIN granted : granted[i] \in s .. t}) <= Burst + (t - s)
    <3>1. s \in Nat /\ t \in Nat /\ s <= t
      BY <2>1
    <3>. QED BY <2>1, <3>1, PacedStretch DEF RInv
  <2>3. Cardinality(At({"sleeping"})) <= MaxSleepers + 1 /\ in_queue <= MaxQueue
    BY DEF RInv, NoneTurnedOver, At, Standing
  <2>. QED BY <2>2, <2>3 DEF RateShaped
<1>. QED BY <1>1, <1>2, PTL
=============================================================================
