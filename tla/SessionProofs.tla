----------------------------- MODULE SessionProofs -----------------------------
(***************************************************************************)
(* Proofs about the session stores, for any number of clients, prefixes,   *)
(* requests and set-ups of either backend.                                 *)
(*                                                                         *)
(* A client on Redis acts on what earlier commands of its call told it.    *)
(* The invariant says of each call what it knows by itself (Fit) and how   *)
(* that stands to the record as it is now (Watches): what is held is among *)
(* what a reading call has seen, and a call that announced a hit finds its *)
(* session alive or has seen it lost.  A step of one client can disturb    *)
(* the others only through the record, so that what it may do to the       *)
(* record is summed up once (Stepped) and carried to every other client.   *)
(***************************************************************************)
EXTENDS Sessions, TLAPS

Places == {"idle", "start", "expired", "script", "stale", "hexists", "hset", "expire", "done"}
Kinds == {"publish", "get", "delta", "touch", "delta_touch", "delete", "purge"}
Answers == {None, "Created", "Replaced", "AlreadyCurrent", "StaleEpoch", "EpochConflict",
            "Found", "Assembled", "Touched", "Nothing", "NotFound", "Expired", "Deleted", "Purged",
            "Unavailable", "InvalidContext", "FingerprintMismatch", "TailStartMismatch",
            "EpochMismatch", "TailTooLarge", "AssembledTooLarge"}

Records == [prefix : Prefixes, created : Int, accessed : Int, ttl : Int \union {None}]
Fragments == [prefix : {None}, created : {None}, accessed : Int, ttl : Int \union {None}]

Calls == [at : Places \ {"idle"}, kind : Kinds, now : Int, prefix : Prefixes \union {None},
          ctx : Requests \union {None}, answer : Answers, read : Prefixes \union {None},
          hit : BOOLEAN, cut : BOOLEAN, seen : SUBSET (Prefixes \union {None}), lost : BOOLEAN]

Busily(e) == e.at \notin {"idle", "done"}

(* What a call knows by itself, at time t.                                 *)
Fit(e, t) ==
    /\ e \in Calls
    /\ e.now <= t
    /\ (Busily(e) /\ e.kind = "publish") => e.prefix \in Prefixes
    /\ e.at \in {"script", "stale"} => e.kind = "publish"
    /\ e.at = "hexists" => Touches(e)
    /\ e.at \in {"hset", "expire"} => Reads(e) \/ Touches(e)
    /\ Busily(e) /\ ~ Redis => e.at = "start"
    /\ Busily(e) => (e.hit <=> e.kind = "delta_touch")
    /\ Busily(e) /\ (e.kind = "delta_touch" \/ (Reads(e) /\ e.at \in {"hset", "expire"}))
         => e.read \in e.seen \ {None}
    /\ Busily(e) /\ e.kind = "delta_touch" => e.read.epoch = e.ctx.epoch
    /\ e.at = "expired" /\ e.hit => e.lost
    /\ e.at = "done" /\ e.answer \in {"Found", "Assembled"} =>
         /\ e.read \in e.seen \ {None}
         /\ e.kind \in {"delta", "delta_touch"} => e.read.epoch = e.ctx.epoch
    /\ e.at = "done" /\ e.hit /\ e.answer # "Assembled" => e.lost \/ e.cut

(* What it has seen of the record r.                                       *)
Watches(e, r, t) ==
    Busily(e) => /\ Reads(e) => HeldIn(r) \in e.seen \union {None}
                 /\ e.hit => e.lost \/ Alive(r, t)

SInv ==
    /\ host \in Hosts
    /\ now \in Nat
    /\ halfTouched \in BOOLEAN
    /\ record \in {Missing} \union Records \union Fragments
    /\ ~ Redis => record = Missing \/ Whole(record)
    /\ record # Missing => record.accessed <= now
    /\ \A c \in Clients : op[c] = Idle \/ (Fit(op[c], now) /\ Watches(op[c], record, now))
    /\ DOMAIN op = Clients
-----------------------------------------------------------------------------
LEMMA Lives ==
    ASSUME host \in Hosts
    PROVE  host.life.idle_ttl \in Nat \union {None} /\ host.life.max_lifetime \in Nat \union {None}
BY SessionConfig DEF SessionConfig

LEMMA ExpiredStays ==
    ASSUME host \in Hosts, NEW r \in Records, NEW s \in Int, NEW t \in Int, s <= t,
           Expired(r, host.life, s)
    PROVE  Expired(r, host.life, t)
<1>1. r.created \in Int /\ r.accessed \in Int
  BY DEF Records
<1>. QED BY <1>1, Lives, SessionConfig DEF Expired, Outlived, SessionConfig

LEMMA DoneFields ==
    ASSUME NEW o \in Calls, NEW a \in Answers
    PROVE  LET e == Done(o, a)
               given == a \in {"Found", "Assembled"}
           IN  /\ e \in Calls
               /\ e.at = "done" /\ e.kind = o.kind /\ e.now = 0 /\ e.answer = a
               /\ e.hit = o.hit /\ e.cut = o.cut /\ e.lost = o.lost
               /\ given => e.ctx = o.ctx /\ e.read = o.read /\ e.seen = o.seen
<1> DEFINE given == a \in {"Found", "Assembled"}
           ctx == IF given THEN o.ctx ELSE None
           read == IF given THEN o.read ELSE None
           seen == IF given THEN o.seen ELSE {}
           d == [o EXCEPT !.at = "done", !.answer = a, !.prefix = None,
                          !.ctx = ctx, !.read = read, !.seen = seen]
           e == [d EXCEPT !.now = 0]
<1>1. /\ ctx \in Requests \union {None} /\ read \in Prefixes \union {None}
      /\ seen \in SUBSET (Prefixes \union {None})
      /\ given => ctx = o.ctx /\ read = o.read /\ seen = o.seen
  BY DEF Calls
<1>2. Done(o, a) = e
  BY DEF Done
<1>3. "done" \in Places \ {"idle"}
  BY DEF Places
<1> HIDE DEF given, ctx, read, seen
<1>4. /\ d \in Calls
      /\ d.at = "done" /\ d.kind = o.kind /\ d.answer = a
      /\ d.hit = o.hit /\ d.cut = o.cut /\ d.lost = o.lost
      /\ d.ctx = ctx /\ d.read = read /\ d.seen = seen
  BY <1>1, <1>3 DEF Calls
<1> HIDE DEF d
<1>5. /\ e \in Calls
      /\ e.at = d.at /\ e.kind = d.kind /\ e.now = 0 /\ e.answer = d.answer
      /\ e.hit = d.hit /\ e.cut = d.cut /\ e.lost = d.lost
      /\ e.ctx = d.ctx /\ e.read = d.read /\ e.seen = d.seen
  BY <1>4 DEF Calls
<1>. QED BY <1>1, <1>2, <1>4, <1>5 DEF given

LEMMA DoneFits ==
    ASSUME NEW t \in Nat, NEW o, Fit(o, t), Busily(o),
           NEW a \in Answers, a \notin {"Found", "Assembled"},
           o.hit => o.lost
    PROVE  Fit(Done(o, a), t)
<1>1. o \in Calls
  BY DEF Fit
<1>. QED BY <1>1, DoneFields DEF Fit, Busily

LEMMA CutFits ==
    ASSUME NEW t \in Nat, NEW o, Fit(o, t), Busily(o),
           NEW a \in Answers, a \notin {"Found", "Assembled"}
    PROVE  Fit([Done(o, a) EXCEPT !.cut = TRUE], t)
<1> DEFINE d == Done(o, a)
           e == [d EXCEPT !.cut = TRUE]
<1>1. o \in Calls
  BY DEF Fit
<1>2. d \in Calls /\ d.at = "done" /\ d.now = 0 /\ d.answer = a
  BY <1>1, DoneFields
<1> HIDE DEF d
<1>3. e \in Calls /\ e.at = "done" /\ e.now = 0 /\ e.answer = a /\ e.cut
  BY <1>2 DEF Calls
<1>. QED BY <1>3 DEF Fit, Busily, d

LEMMA AtFits ==
    ASSUME NEW t \in Nat, NEW o, Fit(o, t), Busily(o),
           NEW at \in Places \ {"idle", "done"},
           Redis,
           at \in {"script", "stale"} => o.kind = "publish",
           at = "hexists" => Touches(o),
           at \in {"hset", "expire"} => Reads(o) \/ Touches(o),
           at \in {"hset", "expire"} /\ Reads(o) => o.read \in o.seen \ {None},
           at = "expired" /\ o.hit => o.lost
    PROVE  Fit(At(o, at), t)
<1> DEFINE e == At(o, at)
<1>1. /\ e \in Calls /\ e.at = at /\ e.kind = o.kind /\ e.now = o.now /\ e.prefix = o.prefix
      /\ e.ctx = o.ctx /\ e.read = o.read /\ e.seen = o.seen /\ e.hit = o.hit /\ e.lost = o.lost
  BY DEF Fit, Calls, At
<1> HIDE DEF e
<1>2. (Reads(e) <=> Reads(o)) /\ (Touches(e) <=> Touches(o))
  BY <1>1 DEF Reads, Touches
<1>3. Fit(e, t)
  BY <1>1, <1>2 DEF Fit, Busily, Places
<1>. QED BY <1>3 DEF e

LEMMA OutcomeAnswers ==
    ASSUME NEW held, NEW p
    PROVE  LET out == Outcome(held, p)
           IN  /\ out \in {"Created", "Replaced", "StaleEpoch", "AlreadyCurrent", "EpochConflict"}
               /\ out = "AlreadyCurrent" => held = p /\ held # None
               /\ out = "Created" <=> held = None
               /\ out = "Replaced" => p.epoch > held.epoch
BY DEF Outcome

LEMMA AssembleAnswers ==
    ASSUME NEW mw, NEW p, NEW ctx
    PROVE  LET answer == AssembleAnswer(mw, p, ctx)
           IN  /\ answer \in (Answers \ {"Found", "Assembled"}) \union {"ok"}
               /\ answer = "ok" => p.epoch = ctx.epoch
<1> DEFINE f == FingerprintAnswer(mw.fingerprint_policy, p.fingerprint, RequestFingerprint(ctx))
           s == TailStartAnswer(mw.tail_policy, Len(p.messages), ctx.tail_start)
<1>1. f \in {"ok", "InvalidContext", "FingerprintMismatch"}
  BY DEF FingerprintAnswer
<1>2. s \in {"ok", "TailStartMismatch"}
  BY DEF TailStartAnswer
<1> HIDE DEF f, s
<1>3. AssembleAnswer(mw, p, ctx) \in
        {"ok", "EpochMismatch", f, s, "InvalidContext", "TailTooLarge", "AssembledTooLarge"}
  BY DEF AssembleAnswer, f, s
<1>4. AssembleAnswer(mw, p, ctx) = "ok" => p.epoch = ctx.epoch
  BY DEF AssembleAnswer
<1>. QED BY <1>1, <1>2, <1>3, <1>4 DEF Answers

LEMMA GivenFits ==
    ASSUME now \in Nat, NEW o, Fit(o, now), Busily(o), Reads(o),
           NEW p \in Prefixes, p \in o.seen
    PROVE  Fit(Given(o, p), now) /\ Given(o, p).at # "expire"
<1> DEFINE read == [o EXCEPT !.read = p]
           answer == AssembleAnswer(host.mw, p, o.ctx)
           hit == [read EXCEPT !.hit = TRUE]
           touch == [o EXCEPT !.at = "start", !.kind = "delta_touch", !.now = now,
                              !.read = p, !.hit = TRUE]
<1>1. o \in Calls /\ o.kind \in {"get", "delta"} /\ ~ o.hit /\ p # None
  BY SessionConfig DEF Fit, Reads, SessionConfig
<1>2. /\ read \in Calls /\ read.kind = o.kind /\ read.seen = o.seen /\ read.read = p
      /\ read.ctx = o.ctx /\ ~ read.hit
  BY <1>1 DEF Calls
<1>3. CASE o.kind = "get"
  <2>1. Given(o, p) = Done(read, "Found") /\ "Found" \in Answers
    BY <1>3 DEF Given, Answers
  <2> HIDE DEF read
  <2>2. Fit(Done(read, "Found"), now) /\ Done(read, "Found").at # "expire"
    BY <1>1, <1>2, <1>3, <2>1, DoneFields DEF Fit, Busily
  <2>. QED BY <2>1, <2>2
<1>4. CASE o.kind = "delta" /\ answer # "ok"
  <2>1. Given(o, p) = Done(o, answer) /\ answer \in Answers \ {"Found", "Assembled"}
    BY <1>4, AssembleAnswers DEF Given
  <2>. QED BY <1>1, <2>1, DoneFits, DoneFields
<1>5. CASE o.kind = "delta" /\ answer = "ok" /\ host.mw.touch_on_delta
  <2>1. Given(o, p) = touch
    BY <1>5 DEF Given
  <2>2. p.epoch = o.ctx.epoch
    BY <1>5, AssembleAnswers
  <2>3. "start" \in Places \ {"idle"} /\ "delta_touch" \in Kinds
    BY DEF Places, Kinds
  <2>4. /\ touch.at = "start" /\ touch.kind = "delta_touch" /\ touch.now = now /\ touch.read = p
        /\ touch.hit /\ touch.seen = o.seen /\ touch.ctx = o.ctx
    BY <1>1 DEF Calls
  <2>5. touch \in Calls
    <3> DEFINE s == [o EXCEPT !.at = "start", !.kind = "delta_touch"]
               r == [s EXCEPT !.read = p, !.hit = TRUE]
    <3>1. s \in Calls
      BY <1>1, <2>3 DEF Calls
    <3> HIDE DEF s
    <3>2. r \in Calls
      BY <3>1 DEF Calls
    <3> HIDE DEF r
    <3>3. [r EXCEPT !.now = now] \in Calls
      BY <3>2 DEF Calls
    <3>4. touch = [r EXCEPT !.now = now]
      BY <1>1 DEF Calls, r, s
    <3>. QED BY <3>3, <3>4
  <2> HIDE DEF touch
  <2>. QED BY <1>1, <2>1, <2>2, <2>4, <2>5 DEF Fit, Busily, Reads
<1>6. CASE o.kind = "delta" /\ answer = "ok" /\ ~ host.mw.touch_on_delta
  <2>1. Given(o, p) = Done([o EXCEPT !.read = p, !.hit = TRUE], "Assembled") /\ "Assembled" \in Answers
    BY <1>6 DEF Given, Answers
  <2>2. p.epoch = o.ctx.epoch
    BY <1>6, AssembleAnswers
  <2> DEFINE h == [o EXCEPT !.read = p, !.hit = TRUE]
  <2>3. /\ h \in Calls /\ h.kind = o.kind /\ h.seen = o.seen /\ h.read = p /\ h.ctx = o.ctx
    BY <1>1 DEF Calls
  <2> HIDE DEF h
  <2>4. Fit(Done(h, "Assembled"), now) /\ Done(h, "Assembled").at # "expire"
    BY <1>1, <2>1, <2>2, <2>3, DoneFields DEF Fit, Busily
  <2>. QED BY <2>1, <2>4 DEF h
<1>. QED BY <1>1, <1>3, <1>4, <1>5, <1>6

LEMMA TouchedFits ==
    ASSUME now \in Nat, NEW o, Fit(o, now), Busily(o), Touches(o)
    PROVE  Fit(Touched(o), now) /\ Touched(o).at # "expire"
<1>1. o \in Calls /\ o.kind \in {"touch", "delta_touch"} /\ {"Touched", "Assembled"} \subseteq Answers
  BY DEF Fit, Touches, Answers
<1>2. CASE o.kind = "touch"
  BY <1>1, <1>2, DoneFits, DoneFields DEF Touched, Fit
<1>3. CASE o.kind = "delta_touch"
  <2>1. Touched(o) = Done(o, "Assembled")
    BY <1>3 DEF Touched
  <2>2. o.read \in o.seen \ {None} /\ o.read.epoch = o.ctx.epoch
    BY <1>3 DEF Fit
  <2>. QED BY <1>1, <1>3, <2>1, <2>2, DoneFields DEF Fit, Busily
<1>. QED BY <1>1, <1>2, <1>3
-----------------------------------------------------------------------------
(* What the actions do to a record.                                        *)
LEMMA AccessedAt ==
    ASSUME NEW r \in Records \union Fragments, NEW s \in Int
    PROVE  LET q == [r EXCEPT !.accessed = s]
           IN  /\ q \in Records \union Fragments
               /\ q.prefix = r.prefix /\ q.accessed = s /\ q.ttl = r.ttl
BY DEF Records, Fragments

LEMMA TtlAt ==
    ASSUME NEW r \in Records \union Fragments, NEW ttl \in Int \union {None}
    PROVE  LET q == [r EXCEPT !.ttl = ttl]
           IN  /\ q \in Records \union Fragments
               /\ q.prefix = r.prefix /\ q.accessed = r.accessed /\ q.ttl = ttl
BY DEF Records, Fragments

LEMMA FreshIs ==
    ASSUME NEW p \in Prefixes, NEW s \in Int, NEW ttl \in Int \union {None}
    PROVE  LET q == Fresh(p, s, ttl)
           IN  q \in Records /\ q.prefix = p /\ q.accessed = s /\ q.ttl = ttl
BY DEF Records, Fresh

LEMMA SecsBelow ==
    ASSUME NEW t \in Int
    PROVE  Secs(t) \in Int /\ Secs(t) <= t /\ t < Secs(t) + Second /\ (t >= Second => Secs(t) >= Second)
<1>1. Second \in Nat /\ Second > 0
  BY SessionConfig DEF SessionConfig
<1> DEFINE q == t \div Second
           m == t % Second
<1>2. q \in Int /\ m \in 0 .. (Second - 1) /\ t = Second * q + m
  BY <1>1, SMT
<1>3. Secs(t) = Second * q
  BY <1>1, <1>2 DEF Secs
<1> HIDE DEF q, m
<1>4. Second * q \in Int
  BY <1>1, <1>2
<1>5. t >= Second => Second * q >= Second
  <2> SUFFICES ASSUME t >= Second, q <= 0
               PROVE  FALSE
    BY <1>1, <1>2
  <2>1. Second * q <= 0
    BY <1>1, <1>2
  <2>. QED BY <1>1, <1>2, <1>4, <2>1
<1>. QED BY <1>1, <1>2, <1>3, <1>4, <1>5

(* A TTL that ends where the idle lifetime does, less what EXPIRE cannot   *)
(* count.                                                                  *)
Reaches(ttl, from) == /\ ttl # None
                      /\ ttl > from + host.life.idle_ttl - Second
                      /\ ttl >= from + Second

LEMMA Deadlines ==
    ASSUME host \in Hosts, now \in Nat, NEW old \in Int \union {None}
    PROVE  /\ Deadline(old) \in Int \union {None}
           /\ host.life.idle_ttl # None => Reaches(Deadline(old), now)
<1>1. CASE host.life.idle_ttl = None
  BY <1>1 DEF Deadline
<1>2. CASE host.life.idle_ttl # None
  <2>1. host.life.idle_ttl \in Nat /\ Second \in Nat /\ None \notin Int
    BY <1>2, Lives, SessionConfig DEF SessionConfig
  <2>2. /\ WholeSeconds \in Int /\ WholeSeconds >= Second
        /\ WholeSeconds > host.life.idle_ttl - Second
    BY <2>1, SecsBelow DEF WholeSeconds
  <2>3. Deadline(old) = now + WholeSeconds
    BY <1>2 DEF Deadline
  <2>. QED BY <2>1, <2>2, <2>3 DEF Reaches
<1>. QED BY <1>1, <1>2

LEMMA ReachesEarlier ==
    ASSUME host \in Hosts, host.life.idle_ttl # None, NEW ttl \in Int \union {None}, NEW from \in Int,
           NEW early \in Int, early <= from, Reaches(ttl, from)
    PROVE  Reaches(ttl, early)
BY Lives, SessionConfig DEF Reaches, SessionConfig

LEMMA HeldTyped ==
    ASSUME NEW r \in {Missing} \union Records \union Fragments
    PROVE  /\ HeldIn(r) \in Prefixes \union {None}
           /\ Whole(r) => r \in Records /\ r.prefix \in Prefixes
           /\ Whole(r) <=> HeldIn(r) # None
BY DEF HeldIn, Whole, Records, Fragments

(* How a record may follow on the one before: on one that lived it holds   *)
(* the same prefix, no prefix, or one of a higher epoch.                   *)
Succeeds(r) == Alive(record, now) => \/ HeldIn(r) \in {None, HeldIn(record)}
                                     \/ HeldIn(r).epoch > HeldIn(record).epoch

(* How the TTL of r relates to its last access after a step of c.          *)
Covers(c, r, o) ==
    (Redis /\ r # Missing /\ host.life.idle_ttl # None) =>
        \/ r = record /\ op[c].at # "expire"
        \/ Reaches(r.ttl, r.accessed)
        \/ o.at = "expire" \/ (op[c].at = "expire" /\ o.cut)

(* What every step of a call is.                                           *)
Good(c, r, o) ==
    /\ op[c].at \notin {"idle", "done"}
    /\ Fit(o, now)
    /\ r \in {Missing} \union Records \union Fragments
    /\ ~ Redis => r = Missing \/ Whole(r)
    /\ r # Missing => r.accessed <= now
    /\ Succeeds(r)
    /\ Covers(c, r, o)

(* What Step adds to a call in progress keeps it fit, and makes it one that *)
(* has watched the record.                                                 *)
LEMMA WatchFits ==
    ASSUME NEW t \in Nat, NEW e, Fit(e, t), NEW r \in {Missing} \union Records \union Fragments,
           NEW other \in BOOLEAN, NEW x,
           x = [e EXCEPT !.seen = IF Reads(e) /\ e.at # "done" THEN @ \union {HeldIn(r)} ELSE @,
                         !.lost = @ \/ (e.hit /\ ~ Alive(r, t) /\ (other \/ e.at # "done"))]
    PROVE  Fit(x, t) /\ x.at = e.at /\ Watches(x, r, t)
<1> DEFINE seen == IF Reads(e) /\ e.at # "done" THEN e.seen \union {HeldIn(r)} ELSE e.seen
           lost == e.lost \/ (e.hit /\ ~ Alive(r, t) /\ (other \/ e.at # "done"))
<1>1. e \in Calls /\ e.hit \in BOOLEAN /\ e.lost \in BOOLEAN
  BY DEF Fit, Calls
<1>2. /\ seen \in SUBSET (Prefixes \union {None}) /\ lost \in BOOLEAN
      /\ e.seen \subseteq seen /\ (e.at = "done" => seen = e.seen) /\ (e.lost => lost)
      /\ Busily(e) /\ Reads(e) => HeldIn(r) \in seen
      /\ Busily(e) /\ e.hit => lost \/ Alive(r, t)
  BY <1>1, HeldTyped DEF Calls, Busily
<1>3. x = [e EXCEPT !.seen = seen, !.lost = lost]
  OBVIOUS
<1> HIDE DEF seen, lost
<1>4. /\ x \in Calls /\ x.at = e.at /\ x.kind = e.kind /\ x.now = e.now /\ x.prefix = e.prefix
      /\ x.ctx = e.ctx /\ x.answer = e.answer /\ x.read = e.read /\ x.hit = e.hit /\ x.cut = e.cut
      /\ x.seen = seen /\ x.lost = lost
  BY <1>1, <1>2, <1>3 DEF Calls
<1>5. Fit(x, t)
  BY <1>1, <1>2, <1>4 DEF Fit, Busily, Reads, Touches
<1>6. Watches(x, r, t)
  BY <1>2, <1>4 DEF Watches, Busily, Reads
<1>. QED BY <1>4, <1>5, <1>6

LEMMA Stepped ==
    ASSUME SInv, TtlFollowsIdleTime, NEW c \in Clients, NEW r, NEW o, Step(c, r, o), Good(c, r, o)
    PROVE  SInv' /\ TtlFollowsIdleTime' /\ Succeeds(record') /\ now' = now /\ host' = host
<1>1. /\ record' = r /\ now' = now /\ host' = host /\ Redis' = Redis
      /\ halfTouched' = (halfTouched \/ (op[c].at = "expire" /\ o.cut))
  BY DEF Step, Redis
<1>2. HeldIn(r) \in Prefixes \union {None} /\ now \in Nat /\ host \in Hosts
  BY HeldTyped DEF Good, SInv
<1>3. ASSUME NEW d \in Clients
      PROVE  /\ op'[d] = Idle \/ (Fit(op'[d], now) /\ Watches(op'[d], r, now))
             /\ d # c => op'[d].at = op[d].at
             /\ d = c => op'[d].at = o.at
  <2> DEFINE e == IF d = c THEN o ELSE op[d]
  <2>1. CASE d \in Busy
    <3>1. op'[d] = [e EXCEPT !.seen = IF Reads(e) /\ e.at # "done" THEN @ \union {HeldIn(r)} ELSE @,
                             !.lost = @ \/ (e.hit /\ ~ Alive(r, now) /\ (d # c \/ e.at # "done"))]
      BY <2>1 DEF Step
    <3>2. Fit(e, now)
      BY <2>1 DEF SInv, Good, Busy, Idle
    <3> DEFINE other == d # c
    <3>3. other \in BOOLEAN
      OBVIOUS
    <3> HIDE DEF e
    <3>4. Fit(op'[d], now) /\ op'[d].at = e.at /\ Watches(op'[d], r, now)
      BY <1>2, <3>1, <3>2, <3>3, WatchFits DEF Good
    <3>. QED BY <3>4 DEF e
  <2>2. CASE d \notin Busy
    <3>1. d # c /\ op'[d] = op[d] /\ op[d].at \in {"idle", "done"}
      BY <2>2 DEF Step, Good, Busy
    <3>. QED BY <3>1 DEF SInv, Watches, Busily
  <2>. QED BY <2>1, <2>2
<1>4. DOMAIN op' = Clients
  BY DEF Step
<1>5. halfTouched' \in BOOLEAN
  BY <1>1 DEF SInv
<1>6. SInv'
  <2>1. \A d \in Clients : (op[d] = Idle \/ (Fit(op[d], now) /\ Watches(op[d], record, now)))'
    BY <1>1, <1>3 DEF Fit, Watches, Alive
  <2>. QED BY <1>1, <1>2, <1>4, <1>5, <2>1 DEF SInv, Good, Whole
<1>7. TtlFollowsIdleTime'
  <2> SUFFICES ASSUME Redis, r # Missing, host.life.idle_ttl # None, ~ Reaches(r.ttl, r.accessed)
               PROVE  halfTouched' \/ \E d \in Clients : op'[d].at = "expire"
    BY <1>1 DEF TtlFollowsIdleTime, Reaches
  <2>1. CASE o.at = "expire" \/ (op[c].at = "expire" /\ o.cut)
    BY <1>1, <1>3, <2>1
  <2>2. CASE r = record /\ op[c].at # "expire"
    BY <1>1, <1>3, <2>2 DEF TtlFollowsIdleTime, Reaches
  <2>. QED BY <2>1, <2>2 DEF Good, Covers
<1>. QED BY <1>1, <1>6, <1>7 DEF Good, Succeeds
-----------------------------------------------------------------------------
(* The steps of a call, one by one.                                        *)
LEMMA CallFits ==
    ASSUME SInv, NEW c \in Clients, op[c].at \notin {"idle", "done"}
    PROVE  /\ Fit(op[c], now) /\ Watches(op[c], record, now) /\ Busily(op[c])
           /\ op[c] \in Calls /\ op[c].now \in Int /\ op[c].now <= now
BY DEF SInv, Idle, Fit, Busily, Calls

LEMMA LostWhenGone ==
    ASSUME SInv, NEW c \in Clients, op[c].at \notin {"idle", "done"}, op[c].hit,
           ~ Whole(record) \/ Expired(record, host.life, op[c].now)
    PROVE  op[c].lost
<1>1. now \in Int /\ op[c].now \in Int /\ op[c].now <= now /\ host \in Hosts
  BY CallFits DEF SInv
<1>2. CASE Whole(record)
  <2>1. record \in Records
    BY <1>2, HeldTyped DEF SInv
  <2>2. Expired(record, host.life, now)
    BY <1>1, <1>2, <2>1, ExpiredStays
  <2>. QED BY <2>2, CallFits DEF Watches, Alive
<1>3. CASE ~ Whole(record)
  BY <1>3, CallFits DEF Watches, Alive
<1>. QED BY <1>2, <1>3

(* A record that is left as it is, or removed.                             *)
LEMMA SameGood ==
    ASSUME SInv, NEW c \in Clients, op[c].at \notin {"idle", "done", "expire"}, NEW o, Fit(o, now),
           NEW r \in {record, Missing}
    PROVE  Good(c, r, o)
BY DEF SInv, Good, Succeeds, Covers, Whole, HeldIn

(* A record whose access time moves.                                       *)
LEMMA AccessedGood ==
    ASSUME SInv, NEW c \in Clients, op[c].at \notin {"idle", "done"}, NEW o, Fit(o, now),
           record # Missing, NEW s \in Int, s <= now,
           ~ Redis \/ o.at = "expire" \/ host.life.idle_ttl = None
    PROVE  Good(c, [record EXCEPT !.accessed = s], o)
<1> DEFINE r == [record EXCEPT !.accessed = s]
<1>1. record \in Records \union Fragments /\ r \in Records \union Fragments
      /\ r.prefix = record.prefix /\ r.accessed = s
  BY AccessedAt DEF SInv
<1>2. ~ Redis => Whole(record)
  BY DEF SInv
<1> HIDE DEF r
<1>3. HeldIn(r) \in {None, HeldIn(record)} /\ (~ Redis => r = Missing \/ Whole(r))
  BY <1>1, <1>2 DEF HeldIn, Whole
<1>4. Good(c, r, o)
  BY <1>1, <1>3 DEF Good, Succeeds, Covers
<1>. QED BY <1>4 DEF r

(* A record that publish writes.                                           *)
LEMMA FreshGood ==
    ASSUME SInv, NEW c \in Clients, op[c].at \notin {"idle", "done"}, NEW o, Fit(o, now),
           NEW p \in Prefixes, NEW s \in Int, s <= now, NEW ttl \in Int \union {None},
           ~ Redis \/ host.life.idle_ttl = None \/ Reaches(ttl, now),
           Alive(record, now) => Stores(Outcome(HeldIn(record), p))
    PROVE  Good(c, Fresh(p, s, ttl), o)
<1> DEFINE r == Fresh(p, s, ttl)
<1>1. r \in Records /\ r.prefix = p /\ r.accessed = s /\ r.ttl = ttl
  BY DEF Fresh, Records
<1>2. now \in Int /\ (host.life.idle_ttl # None => host.life.idle_ttl \in Int)
  BY Lives DEF SInv
<1> HIDE DEF r
<1>3. p # None /\ HeldIn(r) \in {None, p} /\ (r = Missing \/ Whole(r))
  BY <1>1, SessionConfig DEF HeldIn, Whole, SessionConfig
<1>4. Alive(record, now) => HeldIn(record) # None
  BY DEF Alive, HeldIn, Whole
<1>5. Succeeds(r)
  BY <1>3, <1>4, OutcomeAnswers DEF Succeeds, Stores
<1>6. Covers(c, r, o)
  <2> SUFFICES ASSUME Redis, host.life.idle_ttl # None
               PROVE  Reaches(r.ttl, r.accessed)
    BY DEF Covers
  <2>1. Reaches(ttl, now) /\ host \in Hosts
    BY DEF SInv
  <2>. QED BY <1>1, <1>2, <2>1, ReachesEarlier
<1>7. Good(c, r, o)
  BY <1>1, <1>3, <1>5, <1>6 DEF Good
<1>. QED BY <1>7 DEF r

LEMMA MemoryGood ==
    ASSUME SInv, NEW c \in Clients, Memory(c)
    PROVE  \E r, o : Step(c, r, o) /\ Good(c, r, o)
<1> DEFINE o == op[c]
           live == Live(o)
<1>1. ~ Redis /\ o.at = "start"
  BY DEF Memory
<1>2. /\ Fit(o, now) /\ Busily(o) /\ o \in Calls /\ o.now \in Int /\ o.now <= now
      /\ o.hit => o.kind = "delta_touch"
  BY <1>1, CallFits DEF Fit
<1>3. /\ live \in {record, Missing}
      /\ live # record => Expired(record, host.life, o.now)
  BY DEF Live
<1>4. /\ host \in Hosts /\ now \in Nat
      /\ record = Missing \/ (Whole(record) /\ record \in Records /\ record.prefix \in Prefixes)
  BY <1>1, HeldTyped DEF SInv
<1>5. live # record => ~ Alive(record, now)
  BY <1>2, <1>3, <1>4, ExpiredStays DEF Alive, Whole
<1>6. ASSUME NEW a \in {"Expired", "Nothing", "NotFound", "Deleted", "Purged"},
             o.hit => Dropped(o) \/ record = Missing
      PROVE  Fit(Done(o, a), now)
  <2>1. a \in Answers /\ a \notin {"Found", "Assembled"}
    BY DEF Answers
  <2>2. o.hit => o.lost
    BY <1>1, <1>3, <1>6, LostWhenGone DEF Dropped, Whole
  <2>. QED BY <1>2, <1>4, <2>1, <2>2, DoneFits
<1>7. CASE o.kind = "publish" /\ MemoryPublish(c, o)
  <2> DEFINE out == Outcome(HeldIn(live), o.prefix)
  <2>1. /\ out \in {"Created", "Replaced", "StaleEpoch", "AlreadyCurrent", "EpochConflict"}
        /\ out = "AlreadyCurrent" => HeldIn(live) # None
    BY OutcomeAnswers
  <2>2. Fit(Done(o, out), now)
    <3>1. out \in Answers /\ out \notin {"Found", "Assembled"}
      BY <2>1 DEF Answers
    <3> HIDE DEF out
    <3>. QED BY <1>2, <1>4, <1>7, <3>1, DoneFits
  <2>3. o.prefix \in Prefixes
    BY <1>2, <1>7 DEF Fit
  <2>4. CASE Stores(out)
    <3>1. Step(c, Fresh(o.prefix, o.now, None), Done(o, out))
      BY <1>7, <2>4 DEF MemoryPublish, Stores
    <3>2. Alive(record, now) => Stores(Outcome(HeldIn(record), o.prefix))
      BY <1>5, <2>4
    <3>3. Good(c, Fresh(o.prefix, o.now, None), Done(o, out))
      BY <1>1, <1>2, <2>2, <2>3, <3>2, FreshGood
    <3>. QED BY <3>1, <3>3
  <2>5. CASE out = "AlreadyCurrent"
    <3>1. Step(c, [live EXCEPT !.accessed = o.now], Done(o, out)) /\ live # Missing
      BY <1>7, <2>1, <2>5 DEF MemoryPublish, Stores, HeldIn, Whole
    <3>. QED BY <1>1, <1>2, <1>3, <2>2, <3>1, AccessedGood
  <2>6. CASE ~ Stores(out) /\ out # "AlreadyCurrent"
    <3>1. Step(c, live, Done(o, out))
      BY <1>7, <2>6 DEF MemoryPublish
    <3>. QED BY <1>1, <1>3, <2>2, <3>1, SameGood
  <2>. QED BY <2>4, <2>5, <2>6
<1>8. CASE Reads(o) /\ MemoryGet(c, o)
  <2>1. ~ o.hit
    BY <1>2, <1>8 DEF Reads
  <2>2. CASE Dropped(o)
    <3>1. Step(c, Missing, Done(o, "Expired"))
      <4>1. record # Missing
        BY <2>2 DEF Dropped, Live
      <4>. QED BY <1>8, <2>2, <4>1 DEF MemoryGet
    <3>. QED BY <1>1, <1>6, <2>1, <2>2, <3>1, SameGood
  <2>3. CASE ~ Dropped(o) /\ record = Missing
    <3>1. Step(c, Missing, NotThere(o))
      BY <1>8, <2>3 DEF MemoryGet
    <3>. QED BY <1>1, <1>6, <2>1, <3>1, SameGood DEF NotThere
  <2>4. CASE ~ Dropped(o) /\ record # Missing
    <3> DEFINE g == Given(o, record.prefix)
    <3>1. Step(c, IF host.touch_on_read THEN [record EXCEPT !.accessed = o.now] ELSE record, g)
      BY <1>8, <2>4 DEF MemoryGet
    <3>2. record.prefix \in o.seen
      BY <1>1, <1>4, <1>8, <2>4, CallFits, SessionConfig DEF Watches, HeldIn, Whole
    <3>3. Fit(g, now)
      BY <1>2, <1>4, <1>8, <2>4, <3>2, GivenFits
    <3> HIDE DEF g
    <3>. QED BY <1>1, <1>2, <2>4, <3>1, <3>3, SameGood, AccessedGood
  <2>. QED BY <2>2, <2>3, <2>4
<1>9. CASE Touches(o) /\ MemoryTouch(c, o)
  <2>1. CASE Dropped(o)
    <3>1. Step(c, Missing, Done(o, "Expired"))
      <4>1. record # Missing
        BY <2>1 DEF Dropped, Live
      <4>. QED BY <1>9, <2>1, <4>1 DEF MemoryTouch
    <3>. QED BY <1>1, <1>6, <2>1, <3>1, SameGood
  <2>2. CASE ~ Dropped(o) /\ record = Missing
    <3>1. Step(c, Missing, NotThere(o))
      BY <1>9, <2>2 DEF MemoryTouch
    <3>. QED BY <1>1, <1>6, <2>2, <3>1, SameGood DEF NotThere
  <2>3. CASE ~ Dropped(o) /\ record # Missing
    <3>1. Step(c, [record EXCEPT !.accessed = o.now], Touched(o))
      BY <1>9, <2>3 DEF MemoryTouch
    <3>. QED BY <1>1, <1>2, <1>4, <1>9, <2>3, <3>1, AccessedGood, TouchedFits
  <2>. QED BY <2>1, <2>2, <2>3
<1>10. CASE o.kind = "delete" /\ MemoryDelete(c, o)
  BY <1>1, <1>2, <1>6, <1>10, SameGood DEF MemoryDelete
<1>11. CASE o.kind = "purge" /\ MemoryPurge(c, o)
  BY <1>1, <1>2, <1>3, <1>6, <1>11, SameGood DEF MemoryPurge
<1>. QED BY <1>7, <1>8, <1>9, <1>10, <1>11 DEF Memory

LEMMA LoadGood ==
    ASSUME SInv, NEW c \in Clients, Load(c)
    PROVE  \E r, o : Step(c, r, o) /\ Good(c, r, o)
<1> DEFINE o == op[c]
           fragment == record # Missing /\ ~ Whole(record)
           expired == record # Missing /\ Expired(record, host.life, o.now)
<1>1. Redis /\ o.at = "start"
  BY DEF Load
<1>2. /\ Fit(o, now) /\ Busily(o) /\ o \in Calls /\ (o.hit => o.kind = "delta_touch")
      /\ now \in Nat
  BY <1>1, CallFits DEF Fit, SInv
<1>3. fragment \/ expired \/ record = Missing => (o.hit => o.lost)
  BY <1>1, LostWhenGone DEF Whole
<1>4. ASSUME NEW a \in {"Expired", "Unavailable", "Purged", "Nothing", "NotFound"}, o.hit => o.lost
      PROVE  Fit(Done(o, a), now)
  BY <1>2, <1>4, DoneFits DEF Answers
<1>5. ASSUME NEW at \in {"expired", "script", "hexists"}, at = "script" => o.kind = "publish",
             at = "hexists" => Touches(o),
             at = "expired" /\ o.hit => o.lost
      PROVE  Fit(At(o, at), now)
  <2>1. at \in Places \ {"idle", "done"} /\ at \notin {"hset", "expire", "stale"}
    BY DEF Places
  <2>. QED BY <1>1, <1>2, <1>5, <2>1, AtFits
<1>6. CASE fragment
  <2>1. Step(c, record, Done(o, IF Touches(o) THEN "Expired" ELSE "Unavailable"))
    BY <1>6 DEF Load
  <2>. QED BY <1>1, <1>3, <1>4, <1>6, <2>1, SameGood
<1>7. CASE ~ fragment /\ expired
  <2>1. Step(c, record, At(o, "expired"))
    BY <1>7 DEF Load
  <2>2. Fit(At(o, "expired"), now)
    BY <1>3, <1>5, <1>7
  <2>. QED BY <1>1, <2>1, <2>2, SameGood
<1>8. CASE ~ fragment /\ ~ expired /\ o.kind = "publish"
  <2>1. Step(c, record, At(o, "script"))
    BY <1>8 DEF Load, Touches, Reads
  <2>2. Fit(At(o, "script"), now)
    BY <1>5, <1>8
  <2>. QED BY <1>1, <2>1, <2>2, SameGood
<1>9. CASE ~ fragment /\ ~ expired /\ o.kind = "purge"
  <2>1. Step(c, record, Done(o, "Purged"))
    BY <1>9 DEF Load, Touches, Reads
  <2>2. Fit(Done(o, "Purged"), now)
    BY <1>2, <1>4, <1>9
  <2>. QED BY <1>1, <2>1, <2>2, SameGood
<1>10. CASE ~ fragment /\ ~ expired /\ Touches(o)
  <2>1. Step(c, record, At(o, "hexists"))
    BY <1>10 DEF Load, Touches, Reads
  <2>2. Fit(At(o, "hexists"), now)
    BY <1>5, <1>10
  <2>. QED BY <1>1, <2>1, <2>2, SameGood
<1>11. CASE ~ fragment /\ ~ expired /\ Reads(o)
  <2> DEFINE read == [o EXCEPT !.read = record.prefix]
             e == IF record = Missing THEN NotThere(o)
                  ELSE IF host.touch_on_read THEN At(read, "hset")
                  ELSE Given(o, record.prefix)
  <2>1. Step(c, record, e)
    BY <1>11 DEF Load, Reads, Touches
  <2>2. ~ o.hit
    BY <1>2, <1>11 DEF Reads
  <2>3. CASE record = Missing
    BY <1>1, <1>4, <2>1, <2>2, <2>3, SameGood DEF NotThere
  <2>4. CASE record # Missing
    <3>1. Whole(record) /\ record.prefix \in Prefixes /\ record.prefix \in o.seen /\ record.prefix # None
      BY <1>1, <1>11, <2>4, CallFits, HeldTyped DEF SInv, Watches, HeldIn, Whole
    <3>2. CASE host.touch_on_read
      <4>1. /\ read \in Calls /\ read.at = o.at /\ read.kind = o.kind /\ read.now = o.now
            /\ read.prefix = o.prefix /\ read.ctx = o.ctx /\ read.read = record.prefix
            /\ read.hit = o.hit /\ read.seen = o.seen /\ read.lost = o.lost
        BY <1>2, <3>1 DEF Calls
      <4>2. e = At(read, "hset")
        BY <2>4, <3>2
      <4> HIDE DEF read, e
      <4>3. Fit(read, now) /\ Busily(read)
        BY <1>1, <1>2, <1>11, <4>1 DEF Fit, Busily, Reads, Touches
      <4>4. "hset" \in Places \ {"idle", "done"} /\ Reads(read)
        BY <1>11, <4>1 DEF Places, Reads
      <4>5. Fit(At(read, "hset"), now)
        BY <1>1, <1>2, <3>1, <4>1, <4>3, <4>4, AtFits
      <4>. QED BY <1>1, <2>1, <4>2, <4>5, SameGood
    <3>3. CASE ~ host.touch_on_read
      <4>1. Fit(Given(o, record.prefix), now)
        BY <1>2, <1>11, <3>1, GivenFits
      <4>2. e = Given(o, record.prefix)
        BY <2>4, <3>3
      <4>. QED BY <1>1, <2>1, <4>1, <4>2, SameGood
    <3>. QED BY <3>2, <3>3
  <2>. QED BY <2>3, <2>4
<1>12. o.kind \in {"publish", "purge"} \/ Touches(o) \/ Reads(o)
  BY <1>2 DEF Load, Calls, Kinds, Touches, Reads
<1>. QED BY <1>6, <1>7, <1>8, <1>9, <1>10, <1>11, <1>12

LEMMA DelExpiredGood ==
    ASSUME SInv, NEW c \in Clients, DelExpired(c)
    PROVE  \E r, o : Step(c, r, o) /\ Good(c, r, o)
<1> DEFINE o == op[c]
           e == CASE o.kind = "publish" -> At(o, "script")
                  [] o.kind = "purge"   -> Done(o, "Purged")
                  [] OTHER              -> Done(o, "Expired")
<1>1. o.at = "expired" /\ Step(c, Missing, e)
  BY DEF DelExpired
<1>2. Fit(o, now) /\ Busily(o) /\ Redis /\ now \in Nat /\ (o.hit => o.lost)
  BY <1>1, CallFits DEF Fit, SInv
<1>3. CASE o.kind = "publish"
  <2>1. Fit(At(o, "script"), now)
    BY <1>2, <1>3, AtFits DEF Places
  <2>. QED BY <1>1, <1>3, <2>1, SameGood
<1>4. CASE o.kind # "publish"
  <2>1. Fit(Done(o, "Purged"), now) /\ Fit(Done(o, "Expired"), now)
    BY <1>2, DoneFits DEF Answers
  <2>. QED BY <1>1, <1>4, <2>1, SameGood
<1>. QED BY <1>3, <1>4

LEMMA DeleteGood ==
    ASSUME SInv, NEW c \in Clients, Delete(c)
    PROVE  \E r, o : Step(c, r, o) /\ Good(c, r, o)
<1> DEFINE o == op[c]
<1>1. o.at = "start" /\ o.kind = "delete" /\ Step(c, Missing, Done(o, "Deleted"))
  BY DEF Delete
<1>2. Fit(o, now) /\ Busily(o) /\ now \in Nat /\ ~ o.hit
  BY <1>1, CallFits DEF Fit, SInv
<1>3. Fit(Done(o, "Deleted"), now)
  BY <1>2, DoneFits DEF Answers
<1>. QED BY <1>1, <1>3, SameGood

(* The publish script, whether its reply arrives or not.                   *)
LEMMA Scripts ==
    ASSUME SInv, NEW c \in Clients, op[c].at = "script"
    PROVE  LET o == op[c]
               ttl == IF record = Missing THEN None ELSE record.ttl
           IN  /\ Fit(o, now) /\ Busily(o) /\ Redis /\ ~ o.hit /\ o.kind = "publish" /\ o.prefix \in Prefixes
               /\ o.now \in Int /\ o.now <= now /\ now \in Nat
               /\ ttl \in Int \union {None}
               /\ \A e : Fit(e, now) /\ Stores(Outcome(HeldIn(record), o.prefix))
                           => Good(c, Fresh(o.prefix, Secs(o.now), Deadline(ttl)), e)
<1> DEFINE o == op[c]
           ttl == IF record = Missing THEN None ELSE record.ttl
<1>1. /\ Fit(o, now) /\ Busily(o) /\ Redis /\ ~ o.hit /\ o.kind = "publish" /\ o.prefix \in Prefixes
      /\ o.now \in Int /\ o.now <= now /\ now \in Nat
  BY CallFits DEF Fit, SInv
<1>2. ttl \in Int \union {None}
  BY DEF SInv, Records, Fragments
<1>3. ASSUME NEW e, Fit(e, now), Stores(Outcome(HeldIn(record), o.prefix))
      PROVE  Good(c, Fresh(o.prefix, Secs(o.now), Deadline(ttl)), e)
  <2>1. /\ Deadline(ttl) \in Int \union {None}
        /\ host.life.idle_ttl # None => Reaches(Deadline(ttl), now)
    BY <1>2, Deadlines DEF SInv
  <2> DEFINE d == Deadline(ttl)
  <2> HIDE DEF d
  <2>2. d = Deadline(ttl)
    BY DEF d
  <2>3. Secs(o.now) \in Int /\ Secs(o.now) <= now
    <3>1. Secs(o.now) \in Int /\ Secs(o.now) <= o.now
      BY <1>1, SecsBelow
    <3>. QED BY <1>1, <3>1
  <2>4. Good(c, Fresh(o.prefix, Secs(o.now), d), e)
    BY <1>1, <1>3, <2>1, <2>2, <2>3, FreshGood
  <2>. QED BY <2>2, <2>4
<1>. QED BY <1>1, <1>2, <1>3

LEMMA ScriptGood ==
    ASSUME SInv, NEW c \in Clients, Script(c)
    PROVE  \E r, o : Step(c, r, o) /\ Good(c, r, o)
<1> DEFINE o == op[c]
           out == Outcome(HeldIn(record), o.prefix)
           ttl == IF record = Missing THEN None ELSE record.ttl
           e == IF out = "StaleEpoch" THEN At(o, "stale") ELSE Done(o, out)
<1>1. o.at = "script"
  BY DEF Script
<1>2. /\ Fit(o, now) /\ Busily(o) /\ Redis /\ ~ o.hit /\ o.kind = "publish" /\ o.prefix \in Prefixes
      /\ o.now \in Int /\ o.now <= now /\ now \in Nat
      /\ ttl \in Int \union {None}
      /\ \A x : Fit(x, now) /\ Stores(out) => Good(c, Fresh(o.prefix, Secs(o.now), Deadline(ttl)), x)
  BY <1>1, Scripts
<1>3. /\ out \in {"Created", "Replaced", "StaleEpoch", "AlreadyCurrent", "EpochConflict"}
      /\ out = "AlreadyCurrent" => HeldIn(record) # None
  BY OutcomeAnswers
<1> HIDE DEF out
<1>4. Fit(e, now)
  <2>1. Fit(At(o, "stale"), now)
    BY <1>2, AtFits DEF Places
  <2>2. Fit(Done(o, out), now)
    <3>1. out \in Answers /\ out \notin {"Found", "Assembled"}
      BY <1>3 DEF Answers
    <3>. QED BY <1>2, <3>1, DoneFits
  <2>. QED BY <2>1, <2>2
<1> DEFINE f == Fresh(o.prefix, Secs(o.now), Deadline(ttl))
           a == [record EXCEPT !.accessed = Secs(o.now), !.ttl = Deadline(ttl)]
<1>5. Step(c, CASE Stores(out) -> f [] out = "AlreadyCurrent" -> a [] OTHER -> record, e)
  BY DEF Script, out
<1> HIDE DEF e, f, a
<1>6. CASE Stores(out)
  <2>1. Step(c, f, e)
    BY <1>5, <1>6 DEF Stores
  <2>. QED BY <1>2, <1>4, <1>6, <2>1 DEF f
<1>7. CASE out = "AlreadyCurrent"
  <2> DEFINE t == Secs(o.now)
             s == [record EXCEPT !.accessed = t]
             d == Deadline(ttl)
  <2>0. t \in Int /\ t <= now
    <3>1. t \in Int /\ t <= o.now
      BY <1>2, SecsBelow
    <3> HIDE DEF t
    <3>. QED BY <1>2, <3>1
  <2>1. Step(c, a, e)
    BY <1>5, <1>7 DEF Stores
  <2>2. /\ record \in Records \union Fragments /\ Whole(record) /\ host \in Hosts
    BY <1>3, <1>7 DEF SInv, HeldIn, Whole
  <2>3. s \in Records \union Fragments /\ s.prefix = record.prefix /\ s.accessed = t
    <3> HIDE DEF t
    <3>. QED BY <2>0, <2>2, AccessedAt
  <2>4. /\ d \in Int \union {None}
        /\ host.life.idle_ttl # None => Reaches(d, now)
    BY <1>2, <2>2, Deadlines
  <2>5. a = [s EXCEPT !.ttl = d]
    BY DEF a
  <2> HIDE DEF s, d, t
  <2>6. a \in Records \union Fragments /\ a.prefix = record.prefix /\ a.accessed = t /\ a.ttl = d
    BY <2>3, <2>4, <2>5, TtlAt
  <2>7. Succeeds(a)
    BY <2>2, <2>6 DEF Succeeds, HeldIn, Whole
  <2>8. Covers(c, a, e)
    <3> SUFFICES ASSUME host.life.idle_ttl # None
                 PROVE  Reaches(a.ttl, a.accessed)
      BY DEF Covers
    <3>1. Reaches(d, now) /\ now \in Int
      BY <1>2, <2>4
    <3>. QED BY <2>0, <2>2, <2>4, <2>6, <3>1, ReachesEarlier
  <2>9. Good(c, a, e)
    BY <1>1, <1>2, <1>4, <2>0, <2>2, <2>6, <2>7, <2>8 DEF Good, Whole
  <2>. QED BY <2>1, <2>9
<1>8. CASE ~ Stores(out) /\ out # "AlreadyCurrent"
  <2>1. Step(c, record, e)
    BY <1>5, <1>8
  <2>. QED BY <1>1, <1>4, <2>1, SameGood
<1>. QED BY <1>6, <1>7, <1>8

LEMMA LoseReplyGood ==
    ASSUME SInv, NEW c \in Clients, LoseReply(c)
    PROVE  \E r, o : Step(c, r, o) /\ Good(c, r, o)
<1> DEFINE o == op[c]
           ttl == IF record = Missing THEN None ELSE record.ttl
           e == [Done(o, "Unavailable") EXCEPT !.cut = TRUE]
<1>1. o.at = "script" /\ Stores(Outcome(HeldIn(record), o.prefix))
  BY DEF LoseReply
<1>2. Step(c, Fresh(o.prefix, Secs(o.now), Deadline(ttl)), e)
  BY DEF LoseReply
<1>3. Fit(e, now)
  BY <1>1, Scripts, CutFits DEF Answers
<1>. QED BY <1>1, <1>2, <1>3, Scripts

LEMMA LoadStaleGood ==
    ASSUME SInv, NEW c \in Clients, LoadStale(c)
    PROVE  \E r, o : Step(c, r, o) /\ Good(c, r, o)
<1> DEFINE o == op[c]
           a == IF record # Missing /\ ~ Whole(record) THEN "Unavailable" ELSE "StaleEpoch"
<1>1. o.at = "stale" /\ Step(c, record, Done(o, a))
  BY DEF LoadStale
<1>2. Fit(o, now) /\ Busily(o) /\ now \in Nat /\ ~ o.hit
  BY <1>1, CallFits DEF Fit, SInv
<1>3. a \in Answers /\ a \notin {"Found", "Assembled"}
  BY DEF Answers
<1> HIDE DEF a
<1>4. Fit(Done(o, a), now)
  BY <1>2, <1>3, DoneFits
<1>. QED BY <1>1, <1>4, SameGood

LEMMA HexistsGood ==
    ASSUME SInv, NEW c \in Clients, Hexists(c)
    PROVE  \E r, o : Step(c, r, o) /\ Good(c, r, o)
<1> DEFINE o == op[c]
<1>1. o.at = "hexists" /\ Step(c, record, IF Whole(record) THEN At(o, "hset") ELSE NotThere(o))
  BY DEF Hexists
<1>2. Fit(o, now) /\ Busily(o) /\ Redis /\ now \in Nat
  BY <1>1, CallFits DEF Fit, SInv
<1>3. CASE Whole(record)
  <2>1. Touches(o) /\ ~ Reads(o)
    BY <1>1, <1>2 DEF Fit, Touches, Reads
  <2>2. Fit(At(o, "hset"), now)
    BY <1>2, <2>1, AtFits DEF Places
  <2>. QED BY <1>1, <1>3, <2>2, SameGood
<1>4. CASE ~ Whole(record)
  <2>1. o.hit => o.lost
    BY <1>1, <1>4, LostWhenGone
  <2>2. Fit(NotThere(o), now)
    BY <1>2, <2>1, DoneFits DEF NotThere, Answers
  <2>. QED BY <1>1, <1>4, <2>2, SameGood
<1>. QED BY <1>3, <1>4

(* What HSET and EXPIRE answer when they are the last command.             *)
LEMMA LastCommand ==
    ASSUME SInv, NEW c \in Clients, op[c].at \in {"hset", "expire"}
    PROVE  LET o == op[c]
           IN  Fit(IF Reads(o) THEN Given(o, o.read) ELSE Touched(o), now)
<1> DEFINE o == op[c]
<1>1. Fit(o, now) /\ Busily(o) /\ Redis /\ now \in Nat /\ o \in Calls
  BY CallFits DEF Fit, SInv
<1>2. CASE Reads(o)
  <2>1. o.read \in o.seen \ {None} /\ o.read \in Prefixes
    BY <1>1, <1>2 DEF Fit, Calls
  <2>. QED BY <1>1, <1>2, <2>1, GivenFits
<1>3. CASE ~ Reads(o)
  <2>1. Touches(o)
    BY <1>1, <1>3 DEF Fit
  <2>. QED BY <1>1, <1>3, <2>1, TouchedFits
<1>. QED BY <1>2, <1>3

LEMMA HsetGood ==
    ASSUME SInv, NEW c \in Clients, Hset(c)
    PROVE  \E r, o : Step(c, r, o) /\ Good(c, r, o)
<1> DEFINE o == op[c]
           empty == Fresh(None, None, None)
           t == Secs(o.now)
           r == IF record = Missing THEN [empty EXCEPT !.accessed = t]
                ELSE [record EXCEPT !.accessed = t]
           e == IF host.life.idle_ttl # None THEN At(o, "expire")
                ELSE IF Reads(o) THEN Given(o, o.read) ELSE Touched(o)
<1>1. o.at = "hset" /\ Step(c, r, e)
  BY DEF Hset
<1>2. Fit(o, now) /\ Busily(o) /\ Redis /\ now \in Nat /\ o.now \in Int /\ o.now <= now
  BY <1>1, CallFits DEF Fit, SInv
<1>3. Fit(e, now) /\ (e.at = "expire" \/ host.life.idle_ttl = None)
  <2>1. CASE host.life.idle_ttl # None
    <3>1. Fit(At(o, "expire"), now)
      <4>1. Reads(o) => o.read \in o.seen \ {None}
        BY <1>1, <1>2 DEF Fit
      <4>2. Reads(o) \/ Touches(o)
        BY <1>1, <1>2 DEF Fit
      <4>. QED BY <1>2, <4>1, <4>2, AtFits DEF Places
    <3>2. At(o, "expire").at = "expire"
      BY <1>2 DEF At, Fit, Calls
    <3>. QED BY <2>1, <3>1, <3>2
  <2>2. CASE host.life.idle_ttl = None
    BY <1>1, <2>2, LastCommand
  <2>. QED BY <2>1, <2>2
<1>0. t \in Int /\ t <= now
  <2>1. t \in Int /\ t <= o.now
    BY <1>2, SecsBelow
  <2> HIDE DEF t
  <2>. QED BY <1>2, <2>1
<1> HIDE DEF e, t
<1>4. CASE record = Missing
  <2>1. r = [empty EXCEPT !.accessed = t]
    BY <1>4
  <2>2. r \in Fragments /\ r.prefix = None /\ r.accessed = t
    BY <1>0, <2>1 DEF Fragments, Fresh
  <2> HIDE DEF r
  <2>3. ~ Whole(r) /\ HeldIn(r) = None
    BY <2>2 DEF Whole, HeldIn
  <2>4. Good(c, r, e)
    BY <1>0, <1>1, <1>2, <1>3, <2>2, <2>3 DEF Good, Succeeds, Covers
  <2>. QED BY <1>1, <2>4
<1>5. CASE record # Missing
  <2>1. Step(c, [record EXCEPT !.accessed = t], e)
    BY <1>1, <1>5
  <2>. QED BY <1>0, <1>1, <1>2, <1>3, <1>5, <2>1, AccessedGood
<1>. QED BY <1>4, <1>5

LEMMA ExpireGood ==
    ASSUME SInv, NEW c \in Clients, Expire(c)
    PROVE  \E r, o : Step(c, r, o) /\ Good(c, r, o)
<1> DEFINE o == op[c]
           d == Deadline(None)
           r == IF record = Missing THEN Missing ELSE [record EXCEPT !.ttl = d]
           e == IF Reads(o) THEN Given(o, o.read) ELSE Touched(o)
<1>1. o.at = "expire" /\ Step(c, r, e)
  BY DEF Expire
<1>2. Fit(e, now)
  BY <1>1, LastCommand
<1>3. Redis /\ now \in Nat /\ host \in Hosts
  BY <1>1, CallFits DEF Fit, SInv
<1> HIDE DEF e
<1>4. CASE record = Missing
  <2>1. Good(c, Missing, e)
    BY <1>1, <1>2, <1>3 DEF Good, Succeeds, Covers, Whole, HeldIn
  <2>. QED BY <1>1, <1>4, <2>1
<1>5. CASE record # Missing
  <2>1. /\ d \in Int \union {None}
        /\ host.life.idle_ttl # None => Reaches(d, now)
    BY <1>3, Deadlines
  <2> HIDE DEF d
  <2>2. /\ record \in Records \union Fragments /\ r = [record EXCEPT !.ttl = d]
        /\ record.accessed <= now
    BY <1>5 DEF SInv
  <2> HIDE DEF r
  <2>3. r \in Records \union Fragments /\ r.prefix = record.prefix /\ r.accessed = record.accessed /\ r.ttl = d
    BY <2>1, <2>2, TtlAt
  <2>4. record.accessed \in Int
    BY <2>2 DEF Records, Fragments
  <2>5. r.accessed <= now
    BY <2>2, <2>3
  <2>6. Succeeds(r)
    BY <1>5, <2>3 DEF Succeeds, HeldIn, Whole
  <2>7. Covers(c, r, e)
    <3> SUFFICES ASSUME host.life.idle_ttl # None
                 PROVE  Reaches(r.ttl, r.accessed)
      BY DEF Covers
    <3>1. Reaches(d, now) /\ now \in Int
      BY <1>3, <2>1
    <3>. QED BY <1>3, <2>1, <2>3, <2>4, <2>5, <3>1, ReachesEarlier
  <2>8. Good(c, r, e)
    BY <1>1, <1>2, <1>3, <2>3, <2>5, <2>6, <2>7 DEF Good
  <2>. QED BY <1>1, <2>8
<1>. QED BY <1>4, <1>5

LEMMA DisconnectGood ==
    ASSUME SInv, NEW c \in Clients, Disconnect(c)
    PROVE  \E r, o : Step(c, r, o) /\ Good(c, r, o)
<1> DEFINE o == op[c]
           a == IF o.at \in {"start", "expired"} /\ Touches(o) THEN "Expired" ELSE "Unavailable"
           e == [Done(o, a) EXCEPT !.cut = TRUE]
<1>1. o.at \notin {"idle", "done"} /\ Step(c, record, e) /\ Redis
  BY DEF Disconnect, Busy
<1>2. a \in Answers /\ a \notin {"Found", "Assembled"}
  BY DEF Answers
<1> HIDE DEF a
<1>3. Fit(o, now) /\ Busily(o) /\ now \in Nat
  BY <1>1, CallFits DEF SInv
<1>4. Fit(e, now) /\ e.cut
  <2>1. Done(o, a) \in Calls
    BY <1>2, <1>3, DoneFields DEF Fit
  <2>2. e.cut
    BY <2>1 DEF Calls
  <2>. QED BY <1>2, <1>3, <2>2, CutFits
<1> HIDE DEF e
<1>5. Good(c, record, e)
  BY <1>1, <1>4 DEF SInv, Good, Succeeds, Covers
<1>. QED BY <1>1, <1>5
-----------------------------------------------------------------------------
LEMMA Calling ==
    ASSUME SInv, TtlFollowsIdleTime, NEW c \in Clients, NEW kind \in Kinds \ {"delta_touch"},
           NEW prefix \in Prefixes \union {None}, kind = "publish" => prefix # None,
           NEW ctx \in Requests \union {None}, Call(c, kind, prefix, ctx)
    PROVE  SInv' /\ TtlFollowsIdleTime' /\ UNCHANGED <<host, now, record, halfTouched>>
<1> DEFINE seen == IF kind \in {"get", "delta"} THEN {HeldIn(record)} ELSE {}
           e == [at |-> "start", kind |-> kind, now |-> now, prefix |-> prefix, ctx |-> ctx,
                 answer |-> None, read |-> None, hit |-> FALSE, cut |-> FALSE, seen |-> seen, lost |-> FALSE]
<1>1. /\ op[c].at = "idle" /\ op' = [op EXCEPT ![c] = e]
      /\ UNCHANGED <<host, now, record, halfTouched>> /\ Redis' = Redis
  BY DEF Call, Redis
<1>2. seen \in SUBSET (Prefixes \union {None})
  BY HeldTyped DEF SInv
<1>3. e.kind \in {"get", "delta"} => HeldIn(record) \in e.seen
  OBVIOUS
<1> HIDE DEF seen
<1>4. /\ e \in Calls /\ e.at = "start" /\ e.kind = kind /\ e.now = now /\ e.prefix = prefix
      /\ ~ e.hit /\ e.answer = None
  <2>1. "start" \in Places \ {"idle"} /\ None \in Answers /\ now \in Int
    BY DEF Places, Answers, SInv
  <2>. QED BY <1>2, <2>1 DEF Calls
<1> HIDE DEF e
<1>5. Fit(e, now) /\ Watches(e, record, now)
  BY <1>3, <1>4 DEF Fit, Watches, Busily, Reads, SInv
<1>6. \A d \in Clients : op'[d] = IF d = c THEN e ELSE op[d]
  BY <1>1 DEF SInv
<1>7. SInv'
  <2>1. \A d \in Clients : (op[d] = Idle \/ (Fit(op[d], now) /\ Watches(op[d], record, now)))'
    BY <1>1, <1>5, <1>6 DEF SInv, Fit, Watches, Alive
  <2>. QED BY <1>1, <2>1 DEF SInv, Whole
<1>8. TtlFollowsIdleTime'
  BY <1>1, <1>6 DEF TtlFollowsIdleTime, Whole
<1>. QED BY <1>1, <1>7, <1>8

LEMMA Returning ==
    ASSUME SInv, TtlFollowsIdleTime, NEW c \in Clients, Return(c)
    PROVE  SInv' /\ TtlFollowsIdleTime' /\ UNCHANGED <<host, now, record, halfTouched>>
<1>1. /\ op[c].at = "done" /\ op' = [op EXCEPT ![c] = Idle]
      /\ UNCHANGED <<host, now, record, halfTouched>> /\ Redis' = Redis
  BY DEF Return, Redis
<1>2. \A d \in Clients : op'[d] = IF d = c THEN Idle ELSE op[d]
  BY <1>1 DEF SInv
<1>3. SInv'
  <2>1. \A d \in Clients : (op[d] = Idle \/ (Fit(op[d], now) /\ Watches(op[d], record, now)))'
    BY <1>1, <1>2 DEF SInv, Fit, Watches, Alive
  <2>. QED BY <1>1, <2>1 DEF SInv, Whole
<1>4. TtlFollowsIdleTime'
  BY <1>1, <1>2 DEF TtlFollowsIdleTime, Whole
<1>. QED BY <1>1, <1>3, <1>4

LEMMA Ticking ==
    ASSUME SInv, TtlFollowsIdleTime, Tick
    PROVE  SInv' /\ TtlFollowsIdleTime' /\ Succeeds(record')
<1> DEFINE r == IF record # Missing /\ record.ttl # None /\ record.ttl <= now + 1 THEN Missing ELSE record
           t == now + 1
<1>1. /\ record' = r /\ now' = t /\ host' = host /\ halfTouched' = halfTouched /\ Redis' = Redis
      /\ DOMAIN op' = Clients
  BY DEF Tick, Redis
<1>2. r \in {record, Missing} /\ t \in Nat /\ now \in Nat /\ now <= t
  BY DEF SInv
<1>3. HeldIn(r) \in {None, HeldIn(record)} /\ (Whole(r) => r = record)
  BY <1>2 DEF HeldIn, Whole
<1>4. ASSUME NEW d \in Clients
      PROVE  op'[d].at = op[d].at /\ (op'[d] = Idle \/ (Fit(op'[d], t) /\ Watches(op'[d], r, t)))
  <2> DEFINE e == op[d]
             lost == e.lost \/ (e.hit /\ ~ Alive(r, t))
  <2>1. CASE d \in Busy
    <3>1. op'[d] = [e EXCEPT !.lost = lost]
      BY <2>1 DEF Tick
    <3>2. e \in Calls /\ Fit(e, now) /\ Watches(e, record, now) /\ Busily(e)
      BY <2>1, CallFits DEF Busy
    <3>3. lost \in BOOLEAN /\ (e.lost => lost) /\ (e.hit => lost \/ Alive(r, t)) /\ e.now \in Int
      BY <3>2 DEF Calls
    <3> DEFINE x == op'[d]
    <3> HIDE DEF lost, x
    <3>4. /\ x \in Calls /\ x.at = e.at /\ x.kind = e.kind /\ x.now = e.now /\ x.prefix = e.prefix
          /\ x.ctx = e.ctx /\ x.answer = e.answer /\ x.read = e.read /\ x.hit = e.hit /\ x.cut = e.cut
          /\ x.seen = e.seen /\ x.lost = lost
      BY <3>1, <3>2, <3>3 DEF Calls, x
    <3>5. Fit(x, t)
      BY <1>2, <3>2, <3>3, <3>4 DEF Fit, Busily, Reads, Touches
    <3>6. Watches(x, r, t)
      BY <1>3, <3>2, <3>3, <3>4 DEF Watches, Busily, Reads
    <3>. QED BY <3>4, <3>5, <3>6 DEF x
  <2>2. CASE d \notin Busy
    <3>1. op'[d] = e /\ ~ Busily(e)
      BY <2>2 DEF Tick, Busy, Busily
    <3>2. CASE e = Idle
      BY <3>1, <3>2
    <3>3. CASE Fit(e, now)
      BY <1>2, <3>1, <3>3 DEF Fit, Calls, Watches
    <3>. QED BY <3>1, <3>2, <3>3 DEF SInv
  <2>. QED BY <2>1, <2>2
<1>5. SInv'
  <2>1. \A d \in Clients : (op[d] = Idle \/ (Fit(op[d], now) /\ Watches(op[d], record, now)))'
    BY <1>1, <1>4 DEF Fit, Watches, Alive
  <2>2. (r # Missing => r.accessed <= t) /\ r \in {Missing} \union Records \union Fragments
    BY <1>2 DEF SInv, Records, Fragments
  <2>. QED BY <1>1, <1>2, <2>1, <2>2 DEF SInv, Whole
<1>6. TtlFollowsIdleTime'
  BY <1>1, <1>3, <1>4 DEF TtlFollowsIdleTime, Whole
<1>7. Succeeds(r)
  BY <1>3 DEF Succeeds
<1>. QED BY <1>1, <1>5, <1>6, <1>7
-----------------------------------------------------------------------------
LEMMA Refines ==
    ASSUME SInv, SInv', Succeeds(record')
    PROVE  [Contract!Next]_Held
<1>1. /\ HeldIn(record) \in Prefixes \union {None} /\ HeldIn(record') \in Prefixes \union {None}
      /\ Held \in {None, HeldIn(record)} /\ Held' \in {None, HeldIn(record')}
      /\ Held # None => Alive(record, now)
  BY HeldTyped DEF SInv, Held, Alive, HeldIn, Whole
<1>2. CASE Held = None
  BY <1>1, <1>2 DEF Contract!Next, Contract!Create
<1>3. CASE Held # None /\ Held' = None
  BY <1>3 DEF Contract!Next, Contract!Forget
<1>4. CASE Held # None /\ Held' # None
  <2>1. /\ Held = HeldIn(record) /\ Held' = HeldIn(record') /\ Held' \in Prefixes
        /\ Held' = Held \/ Held'.epoch > Held.epoch
    BY <1>1, <1>4 DEF Succeeds
  <2>. QED BY <1>4, <2>1 DEF Contract!Next, Contract!Replace
<1>. QED BY <1>2, <1>3, <1>4

LEMMA SInvInit == Init => SInv /\ TtlFollowsIdleTime /\ Contract!Init
<1> SUFFICES ASSUME Init PROVE SInv /\ TtlFollowsIdleTime /\ Contract!Init
  OBVIOUS
<1>1. ~ Whole(record)
  BY DEF Init, Whole
<1>. QED BY <1>1 DEF Init, SInv, TtlFollowsIdleTime, Contract!Init, Held, Alive

LEMMA CallStep ==
    ASSUME SInv, TtlFollowsIdleTime, NEW c \in Clients, NEW r, NEW o, Step(c, r, o), Good(c, r, o)
    PROVE  SInv' /\ TtlFollowsIdleTime' /\ [Contract!Next]_Held
BY Stepped, Refines

LEMMA SInvNext ==
    SInv /\ TtlFollowsIdleTime /\ [Next]_vars => SInv' /\ TtlFollowsIdleTime' /\ [Contract!Next]_Held
<1> SUFFICES ASSUME SInv, TtlFollowsIdleTime, [Next]_vars
             PROVE  SInv' /\ TtlFollowsIdleTime' /\ [Contract!Next]_Held
  OBVIOUS
<1> DEFINE Goal == SInv' /\ TtlFollowsIdleTime' /\ [Contract!Next]_Held
<1>1. CASE Tick
  BY <1>1, Ticking, Refines
<1>2. ASSUME SInv', UNCHANGED <<host, now, record>>
      PROVE  Succeeds(record') /\ [Contract!Next]_Held
  <2>1. Succeeds(record')
    BY <1>2 DEF Succeeds
  <2>. QED BY <1>2, <2>1, Refines
<1>3. ASSUME NEW c \in Clients, NEW p \in Prefixes, CallPublish(c, p)
      PROVE  Goal
  <2>1. "publish" \in Kinds \ {"delta_touch"} /\ p # None /\ Call(c, "publish", p, None)
    BY <1>3, SessionConfig DEF Kinds, CallPublish, SessionConfig
  <2>. QED BY <1>2, <2>1, Calling
<1>4. ASSUME NEW c \in Clients, NEW ctx \in Requests, Call(c, "delta", None, ctx)
      PROVE  Goal
  <2>1. "delta" \in Kinds \ {"delta_touch"}
    BY DEF Kinds
  <2>. QED BY <1>2, <1>4, <2>1, Calling
<1>5. ASSUME NEW c \in Clients, NEW kind \in {"get", "touch", "delete", "purge"}, Call(c, kind, None, None)
      PROVE  Goal
  <2>1. kind \in Kinds \ {"delta_touch", "publish"}
    BY DEF Kinds
  <2>. QED BY <1>2, <1>5, <2>1, Calling
<1>6. ASSUME NEW c \in Clients, CallPurge(c)
      PROVE  Goal
  BY <1>5, <1>6 DEF CallPurge
<1>7. ASSUME NEW c \in Clients, Memory(c)
      PROVE  Goal
  BY <1>7, MemoryGood, CallStep
<1>8. ASSUME NEW c \in Clients, OnRedis(c)
      PROVE  Goal
  <2>1. \E r, o : Step(c, r, o) /\ Good(c, r, o)
    BY <1>8, LoadGood, DelExpiredGood, DeleteGood, ScriptGood, LoadStaleGood, HexistsGood, HsetGood,
       ExpireGood, DisconnectGood, LoseReplyGood DEF OnRedis
  <2>. QED BY <2>1, CallStep
<1>9. ASSUME NEW c \in Clients, Return(c)
      PROVE  Goal
  BY <1>2, <1>9, Returning
<1>10. CASE UNCHANGED vars
  <2>1. SInv' /\ TtlFollowsIdleTime'
    BY <1>10 DEF vars, SInv, Fit, Watches, Alive, Whole, Redis, TtlFollowsIdleTime
  <2>. QED BY <1>2, <1>10, <2>1 DEF vars
<1>. QED BY <1>1, <1>3, <1>4, <1>5, <1>6, <1>7, <1>8, <1>9, <1>10 DEF Next

(* The inductive invariant: what each call knows by itself, and that it has *)
(* seen what the record held while it worked.                              *)
THEOREM SInvHolds == Spec => []SInv
<1>1. Init => SInv /\ TtlFollowsIdleTime
  BY SInvInit
<1>2. SInv /\ TtlFollowsIdleTime /\ [Next]_vars => (SInv /\ TtlFollowsIdleTime)'
  BY SInvNext
<1>. QED BY <1>1, <1>2, PTL DEF Spec

(* What Redis holds ends with its idle lifetime, less the fraction of a    *)
(* second that EXPIRE cannot count, unless a touch is, or was cut off,     *)
(* between HSET and EXPIRE.                                                *)
THEOREM TtlReaches == Spec => []TtlFollowsIdleTime
<1>1. Init => SInv /\ TtlFollowsIdleTime
  BY SInvInit
<1>2. SInv /\ TtlFollowsIdleTime /\ [Next]_vars => (SInv /\ TtlFollowsIdleTime)'
  BY SInvNext
<1>. QED BY <1>1, <1>2, PTL DEF Spec

(* Each store implements SessionContract: among any number of clients and  *)
(* whatever is lost or expires in between, a prefix that is held gives way *)
(* to a higher epoch only.                                                 *)
THEOREM StoreKeepsContract == Spec => KeepsContract
<1>1. Init => SInv /\ TtlFollowsIdleTime /\ Contract!Init
  BY SInvInit
<1>2. SInv /\ TtlFollowsIdleTime /\ [Next]_vars
        => (SInv /\ TtlFollowsIdleTime)' /\ [Contract!Next]_Held
  BY SInvNext
<1>. QED BY <1>1, <1>2, PTL DEF Spec, KeepsContract, Contract!Spec

(* A read or a delta request is answered with one prefix that the store    *)
(* held during the call, a delta one with the epoch it asked for.          *)
THEOREM OnePublish == Spec => []DeltaFromOnePublish
<1>1. SInv => DeltaFromOnePublish
  BY DEF SInv, Fit, DeltaFromOnePublish, Answered, Idle
<1>. QED BY <1>1, SInvHolds, PTL

(* A hit that was announced is refused by the touch after it only if the   *)
(* session ended meanwhile or the connection broke.                        *)
THEOREM RefusedOnlyWhenLost == Spec => []HitRefusedOnlyWhenLost
<1>1. SInv => HitRefusedOnlyWhenLost
  BY DEF SInv, Fit, HitRefusedOnlyWhenLost, Answered, Idle
<1>. QED BY <1>1, SInvHolds, PTL
=============================================================================
