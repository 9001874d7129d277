-------------------------------- MODULE Sessions --------------------------------
(***************************************************************************)
(* One session key in a store of unigateway-session, in memory or on Redis *)
(* (unigateway-session-redis), with the delta middleware above it.         *)
(*                                                                         *)
(* A call reads the clock, then works.  In memory the work is one step,    *)
(* under the lock.  On Redis every command is a step of its own and only   *)
(* the publish script is atomic over several: the other callers, a lost    *)
(* connection and Redis's own TTL come in between.  A record of which only *)
(* the time of access exists (a fragment) has prefix None.                 *)
(***************************************************************************)
EXTENDS SessionRules, FiniteSets

CONSTANTS Clients,
          Prefixes,      \* what hosts publish
          Requests,      \* the contexts and tails of delta requests
          Hosts,         \* how a gateway may set store and middleware up
          Missing,
          Second,        \* ticks of the clock in one second
          MaxTime        \* bound: the clock

ASSUME SessionConfig ==
    /\ None \notin Int /\ None \notin Prefixes
    /\ \A p \in Prefixes : p.epoch \in Nat
    /\ Second \in Nat \ {0}
    /\ \A h \in Hosts : {h.life.idle_ttl, h.life.max_lifetime} \subseteq Nat \union {None}

VARIABLES host,          \* backend, lifetime, limits and policies
          now,
          record,        \* what the store has under the key
          op,            \* each client's call
          halfTouched    \* history: a connection broke between HSET and EXPIRE

vars == <<host, now, record, op, halfTouched>>

Idle == [at |-> "idle"]
Redis == host.backend = "redis"

Init == /\ host \in Hosts
        /\ now = 0
        /\ record = Missing
        /\ op = [c \in Clients |-> Idle]
        /\ halfTouched = FALSE

Whole(r) == r # Missing /\ r.prefix # None
HeldIn(r) == IF Whole(r) THEN r.prefix ELSE None
Alive(r, t) == Whole(r) /\ ~ Expired(r, host.life, t)
Fresh(prefix, t, ttl) == [prefix |-> prefix, created |-> t, accessed |-> t, ttl |-> ttl]

Busy == {c \in Clients : op[c].at \notin {"idle", "done"}}

Reads(o) == o.kind \in {"get", "delta"}
Touches(o) == o.kind \in {"touch", "delta_touch"}

(* A step of client c: what the record becomes, and the call.  Every call  *)
(* in progress remembers what was held meanwhile, and whether the session  *)
(* was gone or outlived at some moment after the hit.                      *)
Step(c, r, o) ==
    /\ record' = r
    /\ op' = [d \in Clients |->
                LET e == IF d = c THEN o ELSE op[d]
                IN  IF d \notin Busy THEN e
                    ELSE [e EXCEPT !.seen = IF Reads(e) /\ e.at # "done" THEN @ \union {HeldIn(r)} ELSE @,
                                   !.lost = @ \/ (e.hit /\ ~ Alive(r, now) /\ (d # c \/ e.at # "done"))]]
    /\ halfTouched' = (halfTouched \/ (op[c].at = "expire" /\ o.cut))
    /\ UNCHANGED <<host, now>>

At(o, at) == [o EXCEPT !.at = at]
(* The answer, and of the call what the properties look at.                *)
Done(o, answer) ==
    LET given == answer \in {"Found", "Assembled"}
    IN  [o EXCEPT !.at = "done", !.answer = answer, !.prefix = None,
                  !.ctx = IF given THEN @ ELSE None, !.read = IF given THEN @ ELSE None,
                  !.seen = IF given THEN @ ELSE {}, !.now = 0]

Call(c, kind, prefix, ctx) ==
    /\ op[c].at = "idle"
    /\ op' = [op EXCEPT ![c] = [at |-> "start", kind |-> kind, now |-> now, prefix |-> prefix, ctx |-> ctx,
                                answer |-> None, read |-> None, hit |-> FALSE, cut |-> FALSE,
                                seen |-> IF kind \in {"get", "delta"} THEN {HeldIn(record)} ELSE {}, lost |-> FALSE]]
    /\ UNCHANGED <<host, now, record, halfTouched>>

(* Too long a prefix is refused before the store is asked.                 *)
CallPublish(c, p) ==
    /\ Within(host.max_messages, p.messages)
    /\ Call(c, "publish", p, None)

CallPurge(c) == /\ host.life.idle_ttl # None \/ host.life.max_lifetime # None
                /\ Call(c, "purge", None, None)

Return(c) == /\ op[c].at = "done"
             /\ op' = [op EXCEPT ![c] = Idle]
             /\ UNCHANGED <<host, now, record, halfTouched>>

(* assemble_delta after get_key: the request is rewritten and the hit is   *)
(* announced; a touch may follow, and may fail.                            *)
Given(o, prefix) ==
    IF o.kind = "get" THEN Done([o EXCEPT !.read = prefix], "Found")
    ELSE LET answer == AssembleAnswer(host.mw, prefix, o.ctx)
         IN  IF answer # "ok" THEN Done(o, answer)
             ELSE IF host.mw.touch_on_delta
             THEN [o EXCEPT !.at = "start", !.kind = "delta_touch", !.now = now,
                            !.read = prefix, !.hit = TRUE]
             ELSE Done([o EXCEPT !.read = prefix, !.hit = TRUE], "Assembled")

Touched(o) == Done(o, IF o.kind = "touch" THEN "Touched" ELSE "Assembled")
NotThere(o) == Done(o, IF o.kind = "get" THEN "Nothing" ELSE "NotFound")
-----------------------------------------------------------------------------
(* MemorySessionStore: remove_if_expired, then the operation, in one step. *)
Live(o) == IF record # Missing /\ Expired(record, host.life, o.now) THEN Missing ELSE record
Dropped(o) == Live(o) # record

MemoryPublish(c, o) ==
    LET out == Outcome(HeldIn(Live(o)), o.prefix)
    IN  Step(c, CASE Stores(out)            -> Fresh(o.prefix, o.now, None)
                  [] out = "AlreadyCurrent" -> [Live(o) EXCEPT !.accessed = o.now]
                  [] OTHER                  -> Live(o),
             Done(o, out))

MemoryGet(c, o) ==
    CASE Dropped(o)       -> Step(c, Missing, Done(o, "Expired"))
      [] record = Missing -> Step(c, Missing, NotThere(o))
      [] OTHER            -> Step(c, IF host.touch_on_read THEN [record EXCEPT !.accessed = o.now] ELSE record,
                                  Given(o, record.prefix))

(* Mutant: a touch calls a session expired when its idle time is just up.  *)
MemoryTouchEarly(c, o) ==
    CASE record = Missing -> Step(c, Missing, NotThere(o))
      [] record # Missing /\ o.now - record.accessed >= host.life.idle_ttl
                          -> Step(c, Missing, Done(o, "Expired"))
      [] OTHER            -> Step(c, [record EXCEPT !.accessed = o.now], Touched(o))

MemoryTouch(c, o) ==
    CASE Dropped(o)       -> Step(c, Missing, Done(o, "Expired"))
      [] record = Missing -> Step(c, Missing, NotThere(o))
      [] OTHER            -> Step(c, [record EXCEPT !.accessed = o.now], Touched(o))

MemoryDelete(c, o) == Step(c, Missing, Done(o, "Deleted"))
MemoryPurge(c, o) == Step(c, Live(o), Done(o, "Purged"))

Memory(c) ==
    LET o == op[c]
    IN  /\ ~ Redis /\ o.at = "start"
        /\ \/ o.kind = "publish" /\ MemoryPublish(c, o)
           \/ Reads(o) /\ MemoryGet(c, o)
           \/ Touches(o) /\ MemoryTouch(c, o)
           \/ o.kind = "delete" /\ MemoryDelete(c, o)
           \/ o.kind = "purge" /\ MemoryPurge(c, o)
-----------------------------------------------------------------------------
(* On Redis a time is stored in whole seconds, cut short.                  *)
Secs(t) == (t \div Second) * Second

(* HGETALL.  A record that lacks a field is an error, which touch_key      *)
(* answers as an expiry.                                                   *)
Load(c) ==
    LET o == op[c]
        fragment == record # Missing /\ ~ Whole(record)
    IN  /\ Redis /\ o.at = "start" /\ o.kind # "delete"
        /\ Step(c, record,
             IF fragment
             THEN Done(o, IF Touches(o) THEN "Expired" ELSE "Unavailable")
             ELSE IF record # Missing /\ Expired(record, host.life, o.now)
             THEN At(o, "expired")
             ELSE CASE o.kind = "publish" -> At(o, "script")
                    [] o.kind = "purge"   -> Done(o, "Purged")
                    [] Touches(o)         -> At(o, "hexists")
                    [] Reads(o)           ->
                         IF record = Missing THEN NotThere(o)
                         ELSE IF host.touch_on_read
                         THEN At([o EXCEPT !.read = record.prefix], "hset")
                         ELSE Given(o, record.prefix))

(* DEL of what was found expired, whatever stands there by now.            *)
DelExpired(c) ==
    LET o == op[c]
    IN  /\ o.at = "expired"
        /\ Step(c, Missing, CASE o.kind = "publish" -> At(o, "script")
                              [] o.kind = "purge"   -> Done(o, "Purged")
                              [] OTHER              -> Done(o, "Expired"))

Delete(c) ==
    LET o == op[c]
    IN  /\ Redis /\ o.at = "start" /\ o.kind = "delete"
        /\ Step(c, Missing, Done(o, "Deleted"))

(* EXPIRE counts in whole seconds, at least one: idle_ttl_secs.            *)
WholeSeconds == IF host.life.idle_ttl < Second THEN Second ELSE Secs(host.life.idle_ttl)

(* Mutant: a TTL that is set is left alone.                                *)
DeadlineOnce(old) == IF host.life.idle_ttl = None \/ old # None THEN old ELSE now + WholeSeconds

(* Without an idle lifetime a TTL that is set stays.                       *)
Deadline(old) == IF host.life.idle_ttl = None THEN old ELSE now + WholeSeconds

(* The publish script.  It looks at the epoch field alone to see whether   *)
(* there is a session.                                                     *)
Script(c) ==
    LET o == op[c]
        out == Outcome(HeldIn(record), o.prefix)
        ttl == IF record = Missing THEN None ELSE record.ttl
    IN  /\ o.at = "script"
        /\ Step(c, CASE Stores(out)            -> Fresh(o.prefix, Secs(o.now), Deadline(ttl))
                     [] out = "AlreadyCurrent" -> [record EXCEPT !.accessed = Secs(o.now), !.ttl = Deadline(ttl)]
                     [] OTHER                  -> record,
                   IF out = "StaleEpoch" THEN At(o, "stale") ELSE Done(o, out))

(* The epoch for the error message is read anew.                           *)
LoadStale(c) ==
    LET o == op[c]
    IN  /\ o.at = "stale"
        /\ Step(c, record, Done(o, IF record # Missing /\ ~ Whole(record) THEN "Unavailable" ELSE "StaleEpoch"))

Hexists(c) ==
    LET o == op[c]
    IN  /\ o.at = "hexists"
        /\ Step(c, record, IF Whole(record) THEN At(o, "hset") ELSE NotThere(o))

(* HSET creates the key when it is gone by now.                            *)
Hset(c) ==
    LET o == op[c]
        r == IF record = Missing THEN [Fresh(None, None, None) EXCEPT !.accessed = Secs(o.now)]
             ELSE [record EXCEPT !.accessed = Secs(o.now)]
    IN  /\ o.at = "hset"
        /\ Step(c, r, IF host.life.idle_ttl # None THEN At(o, "expire")
                      ELSE IF Reads(o) THEN Given(o, o.read)
                      ELSE Touched(o))

Expire(c) ==
    LET o == op[c]
        r == IF record = Missing THEN Missing ELSE [record EXCEPT !.ttl = Deadline(None)]
    IN  /\ o.at = "expire"
        /\ Step(c, r, IF Reads(o) THEN Given(o, o.read) ELSE Touched(o))

(* The connection fails: before the command, or after it with the reply.   *)
Disconnect(c) ==
    LET o == op[c]
        early == o.at \in {"start", "expired"}
    IN  /\ Redis /\ c \in Busy
        /\ Step(c, record, [Done(o, IF early /\ Touches(o) THEN "Expired" ELSE "Unavailable") EXCEPT !.cut = TRUE])

LoseReply(c) ==
    LET o == op[c]
        out == Outcome(HeldIn(record), o.prefix)
    IN  /\ o.at = "script" /\ Stores(out)
        /\ Step(c, Fresh(o.prefix, Secs(o.now), Deadline(IF record = Missing THEN None ELSE record.ttl)),
                [Done(o, "Unavailable") EXCEPT !.cut = TRUE])

OnRedis(c) == \/ Load(c) \/ DelExpired(c) \/ Delete(c) \/ Script(c) \/ LoadStale(c)
              \/ Hexists(c) \/ Hset(c) \/ Expire(c) \/ Disconnect(c) \/ LoseReply(c)
-----------------------------------------------------------------------------
(* Time passes; Redis removes a key whose TTL is over.                     *)
Tick ==
    /\ now < MaxTime
    /\ now' = now + 1
    /\ LET r == IF record # Missing /\ record.ttl # None /\ record.ttl <= now + 1 THEN Missing ELSE record
       IN  /\ record' = r
           /\ op' = [c \in Clients |->
                       IF c \in Busy
                       THEN [op[c] EXCEPT !.lost = @ \/ (op[c].hit /\ ~ Alive(r, now + 1))]
                       ELSE op[c]]
    /\ UNCHANGED <<host, halfTouched>>

Next ==
    \/ Tick
    \/ \E c \in Clients :
         \/ \E p \in Prefixes : CallPublish(c, p)
         \/ \E ctx \in Requests : Call(c, "delta", None, ctx)
         \/ \E kind \in {"get", "touch", "delete"} : Call(c, kind, None, None)
         \/ CallPurge(c) \/ Memory(c) \/ OnRedis(c) \/ Return(c)

Spec == Init /\ [][Next]_vars
-----------------------------------------------------------------------------
Held == IF Alive(record, now) THEN record.prefix ELSE None

Contract == INSTANCE SessionContract WITH held <- Held

(* Both stores keep SessionContract: "epoch CAS: atomic publish" - however *)
(* publishes race each other, expiry, deletion, touches and lost replies,  *)
(* the prefix that is held gives way to a higher epoch only, and a content *)
(* is never changed under its epoch.                                       *)
KeepsContract == Contract!Spec

Answered == {c \in Clients : op[c].at = "done"}

(* A delta request, or a read, is given a prefix that the store held at    *)
(* some moment of the call, whole, and a delta one with the epoch it asked *)
(* for: never a mixture of two publishes, nor of before and after.         *)
DeltaFromOnePublish ==
    \A c \in Answered :
        op[c].answer \in {"Found", "Assembled"} =>
            /\ op[c].read # None /\ op[c].read \in op[c].seen
            /\ op[c].kind \in {"delta", "delta_touch"} => op[c].read.epoch = op[c].ctx.epoch

(* A delta that was announced as a hit and rewritten is still refused when *)
(* the touch after it fails: only when between the two others removed the  *)
(* session, its lifetime ended, or the connection to Redis broke.          *)
HitRefusedOnlyWhenLost ==
    \A c \in Answered :
        (op[c].hit /\ op[c].answer # "Assembled")
           => op[c].lost \/ op[c].cut

(* Redis drops nothing before its idle lifetime is over, save the fraction *)
(* of a second that EXPIRE cannot count, and never within a second of the  *)
(* last access that is stored; and it keeps nothing for ever, a fragment   *)
(* as little as a session: except while a touch is between HSET and        *)
(* EXPIRE, or was cut off there.                                           *)
TtlFollowsIdleTime ==
    (Redis /\ record # Missing /\ host.life.idle_ttl # None)
       => \/ /\ record.ttl # None
             /\ record.ttl > record.accessed + host.life.idle_ttl - Second
             /\ record.ttl >= record.accessed + Second
          \/ halfTouched \/ \E c \in Clients : op[c].at = "expire"
=============================================================================
