------------------------------ MODULE SessionRules ------------------------------
(***************************************************************************)
(* The decisions of unigateway-session that both stores and the delta      *)
(* middleware take: lifetimes, limits, publication by epoch, and the       *)
(* checks before a tail is appended to a stored prefix.  A prefix is       *)
(* [epoch, messages, fingerprint]; sizes count messages.                   *)
(***************************************************************************)
EXTENDS Integers, Sequences

CONSTANT None          \* an option left out

(* is_session_expired; a clock that went back counts as no time.           *)
Outlived(from, bound, now) == bound # None /\ now - from > bound

Expired(record, life, now) ==
    Outlived(record.created, life.max_lifetime, now) \/ Outlived(record.accessed, life.idle_ttl, now)

Within(limit, messages) == limit # None => Len(messages) <= limit

(* Mutant: an equal epoch replaces too.                                    *)
OutcomeLastWins(held, prefix) ==
    IF held = None THEN "Created"
    ELSE IF held = prefix THEN "AlreadyCurrent"
    ELSE IF prefix.epoch < held.epoch THEN "StaleEpoch"
    ELSE "Replaced"

(* publish: what becomes of a prefix given the one that is held.           *)
Outcome(held, prefix) ==
    IF held = None THEN "Created"
    ELSE IF prefix.epoch > held.epoch THEN "Replaced"
    ELSE IF prefix.epoch < held.epoch THEN "StaleEpoch"
    ELSE IF held = prefix THEN "AlreadyCurrent"
    ELSE "EpochConflict"

Stores(outcome) == outcome \in {"Created", "Replaced"}

(* An algorithm that either side leaves empty is not compared.             *)
FingerprintsMatch(stored, request) ==
    /\ stored.value = request.value
    /\ \/ "" \in {stored.algorithm, request.algorithm}
       \/ stored.algorithm = request.algorithm

(* request_fingerprint: the legacy prefix_hash stands in, without one.     *)
RequestFingerprint(ctx) ==
    IF ctx.fingerprint # None THEN ctx.fingerprint
    ELSE IF ctx.prefix_hash # None THEN [algorithm |-> "", value |-> ctx.prefix_hash]
    ELSE None

FingerprintAnswer(policy, stored, request) ==
    LET given == stored # None /\ request # None
    IN  IF policy = "Disabled" THEN "ok"
        ELSE IF ~ given THEN (IF policy = "Required" THEN "InvalidContext" ELSE "ok")
        ELSE IF FingerprintsMatch(stored, request) THEN "ok"
        ELSE "FingerprintMismatch"

TailStartAnswer(policy, length, tail_start) ==
    IF \/ policy = "Ignore"
       \/ policy = "Optional" /\ tail_start = None
       \/ tail_start = length
    THEN "ok" ELSE "TailStartMismatch"

(* Mutant: an older epoch will do.                                         *)
AssembleNewer(mw, stored, ctx) ==
    IF stored.epoch < ctx.epoch THEN "EpochMismatch"
    ELSE IF ctx.tail = None THEN "InvalidContext"
    ELSE "ok"

(* assemble_delta once the prefix was read: the first check that fails     *)
(* answers.                                                                *)
AssembleAnswer(mw, stored, ctx) ==
    LET f == FingerprintAnswer(mw.fingerprint_policy, stored.fingerprint, RequestFingerprint(ctx))
        t == TailStartAnswer(mw.tail_policy, Len(stored.messages), ctx.tail_start)
    IN  IF stored.epoch # ctx.epoch THEN "EpochMismatch"
        ELSE IF f # "ok" THEN f
        ELSE IF t # "ok" THEN t
        ELSE IF ctx.tail = None THEN "InvalidContext"
        ELSE IF ~ Within(mw.max_tail, ctx.tail) THEN "TailTooLarge"
        ELSE IF ~ Within(mw.max_assembled, stored.messages \o ctx.tail) THEN "AssembledTooLarge"
        ELSE "ok"
=============================================================================
