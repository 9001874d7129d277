------------------------------- MODULE MCSessions -------------------------------
(* A session published in two epochs, the second with two contents; delta  *)
(* requests that fit, name another epoch, position or fingerprint, or come *)
(* without raw messages; a store in memory, one on Redis with and one      *)
(* without an idle lifetime.                                               *)
EXTENDS Sessions, TLC

Print1 == [algorithm |-> "sha", value |-> "x"]
MCPrefixes == {[epoch |-> 1, messages |-> <<"a">>, fingerprint |-> Print1],
               [epoch |-> 2, messages |-> <<"a", "b">>, fingerprint |-> None],
               [epoch |-> 2, messages |-> <<"b">>, fingerprint |-> Print1]}

Fits == [epoch |-> 1, fingerprint |-> Print1, prefix_hash |-> None, tail_start |-> 1, tail |-> <<"t">>]
MCRequests == {Fits, [Fits EXCEPT !.epoch = 2, !.fingerprint = None, !.prefix_hash = "x", !.tail_start = None]}

Mw(f, t, touch) == [fingerprint_policy |-> f, tail_policy |-> t, touch_on_delta |-> touch,
                    max_tail |-> 1, max_assembled |-> 2]
Life(idle, max) == [idle_ttl |-> idle, max_lifetime |-> max]

MCHosts ==
    {[backend |-> "memory", life |-> Life(0, 1), touch_on_read |-> TRUE, max_messages |-> 2, mw |-> Mw("Optional", "Optional", TRUE)],
     [backend |-> "redis", life |-> Life(3, 2), touch_on_read |-> TRUE, max_messages |-> None, mw |-> Mw("Required", "Optional", FALSE)],
     [backend |-> "redis", life |-> Life(None, 1), touch_on_read |-> FALSE, max_messages |-> 1, mw |-> Mw("Disabled", "Ignore", TRUE)]}

Interchangeable == Permutations(Clients)
=============================================================================
