------------------------------ MODULE MCCoreSync ------------------------------
(* Files written by hand and a fresh start; a host pool beside the managed *)
(* ones, one under the id of a service, and a managed pool of an earlier   *)
(* configuration.                                                          *)
EXTENDS CoreSync, MCConfigFiles, TLC

MCFiles == {HandWritten, NoneOff, EmptyFile}

HostPool == [strategy |-> "random", managed |-> FALSE, endpoints |-> <<>>]
OldPool == [HostPool EXCEPT !.managed = TRUE]
MCOtherPools == {"host" :> HostPool @@ "gone" :> OldPool @@ "svc" :> HostPool}
=============================================================================
