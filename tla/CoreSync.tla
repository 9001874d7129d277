------------------------------- MODULE CoreSync -------------------------------
(***************************************************************************)
(* The projection of the configuration into the engine's pools             *)
(* (unigateway-config/src/core_sync.rs) composed with the store it reads.  *)
(*                                                                         *)
(* The embedder's task (external: docs/dev/memory.md:238) syncs once at    *)
(* start-up and once for each notice.  A sync copies the file under the    *)
(* lock, then registers or removes one pool after the other while          *)
(* administrators go on changing the file, and sweeps at the end.          *)
(***************************************************************************)
EXTENDS GatewayConfig

CONSTANT OtherPools      \* what the engine may hold beside: pools of the host,
                         \* managed pools of a configuration loaded before

VARIABLES pools,         \* the engine's registry
          sync           \* the sync task: idle, due, building or sweeping

allVars == <<vars, pools, sync>>

SyncInit == Init /\ pools \in OtherPools /\ sync = [at |-> "due"]

-----------------------------------------------------------------------------
(* resolve_upstream: a known endpoint id wins over the provider's URL.     *)
Resolves(p) == p.endpoint = "known" \/ p.url # "none"

(* to_core_endpoint fails for a provider that is disabled, has no API key  *)
(* (which sglang-lite may lack), or resolves to no upstream.               *)
Projects(p) == p.enabled /\ (p.type = "sglang-lite" \/ p.key) /\ Resolves(p)

DriverId(p) == IF p.type \in {"anthropic", "sglang-lite"} THEN p.type ELSE "openai-compatible"

CoreEndpoint(p, b) == [id |-> p.name, driver |-> DriverId(p), models |-> p.models, priority |-> b.priority]

CoreStrategies == {"fallback", "round_robin", "random", "score_ordered"}

BindingsForService(f, id) == Pick(f.bindings, Where(f.bindings, "service", id))

(* The first service of an id and the first provider of a name count.      *)
ServiceOf(f, id) == f.services[IndexOf(f.services, "id", id)]
ProviderOf(f, b) == f.providers[IndexOf(f.providers, "name", b.provider)]

(* One binding that does not project fails the pool as a whole.            *)
Builds(f, id) ==
    LET bs == BindingsForService(f, id)
    IN  /\ ServiceOf(f, id).strategy \in CoreStrategies
        /\ bs # <<>>
        /\ \A i \in DOMAIN bs : /\ Has(f.providers, "name", bs[i].provider)
                                /\ Projects(ProviderOf(f, bs[i]))

(* The endpoints stand in the order of the bindings.                       *)
BuildPool(f, id) ==
    LET bs == BindingsForService(f, id)
    IN  [strategy |-> ServiceOf(f, id).strategy, managed |-> TRUE,
         endpoints |-> [i \in DOMAIN bs |-> CoreEndpoint(ProviderOf(f, bs[i]), bs[i])]]
-----------------------------------------------------------------------------
Without(id) == [p \in DOMAIN pools \ {id} |-> pools[p]]
With(id, pool) == [p \in DOMAIN pools \union {id} |-> IF p = id THEN pool ELSE pools[p]]

StartSync ==
    /\ up /\ sync.at = "idle" /\ notices > 0
    /\ notices' = notices - 1
    /\ sync' = [at |-> "due"]
    /\ UNCHANGED <<config, up, call, saver, disk, ops, crashes, overlapped, pools>>

CopyFile ==
    /\ up /\ sync.at = "due"
    /\ sync' = [at |-> "building", copy |-> file, next |-> 1]
    /\ UNCHANGED <<vars, pools>>

(* Mutant: a service that cannot be built keeps its pool.                  *)
SyncServiceKeeping ==
    /\ sync.at = "building" /\ sync.next <= Len(sync.copy.services)
    /\ LET id == sync.copy.services[sync.next].id
       IN  pools' = IF Builds(sync.copy, id)
                    THEN With(id, BuildPool(sync.copy, id))
                    ELSE pools
    /\ sync' = [sync EXCEPT !.next = @ + 1]
    /\ UNCHANGED vars

(* Mutant: a service that cannot be built is tried again.                  *)
SyncServiceRetrying ==
    /\ sync.at = "building" /\ sync.next <= Len(sync.copy.services)
    /\ LET id == sync.copy.services[sync.next].id
       IN  IF Builds(sync.copy, id)
           THEN /\ pools' = With(id, BuildPool(sync.copy, id))
                /\ sync' = [sync EXCEPT !.next = @ + 1]
           ELSE pools' = Without(id) /\ UNCHANGED sync
    /\ UNCHANGED vars

(* upsert_pool, or remove_pool when the pool cannot be built.              *)
SyncService ==
    /\ sync.at = "building" /\ sync.next <= Len(sync.copy.services)
    /\ LET id == sync.copy.services[sync.next].id
       IN  pools' = IF Builds(sync.copy, id)
                    THEN With(id, BuildPool(sync.copy, id))
                    ELSE Without(id)
    /\ sync' = [sync EXCEPT !.next = @ + 1]
    /\ UNCHANGED vars

(* Mutant: the sweep takes pools of the host for its own.                  *)
ListAllPools ==
    /\ sync.at = "building" /\ sync.next > Len(sync.copy.services)
    /\ sync' = [at |-> "sweeping",
                stale |-> DOMAIN pools \ {sync.copy.services[i].id : i \in DOMAIN sync.copy.services}]
    /\ UNCHANGED <<vars, pools>>

ListPools ==
    /\ sync.at = "building" /\ sync.next > Len(sync.copy.services)
    /\ LET kept == {sync.copy.services[i].id : i \in DOMAIN sync.copy.services}
       IN  sync' = [at |-> "sweeping", stale |-> {p \in DOMAIN pools : pools[p].managed} \ kept]
    /\ UNCHANGED <<vars, pools>>

Sweep ==
    /\ sync.at = "sweeping" /\ sync.stale # {}
    /\ \E p \in sync.stale : /\ pools' = Without(p)
                             /\ sync' = [sync EXCEPT !.stale = @ \ {p}]
    /\ UNCHANGED vars

EndSync ==
    /\ sync.at = "sweeping" /\ sync.stale = {}
    /\ sync' = [at |-> "idle"]
    /\ UNCHANGED <<vars, pools>>

Sync == StartSync \/ CopyFile \/ SyncService \/ ListPools \/ Sweep \/ EndSync

(* The store dies; the engine lives on when the embedder only reloads the  *)
(* configuration (survives), and is built anew when the process died.      *)
CrashAll(survives) ==
    /\ Crash
    /\ sync' = [at |-> "idle"]
    /\ IF survives THEN UNCHANGED pools ELSE pools' \in OtherPools

LoadAndSync == Load /\ sync' = [at |-> "due"] /\ UNCHANGED pools

(* Saves are left to GatewayConfig: they change neither the file in memory *)
(* nor the pools, and a restart loads the file the gateway began with.     *)
SyncNext ==
    \/ (\E a \in Admins : Administer(a)) /\ UNCHANGED <<pools, sync>>
    \/ Sync
    \/ \E survives \in BOOLEAN : CrashAll(survives)
    \/ LoadAndSync

(* The sync task and the second half of an administrative call are polled; *)
(* nobody has to start a call, and a gateway may stay down.                *)
SyncSpec == /\ SyncInit /\ [][SyncNext]_allVars
            /\ WF_allVars(Sync)
            /\ \A a \in Admins : WF_allVars(RequestCoreSync(a) /\ UNCHANGED <<pools, sync>>)
-----------------------------------------------------------------------------
Settled == up /\ sync.at = "idle" /\ notices = 0 /\ \A a \in Admins : call[a].at # "notify"

(* Leaves out the models: set_provider_model_options asks for no sync.     *)
Routes(pool) == [strategy |-> pool.strategy,
                 endpoints |-> [i \in DOMAIN pool.endpoints |->
                                  [pool.endpoints[i] EXCEPT !.models = {}]]]

InStep ==
    /\ \A i \in DOMAIN file.services :
         LET id == file.services[i].id
         IN  IF Builds(file, id)
             THEN /\ id \in DOMAIN pools
                  /\ Routes(pools[id]) = Routes(BuildPool(file, id))
                  /\ ToSet(SelectAllProviders(id, "any")) = {e.id : e \in ToSet(pools[id].endpoints)}
             ELSE id \notin DOMAIN pools
    /\ \A p \in DOMAIN pools : pools[p].managed => Has(file.services, "id", p)

(* "Executable truth for routing is UniGatewayEngine after                 *)
(* sync_core_pools()" (docs/design/arch.md:49): whenever no notice and no  *)
(* sync is on its way, the engine routes by the file as it is now, however *)
(* many changes overtook the syncs, and the administrator's selection      *)
(* names the providers the engine calls.                                   *)
EngineInStep == Settled => InStep

(* The engine catches up: once changes stop, what was asked for is synced. *)
EngineCatchesUp == (up /\ ~ Settled) ~> (~ up \/ Settled)

(* A sync leaves the host's own pools alone, but for one that has the id   *)
(* of a service.                                                           *)
HostPoolsKept ==
    [][\A p \in DOMAIN pools :
          (~ pools[p].managed /\ ~ Has(file.services, "id", p) /\ up')
             => p \in DOMAIN pools' /\ pools'[p] = pools[p]]_allVars
=============================================================================
