---------------------------- MODULE GatewayConfig ----------------------------
(***************************************************************************)
(* GatewayState of unigateway-config: the configuration in memory behind   *)
(* one RwLock, its administration, and its file on disk (store.rs,         *)
(* admin/mutations.rs, admin/api_keys.rs, select.rs).                      *)
(*                                                                         *)
(* An operation that takes the lock once is one step.  bind looks the      *)
(* provider's name up under one lock and writes under another; the notice  *)
(* that asks for a core sync follows when the lock is free again; a save   *)
(* copies, truncates, writes, renames and clears the dirty flag in steps   *)
(* of their own, and two saves may overlap.  The process may crash         *)
(* anywhere.                                                               *)
(*                                                                         *)
(* Display names, URLs and limits are left out: an entry keeps what        *)
(* decides whether it can serve.                                           *)
(***************************************************************************)
EXTENDS Lists

CONSTANTS FirstFiles,  \* what the file may hold when the gateway first starts
          Services,    \* ids an administrator may use
          Forms,       \* the provider entries an administrator may write
          Models,      \* the model options of a provider
          Priorities, Keys,
          Admins,      \* administrative calls in progress
          Savers,      \* saves in progress: the periodic one, the one at shutdown
          MaxOps,      \* bound: administrative calls
          MaxCrashes   \* bound: crashes

(* Strings; the literals are named for the provers, which do not know that *)
(* a literal is a string.                                                  *)
Text == STRING \union {"none", "round_robin", "fallback", "weighted"}
Service == [id : Text, strategy : Text]
Provider == [name : Text, type : Text, endpoint : Text, url : Text, key : BOOLEAN,
             enabled : BOOLEAN, models : Text]
Binding == [service : Text, provider : Text, priority : Int]
ApiKey == [key : Text, service : Text, used : Int]
Files == [mode : Text, services : Seq(Service), providers : Seq(Provider), bindings : Seq(Binding),
          api_keys : Seq(ApiKey)]

ASSUME ConfigValues ==
    /\ FirstFiles \subseteq Files /\ Forms \subseteq Provider /\ Priorities \subseteq Int
    /\ Services \union Keys \union Models \subseteq Text
    /\ IsFiniteSet(Savers)

VARIABLES file,        \* GatewayConfigFile in memory
          dirty,       \* GatewayConfig.dirty
          up,          \* the process runs
          call,        \* each administrative call: idle, bind or notify
          notices,     \* messages in the channel to the sync task
          saver,       \* each save: where it is, what it copied, the inode it writes
          disk,        \* path, tmp: the inode each name stands for; data: their contents
          ops, crashes,
          slipped,     \* history: a change fell between a save's copy and its end
          overlapped   \* history: two saves wrote at the same time

config == <<file, dirty, slipped>>
vars == <<file, dirty, up, call, notices, saver, disk, ops, crashes, slipped, overlapped>>

Torn == [torn |-> TRUE]          \* a file that was opened for writing and not yet written
Missing == -1
Inodes == 0 .. Cardinality(Savers) + 1

Idle == [at |-> "idle"]
EmptyFile == [mode |-> "none", services |-> <<>>, providers |-> <<>>, bindings |-> <<>>, api_keys |-> <<>>]

Init == /\ file \in FirstFiles
        /\ dirty = FALSE
        /\ up = TRUE
        /\ call = [a \in Admins |-> Idle]
        /\ notices = 0
        /\ saver = [s \in Savers |-> Idle]
        /\ disk = [path |-> IF file = EmptyFile THEN Missing ELSE 0, tmp |-> Missing,
                   data |-> [i \in Inodes |-> IF i = 0 THEN file ELSE Torn]]
        /\ ops = 0
        /\ crashes = 0
        /\ slipped = FALSE
        /\ overlapped = FALSE

OnDisk == IF disk.path = Missing THEN EmptyFile ELSE disk.data[disk.path]
Saving == {s \in Savers : saver[s].at # "idle"}

Has(list, field, v) == \E i \in DOMAIN list : list[i][field] = v
IndexOf(list, field, v) == SelectInSeq(list, LAMBDA e : e[field] = v)
Put(list, field, e) == IF Has(list, field, e[field])
                       THEN [list EXCEPT ![IndexOf(list, field, e[field])] = e]
                       ELSE Append(list, e)

Where(list, field, v) == {i \in DOMAIN list : list[i][field] = v}
Retain(list, field, v) == Pick(list, DOMAIN list \ Where(list, field, v))
-----------------------------------------------------------------------------
(* A call that changes the file and marks it dirty; it then owes a notice, *)
(* or returns.                                                             *)
Change(a, new, next) ==
    /\ up /\ call[a].at = "idle" /\ ops < MaxOps
    /\ ops' = ops + 1
    /\ file' = new
    /\ dirty' = TRUE
    /\ slipped' = (slipped \/ Saving # {})
    /\ call' = [call EXCEPT ![a] = next]
    /\ UNCHANGED <<up, notices, saver, disk, crashes, overlapped>>

Notify == [at |-> "notify"]

SetConfigValue(a, mode) == Change(a, [file EXCEPT !.mode = mode], Idle)

SetDefaultMode(a, s) ==
    /\ Has(file.services, "id", s)
    /\ Change(a, [file EXCEPT !.mode = s], Idle)

CreateService(a, s) ==
    Change(a, IF Has(file.services, "id", s) THEN file
              ELSE [file EXCEPT !.services = Append(@, [id |-> s, strategy |-> "round_robin"])],
           Notify)

SetServiceRoutingStrategy(a, s, strategy) ==
    /\ Has(file.services, "id", s)
    /\ Change(a, [file EXCEPT !.services[IndexOf(file.services, "id", s)].strategy = strategy], Notify)

(* A base_url that is the default one of a known endpoint is stored empty. *)
StoredUrl(endpoint, url) == IF endpoint = "known" /\ url = "default" THEN "none" ELSE url

CreateProvider(a, form, models) ==
    Change(a, [file EXCEPT !.providers = Put(@, "name",
                 [form EXCEPT !.enabled = TRUE, !.models = models,
                              !.url = StoredUrl(form.endpoint, form.url)])],
           Notify)

(* What is given of the URL, the key and the models of a form replaces     *)
(* that of the entry.                                                      *)
Replaceable == {"url", "key", "models"}

UpdateProviderByName(a, form, given) ==
    /\ Has(file.providers, "name", form.name)
    /\ LET i == IndexOf(file.providers, "name", form.name)
           old == file.providers[i]
           new == [old EXCEPT !.url = IF "url" \in given THEN StoredUrl(old.endpoint, form.url) ELSE @,
                              !.key = IF "key" \in given THEN form.key ELSE @,
                              !.models = IF "models" \in given THEN form.models ELSE @]
       IN  Change(a, [file EXCEPT !.providers[i] = new], Notify)

(* Mutant: the bindings of a deleted provider stay.                        *)
DeleteProviderAlone(a, p) ==
    /\ Has(file.providers, "name", p)
    /\ Change(a, [file EXCEPT !.providers = Retain(@, "name", p)], Notify)

DeleteProviderByName(a, p) ==
    /\ Has(file.providers, "name", p)
    /\ Change(a, [file EXCEPT !.providers = Retain(@, "name", p), !.bindings = Retain(@, "provider", p)],
              Notify)

(* Alone among the changes of a provider, this one asks for no core sync.  *)
SetProviderModelOptions(a, i, models) ==
    /\ i \in DOMAIN file.providers
    /\ Change(a, [file EXCEPT !.providers[i].models = models], Idle)

(* bind_provider_to_service: a provider is named by its position.          *)
BindLookup(a, s, i, priority) ==
    /\ up /\ call[a].at = "idle" /\ ops < MaxOps
    /\ i \in DOMAIN file.providers
    /\ call' = [call EXCEPT ![a] = [at |-> "bind", entry |->
                  [service |-> s, provider |-> file.providers[i].name, priority |-> priority]]]
    /\ ops' = ops + 1
    /\ UNCHANGED <<config, up, notices, saver, disk, crashes, overlapped>>

(* Mutant: an updated binding does not mark the store dirty.               *)
BindWriteSilently(a) ==
    /\ call[a].at = "bind"
    /\ LET e == call[a].entry
           i == SelectInSeq(file.bindings, LAMBDA b : b.service = e.service /\ b.provider = e.provider)
       IN  /\ file' = [file EXCEPT !.bindings = IF i = 0 THEN Append(@, e) ELSE [@ EXCEPT ![i] = e]]
           /\ dirty' = (dirty \/ i = 0)
    /\ slipped' = (slipped \/ Saving # {})
    /\ call' = [call EXCEPT ![a] = Notify]
    /\ UNCHANGED <<up, notices, saver, disk, ops, crashes, overlapped>>

BindWrite(a) ==
    /\ call[a].at = "bind"
    /\ LET e == call[a].entry
           i == SelectInSeq(file.bindings, LAMBDA b : b.service = e.service /\ b.provider = e.provider)
       IN  file' = [file EXCEPT !.bindings = IF i = 0 THEN Append(@, e) ELSE [@ EXCEPT ![i] = e]]
    /\ dirty' = TRUE
    /\ slipped' = (slipped \/ Saving # {})
    /\ call' = [call EXCEPT ![a] = Notify]
    /\ UNCHANGED <<up, notices, saver, disk, ops, crashes, overlapped>>

RequestCoreSync(a) ==
    /\ call[a].at = "notify"
    /\ notices' = notices + 1
    /\ call' = [call EXCEPT ![a] = Idle]
    /\ UNCHANGED <<config, up, saver, disk, ops, crashes, overlapped>>

(* Mutant: a key created again starts with its whole quota.                *)
CreateApiKeyAfresh(a, k, s) ==
    Change(a, [file EXCEPT !.api_keys = Put(@, "key", [key |-> k, service |-> s, used |-> 0])], Idle)

(* A key that exists keeps the quota it has used.                          *)
CreateApiKey(a, k, s) ==
    LET i == IndexOf(file.api_keys, "key", k)
        used == IF i = 0 THEN 0 ELSE file.api_keys[i].used
    IN  Change(a, [file EXCEPT !.api_keys = Put(@, "key", [key |-> k, service |-> s, used |-> used])], Idle)

RebindApiKeyService(a, k, s) ==
    /\ Has(file.services, "id", s) /\ Has(file.api_keys, "key", k)
    /\ LET i == IndexOf(file.api_keys, "key", k)
       IN  /\ file.api_keys[i].service # s
           /\ Change(a, [file EXCEPT !.api_keys[i].service = s], Idle)

IncrementUsedQuota(a, k) ==
    /\ Has(file.api_keys, "key", k)
    /\ Change(a, [file EXCEPT !.api_keys[IndexOf(file.api_keys, "key", k)].used = @ + 1], Idle)

Administer(a) ==
    \/ \E s \in Services :
         \/ SetConfigValue(a, s) \/ SetDefaultMode(a, s) \/ CreateService(a, s)
         \/ SetServiceRoutingStrategy(a, s, "fallback")
         \/ SetServiceRoutingStrategy(a, s, "weighted")
         \/ \E k \in Keys : CreateApiKey(a, k, s) \/ RebindApiKeyService(a, k, s)
         \/ \E i \in DOMAIN file.providers, n \in Priorities : BindLookup(a, s, i, n)
    \/ \E form \in Forms : \/ \E m \in Models : CreateProvider(a, form, m)
                           \/ \E given \in SUBSET Replaceable : UpdateProviderByName(a, form, given)
                           \/ DeleteProviderByName(a, form.name)
    \/ \E i \in DOMAIN file.providers, m \in Models : SetProviderModelOptions(a, i, m)
    \/ \E k \in Keys : IncrementUsedQuota(a, k)
    \/ BindWrite(a) \/ RequestCoreSync(a)
-----------------------------------------------------------------------------
(* persist.  The name of the temporary file is the same for every save:    *)
(* whoever opens it truncates what stands behind the name.                 *)
SaveCopy(s) ==
    /\ up /\ dirty /\ saver[s].at = "idle"
    /\ saver' = [saver EXCEPT ![s] = [at |-> "copied", copy |-> file]]
    /\ slipped' = (slipped /\ Saving # {})
    /\ UNCHANGED <<file, dirty, up, call, notices, disk, ops, crashes, overlapped>>

SaveOpen(s) ==
    /\ saver[s].at = "copied"
    /\ LET held == {saver[t].inode : t \in {t \in Saving : saver[t].at \in {"opened", "written"}}}
           free == Inodes \ ({disk.path, disk.tmp} \union held)
           i == IF disk.tmp # Missing THEN disk.tmp ELSE CHOOSE j \in free : TRUE
       IN  /\ disk' = [disk EXCEPT !.tmp = i, !.data[i] = Torn]
           /\ saver' = [saver EXCEPT ![s] = [at |-> "opened", copy |-> @.copy, inode |-> i]]
           /\ overlapped' = (overlapped \/ held # {})
    /\ UNCHANGED <<config, up, call, notices, ops, crashes>>

SaveWrite(s) ==
    /\ saver[s].at = "opened"
    /\ disk' = [disk EXCEPT !.data[saver[s].inode] = saver[s].copy]
    /\ saver' = [saver EXCEPT ![s].at = "written"]
    /\ UNCHANGED <<config, up, call, notices, ops, crashes, overlapped>>

(* Two saves past this point at once: the second finds no temporary file.  *)
SaveRename(s) ==
    /\ saver[s].at = "written"
    /\ disk.tmp # Missing
    /\ disk' = [disk EXCEPT !.path = disk.tmp, !.tmp = Missing]
    /\ saver' = [saver EXCEPT ![s] = [at |-> "renamed"]]
    /\ UNCHANGED <<config, up, call, notices, ops, crashes, overlapped>>

SaveDone(s) ==
    /\ saver[s].at = "renamed"
    /\ dirty' = FALSE
    /\ saver' = [saver EXCEPT ![s] = Idle]
    /\ UNCHANGED <<file, slipped, up, call, notices, disk, ops, crashes, overlapped>>

(* An error of the file system leaves the store dirty.                     *)
SaveFails(s) ==
    /\ saver[s].at \in {"copied", "opened", "written"}
    /\ saver' = [saver EXCEPT ![s] = Idle]
    /\ UNCHANGED <<config, up, call, notices, disk, ops, crashes, overlapped>>

Save(s) == SaveCopy(s) \/ SaveOpen(s) \/ SaveWrite(s) \/ SaveRename(s) \/ SaveDone(s) \/ SaveFails(s)

Crash ==
    /\ up /\ crashes < MaxCrashes
    /\ up' = FALSE
    /\ crashes' = crashes + 1
    /\ file' = EmptyFile
    /\ dirty' = FALSE
    /\ slipped' = FALSE
    /\ call' = [a \in Admins |-> Idle]
    /\ saver' = [s \in Savers |-> Idle]
    /\ notices' = 0
    /\ UNCHANGED <<disk, ops, overlapped>>

(* load: a missing file is an empty configuration, a torn one an error.    *)
Load ==
    /\ ~ up /\ OnDisk # Torn
    /\ file' = OnDisk
    /\ up' = TRUE
    /\ UNCHANGED <<dirty, call, notices, saver, disk, ops, crashes, slipped, overlapped>>

StoreNext ==
    \/ \E a \in Admins : Administer(a)
    \/ \E s \in Savers : Save(s)
    \/ Crash \/ Load

StoreSpec == Init /\ [][StoreNext]_vars
-----------------------------------------------------------------------------
(* select_all_providers_for_service: bound, enabled, of the protocol, by   *)
(* priority; bindings of equal priority keep their order.                  *)
SelectAllProviders(s, protocol) ==
    LET list == file.bindings
        bound == Where(list, "service", s)
        order == Arrange(bound, {e \in bound \X bound :
                                   \/ list[e[1]].priority < list[e[2]].priority
                                   \/ list[e[1]].priority = list[e[2]].priority /\ e[1] <= e[2]})
        names == [n \in DOMAIN order |-> list[order[n]].provider]
        Serves(p) == p.enabled /\ (protocol = "any" \/ p.type = protocol)
    IN  Pick(names, {n \in DOMAIN names : \E i \in DOMAIN file.providers :
                        file.providers[i].name = names[n] /\ Serves(file.providers[i])})

(* A store that calls itself clean has its configuration on disk, whole:   *)
(* every change is either saved or still marked dirty.  The exceptions are *)
(* a change that falls between the copy of a save and the moment the save  *)
(* clears the flag (store.rs:73), and saves that overlap.  And however a   *)
(* save fails or the process dies, the file stays one that was saved as a  *)
(* whole, so that the gateway starts again: only two saves at once, which  *)
(* share the name of the temporary file, can tear it.                      *)
CleanMeansSaved ==
    /\ (up /\ ~ dirty) => OnDisk = file \/ slipped \/ overlapped
    /\ OnDisk = Torn => overlapped

Dangling == {b \in ToSet(file.bindings) : ~ Has(file.providers, "name", b.provider)}

(* Recreating a key, rebinding it or failing to save never gives back the  *)
(* quota it has used: only a crash forgets it, down to what was saved.     *)
QuotaNeverRefilled ==
    [][\A i \in DOMAIN file.api_keys :
          up /\ up' => \E j \in DOMAIN file.api_keys' :
                          /\ file'.api_keys[j].key = file.api_keys[i].key
                          /\ file'.api_keys[j].used >= file.api_keys[i].used]_vars

(* A binding loses its provider, and with it its service the whole pool,   *)
(* only when a bind is overtaken by the deletion of the provider it has    *)
(* already looked up: no deletion leaves a binding behind.                 *)
DanglingOnlyByRace ==
    [][\A b \in Dangling' \ Dangling :
          \/ ~ up
          \/ \E a \in Admins : call[a].at = "bind" /\ call[a].entry = b]_vars
=============================================================================
