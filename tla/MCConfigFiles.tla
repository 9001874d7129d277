----------------------------- MODULE MCConfigFiles -----------------------------
(* Provider entries and a hand-written file shared by the model-checking   *)
(* modules of the configuration.                                           *)
EXTENDS Sequences

Form(name, type, endpoint, url, key) ==
    [name |-> name, type |-> type, endpoint |-> endpoint, url |-> url, key |-> key,
     enabled |-> TRUE, models |-> "m1"]

Cloud == Form("cloud", "openai", "known", "default", TRUE)
Local == Form("local", "sglang-lite", "none", "other", FALSE)
Keyless == Form("cloud", "openai", "unknown", "none", FALSE)

MCForms == {Cloud, Keyless}

(* The first entry named local is off and hides the second.                *)
HandWritten ==
    [mode |-> "svc",
     services |-> <<[id |-> "svc", strategy |-> "fallback"]>>,
     providers |-> <<[Local EXCEPT !.enabled = FALSE], [Cloud EXCEPT !.url = "none"], Local>>,
     bindings |-> <<[service |-> "svc", provider |-> "cloud", priority |-> 1]>>,
     api_keys |-> <<[key |-> "k", service |-> "old", used |-> 1]>>]
(* All providers on; a second service has the id of the first.             *)
NoneOff == [HandWritten EXCEPT !.providers = SubSeq(@, 2, 3),
                               !.services = Append(@, [id |-> "svc", strategy |-> "weighted"])]
=============================================================================
