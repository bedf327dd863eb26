---------------------------- MODULE Configuration ----------------------------
(***************************************************************************)
(* What the settings of a gateway (config.py) make of it: the deployments  *)
(* of a model and the attempts a request has for them (Router.__init__,    *)
(* GatewayService.__init__), and who a client is (app.py,                  *)
(* middleware/auth.py).                                                    *)
(*                                                                         *)
(* Settings are records with the fields of the code's classes; an optional *)
(* field that is not set is None.  A text of the configuration file is a   *)
(* sequence of parts, literal texts and placeholders for variables.        *)
(***************************************************************************)
EXTENDS Integers, Sequences, FiniteSetsExt

CONSTANT None

-----------------------------------------------------------------------------
(* Loading *)

\* A variable that is set to an empty text is set: its default is not taken.
Expanded(part, environment) ==
    CASE part.kind = "literal" -> part.text
      [] part.kind = "placeholder" /\ part.name \in DOMAIN environment -> environment[part.name]
      [] part.kind = "placeholder" /\ part.name \notin DOMAIN environment ->
             IF part.default = None THEN "" ELSE part.default

\* _expand_env, for one text of the file.
ExpandEnv(text, environment) ==
    LET joined[n \in 0..Len(text)] ==
            IF n = 0 THEN "" ELSE joined[n - 1] \o Expanded(text[n], environment)
    IN  joined[Len(text)]

\* A dictionary made of a list: of items with one key the last is kept.
Keyed(items, keys) ==
    [k \in {keys[i] : i \in DOMAIN items} |->
        items[Max({i \in DOMAIN items : keys[i] = k})]]

ProviderMap(settings) ==
    LET providers == settings.providers
    IN  Keyed(providers, [i \in DOMAIN providers |-> providers[i].name])
ModelMap(settings) ==
    LET models == settings.models
    IN  Keyed(models, [i \in DOMAIN models |-> models[i].name])

-----------------------------------------------------------------------------
(* Routing *)

DeploymentKey(deployment) == deployment.provider \o "::" \o deployment.model

\* Router.__init__: one state for each key.
States(settings, model) ==
    LET deployments == ModelMap(settings)[model].deployments
    IN  Keyed(deployments, [i \in DOMAIN deployments |-> DeploymentKey(deployments[i])])

\* The order of the states: a key keeps the place where it came first.
PlaceOf(settings, model, key) ==
    LET deployments == ModelMap(settings)[model].deployments
    IN  Min({i \in DOMAIN deployments : DeploymentKey(deployments[i]) = key})

MaxAttemptsOf(settings) ==
    IF Len(settings.providers) > 1 THEN Len(settings.providers) ELSE 1

CostPer1k(deployment) == deployment.cost_per_1k_input + deployment.cost_per_1k_output

\* provider_for finds a provider for each deployment of the model.
ProvidersDeclared(settings, model) ==
    \A key \in DOMAIN States(settings, model) :
        States(settings, model)[key].provider \in DOMAIN ProviderMap(settings)

\* default_settings: what matters to routing.  Costs are in 1/10000 dollars.
DefaultSettings ==
    [providers |-> <<[name |-> "mock-fast"], [name |-> "mock-smart"]>>,
     models |-> <<[name |-> "demo", deployments |->
         <<[provider |-> "mock-fast", model |-> "mock-fast", weight |-> 2,
            cost_per_1k_input |-> 5, cost_per_1k_output |-> 15],
           [provider |-> "mock-smart", model |-> "mock-smart", weight |-> 1,
            cost_per_1k_input |-> 30, cost_per_1k_output |-> 60]>>]>>]

-----------------------------------------------------------------------------
(* Clients *)

ApiKeyMap(settings) ==
    LET entries == settings.auth.api_keys
    IN  Keyed(entries, [i \in DOMAIN entries |-> entries[i].key])

Anonymous == [tenant |-> "anonymous", rpm |-> None, budget_usd |-> None]

\* Who an Authorization header, a scheme and a token, stands for.
Principal(settings, header) ==
    IF ~settings.auth.enabled THEN Anonymous
    ELSE LET entry == ApiKeyMap(settings)[header.token]
         IN  [tenant |-> entry.tenant, rpm |-> entry.rpm, budget_usd |-> entry.budget_usd]

\* The others get 401.
Authenticated(settings, header) ==
    settings.auth.enabled =>
        /\ header.scheme = "bearer"
        /\ header.token \in DOMAIN ApiKeyMap(settings)

\* The cap of a principal: its own, or the default.
CapOf(settings, principal) ==
    IF ~settings.budget.enabled THEN None
    ELSE IF principal.budget_usd = None THEN settings.budget.default_usd
    ELSE principal.budget_usd
=============================================================================
