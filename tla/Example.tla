------------------------------ MODULE Example ------------------------------
(* The settings that the models of the gateway's parts are checked for: a   *)
(* model with three deployments, one of them configured twice, a tenant     *)
(* with two capped keys, one of them read from the environment, and a       *)
(* tenant without a cap.                                                    *)
EXTENDS Configuration

Literal(text) == <<[kind |-> "literal", text |-> text]>>
Variable(name, default) == <<[kind |-> "placeholder", name |-> name, default |-> default]>>
Environment == [ACME_KEY |-> "acme-2"]

Deployment(provider, weight, input) ==
    [provider |-> provider, model |-> "llama", weight |-> weight,
     cost_per_1k_input |-> input, cost_per_1k_output |-> 0]
ApiKey(text, tenant, rpm, budget) ==
    [key |-> ExpandEnv(text, Environment), tenant |-> tenant, rpm |-> rpm, budget_usd |-> budget]

ExampleSettings ==
    [providers |-> <<[name |-> "a"], [name |-> "b"], [name |-> "c"]>>,
     models |-> <<[name |-> "chat", deployments |->
         <<Deployment("a", 9, 9), Deployment("b", 1, 1), Deployment("c", 0, 1),
           Deployment("a", 2, 2)>>]>>,
     auth |-> [enabled |-> TRUE, api_keys |->
         <<ApiKey(Literal("acme-1"), "acme", None, 1),
           ApiKey(Variable("ACME_KEY", "none"), "acme", 2, 2),
           ApiKey(Literal("zeta") \o Variable("SUFFIX", "-1"), "zeta", None, None)>>],
     budget |-> [enabled |-> TRUE, default_usd |-> None, window_s |-> 2],
     ratelimit |-> [default_rpm |-> 1, burst |-> 5]]
=============================================================================
