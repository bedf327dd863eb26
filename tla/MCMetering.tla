----------------------------- MODULE MCMetering -----------------------------
(* Gateway and its meters with deployments and handlers that are             *)
(* interchangeable: no action orders them, so permuting them is a symmetry.  *)
(* Or with the deployments and attempts of settings that have one provider   *)
(* for two deployments of a model.                                           *)
EXTENDS Metering, Configuration, TLC

Symmetry == Permutations(Tasks) \cup Permutations(Deps)

OneProvider ==
    [providers |-> <<[name |-> "openai"]>>,
     models |-> <<[name |-> "chat", deployments |->
         <<[provider |-> "openai", model |-> "gpt-4o"],
           [provider |-> "openai", model |-> "gpt-4o-mini"]>>]>>]
OneProviderDeps == {"openai::gpt-4o", "openai::gpt-4o-mini"}

ASSUME OneProviderGives ==
    /\ OneProviderDeps = DOMAIN States(OneProvider, "chat")
    /\ ProvidersDeclared(OneProvider, "chat")

OneProviderAttempts == MaxAttemptsOf(OneProvider)
=============================================================================
