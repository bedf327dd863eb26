----------------------------- MODULE MCGateway -----------------------------
(* Gateway with the deployments and attempts that its built-in settings give.*)
EXTENDS Gateway, Configuration

DefaultDeps == {"mock-fast::mock-fast", "mock-smart::mock-smart"}

ASSUME SettingsGiveDeps ==
    /\ DefaultDeps = DOMAIN States(DefaultSettings, "demo")
    /\ ProvidersDeclared(DefaultSettings, "demo")

DefaultAttempts == MaxAttemptsOf(DefaultSettings)
=============================================================================
