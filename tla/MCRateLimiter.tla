---------------------------- MODULE MCRateLimiter ----------------------------
(* RateLimiter for the two keys of a tenant in the example settings: one has *)
(* a rate of its own, the other the default.                                 *)
EXTENDS RateLimiter, Example, TLC

OwnRpm == ("acme-1" :> 0) @@ ("acme-2" :> 2)
TenantKeys == DOMAIN OwnRpm
ExampleRpm == ExampleSettings.ratelimit.default_rpm
ExampleBurst == ExampleSettings.ratelimit.burst

ASSUME SettingsGiveRates ==
    LET Of(k) == Principal(ExampleSettings, [scheme |-> "bearer", token |-> k])
    IN  /\ TenantKeys = {k \in DOMAIN ApiKeyMap(ExampleSettings) : Of(k).tenant = "acme"}
        /\ \A k \in TenantKeys : OwnRpm[k] = IF Of(k).rpm = None THEN 0 ELSE Of(k).rpm
=============================================================================
