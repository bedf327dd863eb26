-------------------------- MODULE MCPrefixRouting --------------------------
(* PrefixRouting with the values TLC checks it for: the deployments of the  *)
(* example settings; a prompt of three blocks, its first two, another one   *)
(* that shares the first, and one that begins with what is the second block *)
(* of these, its image encoded otherwise.  Blocks have two units.           *)
EXTENDS PrefixRouting, TLC

E == INSTANCE Example

InOrder == ("a::llama" :> 1) @@ ("b::llama" :> 2) @@ ("c::llama" :> 3)
Weights == ("a::llama" :> 2) @@ ("b::llama" :> 1) @@ ("c::llama" :> 0)
Prices == ("a::llama" :> 2) @@ ("b::llama" :> 1) @@ ("c::llama" :> 1)
ThreeReplicas == DOMAIN InOrder

ASSUME SettingsGiveReplicas ==
    LET chat == E!States(E!ExampleSettings, "chat")
    IN  /\ ThreeReplicas = DOMAIN chat
        /\ \A r \in ThreeReplicas :
              /\ InOrder[r] = E!PlaceOf(E!ExampleSettings, "chat", r)
              /\ Weights[r] = chat[r].weight /\ Prices[r] = E!CostPer1k(chat[r])

Plain(strategy) ==
    [strategy |-> strategy, coldFallback |-> "least_busy", deployments |-> ThreeReplicas]
PrefixAware(fallback) ==
    [strategy |-> "prefix_kv_aware", coldFallback |-> fallback, deployments |-> {r \in ThreeReplicas : InOrder[r] < 3}]
EveryStrategy ==
    {Plain(s) : s \in {"round_robin", "weighted", "latency", "least_busy", "cost"}}
        \cup {PrefixAware("least_busy")}

Word(w) == [kind |-> "word", value |-> w]
Image(type) == [kind |-> "image", value |-> [type |-> type, payload |-> "cat"]]
Message(role, content) == [role |-> role, content |-> content]
Brief == Message("system", <<Word("brief")>>)
SharedPrefix == {
    <<Brief, Message("user", <<Image("png")>>), Message("assistant", << >>)>>,
    <<Brief, Message("user", <<Image("png")>>)>>,
    <<Brief, Message("user", << >>)>>,
    <<Message("user", <<Image("webp")>>)>> }
=============================================================================
