---------------------------- MODULE MCPipeline ----------------------------
(* Pipeline on a small instance. *)
EXTENDS Pipeline

CONSTANTS c1, c2

TwoCallers == {c1, c2}

FallbackOutside == <<"telemetry", "fallback", "cache", "chaos">>
CacheOutside == <<"cache", "telemetry", "fallback">>
ChaosOutside == <<"chaos", "cache", "fallback">>
Unguarded == <<"telemetry", "cache">>
Orders == {FallbackOutside, CacheOutside, ChaosOutside, Unguarded}

ResultValues == {"value", "bad", "default"}
=============================================================================
