---------------------------- MODULE GuardBuilder ----------------------------
(***************************************************************************)
(* What a GuardFairing is built from and what it becomes at launch: the    *)
(* with_* builders, from_security_config, build_stage and the engine that  *)
(* on_ignite hands to Rocket.                                              *)
(*                                                                         *)
(* A limiter is a handle: its clones share the window store behind it.  It *)
(* is represented by the number of that store, 0 for none.  The ban pair,  *)
(* the distributed stores and the hooks are handed on the same way and are *)
(* left out, as are the knobs no choice of this module depends on.         *)
(***************************************************************************)
EXTENDS Naturals, Sequences, FiniteSets

CONSTANT MaxStores   \* bound: the stores an application creates

ASSUME BuilderAssumption == MaxStores \in Nat \ {0}

Stores == 0..MaxStores

\* The check stages a host installs; each carries a passive switch of its own.
Stages == {"emergency_mode", "https_enforcement", "user_agent"}
Modes == {"absent", "enforcing", "passive"}
Switches == {"ip_gate", "cloud_refresh"}

\* origin is history: what the application built the fairing with, "changed"
\* once it set the mode or a stage itself.
Fairing ==
    [rate_limiter : Stores, passive_mode : BOOLEAN,
     penetration : BOOLEAN, has : SUBSET Switches, stages : [Stages -> Modes],
     origin : {"new", "enforcing", "passive", "changed"}]

RateLimitStage ==
    [limiter : Stores, passive_mode : BOOLEAN]

GuardEngine ==
    [rate_limiter : Stores, penetration : BOOLEAN,
     stage : RateLimitStage]

New ==
    [rate_limiter |-> 0, passive_mode |-> FALSE,
     penetration |-> TRUE, has |-> {}, stages |-> [s \in Stages |-> "absent"],
     origin |-> "new"]

ModeOf(passive) == IF passive THEN "passive" ELSE "enforcing"

WithIpGate(f) == [f EXCEPT !.has = @ \cup {"ip_gate"}]
WithRateLimiting(f, limiter) == [f EXCEPT !.rate_limiter = limiter]

WithPassiveMode(f, passive) ==
    [f EXCEPT !.passive_mode = passive, !.origin = "changed"]

WithPenetrationDetection(f, enabled) == [f EXCEPT !.penetration = enabled]
WithCloudRefreshScheduler(f) == [f EXCEPT !.has = @ \cup {"cloud_refresh"}]
WithStage(f, s, mode) == [f EXCEPT !.stages[s] = mode, !.origin = "changed"]

\* A SecurityConfig: the knobs whose values the engine may reject and those
\* that install something.
SecurityConfig ==
    [passive : BOOLEAN, penetration : BOOLEAN,
     lists : {"none", "valid", "invalid"},        \* whitelist, blacklist, exempt_ips
     rate : {"off", "valid", "zero"},
     emergency : {"off", "valid", "invalid"},     \* emergency_mode or its whitelist
     agents : {"none", "valid", "unsafe"}]        \* blocked_user_agents

\* A constructor of the engine refuses a value, and ? ends the build.
Rejected(c) ==
    \/ c.lists = "invalid"
    \/ c.rate = "zero"
    \/ c.emergency = "invalid"
    \/ c.agents = "unsafe"

\* The HTTPS stage is always installed, the others when the config asks.
StageModes(c) ==
    [s \in Stages |->
        IF \/ s = "emergency_mode" /\ c.emergency = "off"
           \/ s = "user_agent" /\ c.agents = "none"
        THEN "absent" ELSE ModeOf(c.passive)]

\* from_security_config for a config nothing in is rejected, with the limiter
\* created for it.
FromSecurityConfig(c, limiter) ==
    [rate_limiter |-> IF c.rate = "valid" THEN limiter ELSE 0,
     passive_mode |-> c.passive,
     penetration |-> c.penetration,
     has |-> IF c.lists = "valid" THEN {"ip_gate"} ELSE {},
     stages |-> StageModes(c),
     origin |-> ModeOf(c.passive)]

\* Mutant: the stage gets a limiter of its own, built from the config.
BuildStageApart(f) ==
    [limiter |-> IF f.rate_limiter = 0 THEN 0 ELSE MaxStores,
     passive_mode |-> f.passive_mode]

\* build_stage: without a limiter the stage is built with the switch off,
\* which is no store here.
BuildStage(f) ==
    [limiter |-> f.rate_limiter, passive_mode |-> f.passive_mode]

\* Mutant: the engine keeps the detection switch it was created with.
EngineOfUnsynced(f) ==
    [rate_limiter |-> f.rate_limiter, penetration |-> TRUE,
     stage |-> BuildStage(f)]

\* The engine on_ignite manages for the fairing.
EngineOf(f) ==
    [rate_limiter |-> f.rate_limiter, penetration |-> f.penetration,
     stage |-> BuildStage(f)]

=============================================================================
