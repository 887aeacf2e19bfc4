---------------------------- MODULE MCApplication ---------------------------
(***************************************************************************)
(* Instances of the application for TLC.                                   *)
(***************************************************************************)
EXTENDS Application

CONSTANT r1

Bare ==
    [passive |-> FALSE, penetration |-> TRUE, lists |-> "none", rate |-> "off",
     emergency |-> "off", agents |-> "none"]

Everything ==
    [Bare EXCEPT !.lists = "valid", !.rate = "valid",
                 !.emergency = "valid", !.agents = "valid"]

MCSecurityConfigs ==
    {Everything, [Everything EXCEPT !.passive = TRUE],
     [Bare EXCEPT !.penetration = FALSE, !.agents = "unsafe"],
     [Bare EXCEPT !.lists = "invalid"]}

MCProviders == <<"AWS", "GCP">>

=============================================================================
