--------------------------- MODULE RequestChecks ---------------------------
(***************************************************************************)
(* The stateless checks of GuardFairing::evaluate, in the order they run.  *)
(*                                                                         *)
(* A request is a record q.  What the checks would find in its data is the *)
(* set q.fails; whether a check runs at all (the route's bypasses, what    *)
(* another check decided, the passive switches) is decided here.           *)
(***************************************************************************)
EXTENDS GuardStage, FiniteSetsExt

CONSTANTS
    Listing,    \* address -> what the global IP gate's lists say of it
    Endpoints   \* the methods and paths requests name

ASSUME ListingAssumption ==
    Listing \in [Ips -> {"plain", "denied", "whitelisted", "exempt"}]

\* The stage checks come from the engine's own stages ("_stage" and the
\* unsuffixed ones), the "_route" ones from the route's carrier.
RouteIpOrder == <<"ip_invalid", "ip_route", "country_route", "ip_global">>

GateOrder ==
    <<"emergency", "https_stage", "https_route", "headers_route",
      "headers_stage", "referrer_route", "referrer_stage", "validator_route",
      "validator_stage", "window_route", "window_stage", "scan_panic">>

LateOrder ==
    <<"geo", "cloud_invalid", "cloud", "agent_route", "agent_invalid",
      "agent_stage">>

\* The names the first check of order that holds.
FirstOf(order, Holds(_)) ==
    LET holding == {i \in DOMAIN order : Holds(order[i])}
    IN IF holding = {} THEN "none" ELSE order[Min(holding)]

ChecksOf(order) == {order[i] : i \in DOMAIN order}

Checks == ChecksOf(RouteIpOrder) \cup ChecksOf(GateOrder)
            \cup ChecksOf(LateOrder) \cup {"custom_request"}

RouteChecks == {"ip_invalid", "ip_route", "country_route", "https_route",
                "headers_route", "referrer_route", "validator_route",
                "window_route", "cloud_invalid", "agent_route", "agent_invalid"}

\* The checks of the stages the host supplies, each built with a passive switch
\* of its own.
StageChecks == Checks \ (RouteChecks \cup {"ip_global", "scan_panic"})

Kind == {"unrouted", "open", "block", "body", "both"}
Bypasses == {"all", "ip", "ip_ban", "rate_limit", "penetration", "clouds"}

NoCap == -1

Request ==
    [ip : Ips \cup {NoIp},
     endpoint : Endpoints,
     kind : Kind,              \* the guards of the route it is routed to
     excluded : BOOLEAN,       \* its path is in exclude_paths
     preflight : BOOLEAN,      \* OPTIONS with access-control-request-method
     bypass : SUBSET Bypasses, \* the carrier's bypassed_checks
     badRates : BOOLEAN,       \* the carrier's rate view does not validate
     usage : BOOLEAN,          \* the carrier has a usage rule that bans
     ipList : BOOLEAN,         \* the carrier configures ip_whitelist
     countryList : BOOLEAN,    \* the carrier configures whitelist_countries
     detect : {"default", "on", "off"}, \* the carrier's toggle, if it has one
     cap : Int,                \* the carrier's max_request_size, or NoCap
     fails : SUBSET Checks,
     code : Nat,               \* the status a validator or custom check answers
     meta : {"clean", "threat", "panic"},
     body : {"blank", "clean", "threat", "panic", "broken"},
     size : Nat,               \* bytes of the body, or of what came of it
     reply : {200, 404}]       \* the status its handler answers

----------------------------------------------------------------------------

\* carrier_bypasses.
Bypassed(q, check) == q.bypass \cap {"all", check} # {}

\* The metadata scan runs: a carrier's toggle overrides the global one.
MetadataScanned(q) ==
    /\ ~Bypassed(q, "penetration")
    /\ IF q.detect = "default" THEN cfg.detection ELSE q.detect = "on"

\* The bypass that skips a check.
BypassOf(c) ==
    CASE c \in ChecksOf(RouteIpOrder) \cup {"geo"} -> "ip"
      [] c \in {"cloud_invalid", "cloud"} -> "clouds"
      [] OTHER -> "never"

\* Mutant: the global gate and the HTTPS arm forget passive_mode.
SilencedStages == cfg.silent

\* Checks that refuse nothing: those of the stages that were built passive,
\* whatever the fairing's own switch says, and, where that one is on, the two
\* that read it: the global gate and the HTTPS arm without a stage.
Silenced == cfg.silent \cup (IF cfg.passive THEN {"ip_global", "https_route"} ELSE {})

\* The global gate runs for this request.
GlobalGateRuns(q) ==
    /\ cfg.gate
    /\ q.ip \in Ips
    /\ ~Bypassed(q, "ip")
    /\ ~q.ipList

\* What the data alone says: the check would refuse the request.
Finds(q, c) ==
    CASE c = "ip_global" -> GlobalGateRuns(q) /\ Listing[q.ip] = "denied"
      [] c = "scan_panic" -> MetadataScanned(q) /\ q.meta = "panic"
      [] OTHER -> c \in q.fails

\* The geo, cloud and agent checks pass a whitelisted or exempt address; a
\* cloud selector that does not parse refuses it all the same.
SkippedFor(q, gate, c) ==
    \/ Skips(gate) /\ c \in {"geo", "cloud", "agent_route", "agent_invalid", "agent_stage"}
    \/ q.countryList /\ c = "geo"

Refuses(q, gate, c) ==
    /\ Finds(q, c)
    /\ c \in {"https_route", "https_stage"} => (cfg.httpsStage <=> c = "https_stage")
    /\ BypassOf(c) = "never" \/ ~Bypassed(q, BypassOf(c))
    /\ c \notin Silenced
    /\ ~SkippedFor(q, gate, c)

FirstRefusal(q, gate, order) ==
    LET Refusing(c) == Refuses(q, gate, c) IN FirstOf(order, Refusing)

\* The verdict of a refusing check; "none" refuses nothing.
CheckVerdict(q, c) ==
    CASE c = "none" -> NoVerdict
      [] c \in {"ip_invalid", "cloud_invalid", "agent_invalid", "scan_panic"} -> Failed
      [] c = "ip_global" -> Plain("IpBlocked")
      [] c = "emergency" -> StageBlock(503)
      [] c \in {"https_stage", "https_route"} -> Plain("HttpsRedirect")
      [] c \in {"headers_route", "headers_stage", "validator_route",
                "validator_stage", "custom_request"} -> StageBlock(q.code)
      [] OTHER -> StageBlock(403)

\* The body stage_block records for it, or the custom 403 of the gate.
CheckBody(c) ==
    CASE c \in {"none", "ip_invalid", "cloud_invalid", "agent_invalid",
                "scan_panic", "https_stage", "https_route"} -> "none"
      [] c = "ip_global" -> IF 403 \in cfg.custom THEN "custom" ELSE "none"
      [] OTHER -> "stage"

=============================================================================
