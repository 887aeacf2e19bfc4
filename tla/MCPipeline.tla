----------------------------- MODULE MCPipeline -----------------------------
(***************************************************************************)
(* Instances of the pipeline for TLC: the addresses, the requests clients  *)
(* may send and the configurations of the fairing.                         *)
(***************************************************************************)
EXTENDS PipelineProperties, DocumentedClaims, TLC

\* One address for each answer of the global IP gate.
AllIps == {"plain", "denied", "whitelisted", "exempt"}
OneIp == {"plain"}

MCListing == [ip \in Ips |-> ip]

MCEndpoints == {"page", "api"}

\* A request nothing objects to, to a route behind both guards.
Harmless ==
    [ip |-> "plain", endpoint |-> "page", kind |-> "both", excluded |-> FALSE,
     preflight |-> FALSE, bypass |-> {}, badRates |-> FALSE, usage |-> FALSE,
     ipList |-> FALSE, countryList |-> FALSE, detect |-> "default", cap |-> NoCap,
     fails |-> {}, code |-> 401, meta |-> "clean", body |-> "clean", size |-> 1,
     reply |-> 200]

Attack == [Harmless EXCEPT !.meta = "threat"]
BodyAttack == [Harmless EXCEPT !.body = "threat"]
ListedPayload == [BodyAttack EXCEPT !.ip = "whitelisted", !.kind = "body"]

\* A request is named by the checks that object to it, at most two, ...
Objections ==
    LET objecting == Checks \ {"ip_global", "scan_panic"}
    IN {{c, d} : c \in objecting, d \in objecting}

\* ... or by a nickname: requests that take the other branches, ...
Branching ==
    [harmless |-> Harmless,
     attack |-> [Attack EXCEPT !.kind = "block"],
     body_attack |-> BodyAttack,
     meta_panic |-> [Harmless EXCEPT !.meta = "panic"],
     body_panic |-> [Harmless EXCEPT !.body = "panic", !.kind = "body"],
     broken |-> [Harmless EXCEPT !.body = "broken", !.kind = "body"],
     at_cap |-> [Harmless EXCEPT !.size = 2],
     over_cap |-> [Harmless EXCEPT !.size = 3],
     over_route_cap |-> [Harmless EXCEPT !.size = 2, !.cap = 1, !.kind = "body"],
     under_route_cap |-> [Harmless EXCEPT !.size = 3, !.cap = 3],
     blank_attack |-> [Attack EXCEPT !.body = "blank", !.detect = "off"],
     excluded_attack |-> [Attack EXCEPT !.excluded = TRUE, !.kind = "block"],
     excluded_body |-> [BodyAttack EXCEPT !.excluded = TRUE, !.kind = "body"],
     preflight |-> [Attack EXCEPT !.preflight = TRUE, !.kind = "unrouted"],
     no_scan |-> [Attack EXCEPT !.bypass = {"penetration"}, !.kind = "block"],
     route_scan |-> [Attack EXCEPT !.detect = "on"],
     bypass_all |-> [Attack EXCEPT !.bypass = {"all"}, !.fails = {"cloud", "geo"}],
     bypass_ip |-> [Harmless EXCEPT !.bypass = {"ip"}, !.ip = "denied"],
     bypass_tiers |-> [Attack EXCEPT !.bypass = {"rate_limit"}],
     bad_rates |-> [Harmless EXCEPT !.badRates = TRUE],
     usage |-> [Harmless EXCEPT !.usage = TRUE],
     denied |-> [Harmless EXCEPT !.ip = "denied", !.kind = "block"],
     route_lists |-> [Harmless EXCEPT !.ip = "denied", !.ipList = TRUE,
                            !.countryList = TRUE, !.fails = {"geo"}],
     whitelisted |-> [Harmless EXCEPT !.ip = "whitelisted", !.body = "threat",
                            !.fails = {"geo", "agent_stage"}],
     listed_excluded |-> [ListedPayload EXCEPT !.excluded = TRUE],
     listed_preflight |-> [ListedPayload EXCEPT !.preflight = TRUE],
     listed_bypass |-> [ListedPayload EXCEPT !.bypass = {"ip"}],
     listed_route |-> [ListedPayload EXCEPT !.ipList = TRUE, !.meta = "threat"],
     refused_payload |-> [BodyAttack EXCEPT !.fails = {"geo"}, !.kind = "body"],
     exempt |-> [Harmless EXCEPT !.ip = "exempt", !.fails = {"cloud"}],
     bad_cloud |-> [Harmless EXCEPT !.ip = "exempt", !.fails = {"cloud_invalid"}],
     unattributed |-> [Harmless EXCEPT !.ip = NoIp, !.usage = TRUE, !.kind = "block"],
     absent |-> [Harmless EXCEPT !.reply = 404],
     two_fail |-> [Harmless EXCEPT !.fails = {"https_stage", "agent_stage"}],
     late_panic |-> [Harmless EXCEPT !.meta = "panic", !.fails = {"validator_stage"},
                           !.code = 200],
     open_refused |-> [Attack EXCEPT !.kind = "open", !.reply = 404]]

\* ... requests to a path no route serves, ...
Unrouted ==
    [shield_clean |-> [Harmless EXCEPT !.kind = "unrouted"],
     shield_threat |-> [Attack EXCEPT !.kind = "unrouted"],
     shield_denied |-> [Harmless EXCEPT !.kind = "unrouted", !.ip = "denied"],
     shield_403 |-> [Harmless EXCEPT !.kind = "unrouted", !.fails = {"geo"}],
     shield_auth |-> [Harmless EXCEPT !.kind = "unrouted", !.fails = {"headers_route"}],
     shield_429 |-> [Harmless EXCEPT !.kind = "unrouted", !.fails = {"custom_request"},
                           !.code = 429],
     shield_https |-> [Harmless EXCEPT !.kind = "unrouted", !.fails = {"https_stage"}],
     shield_invalid |-> [Harmless EXCEPT !.kind = "unrouted", !.fails = {"ip_invalid"}]]

\* ... and requests that meet in the shared stores.
Sharing ==
    [clean |-> [Harmless EXCEPT !.kind = "block"],
     threat |-> [Attack EXCEPT !.kind = "block"],
     payload |-> [BodyAttack EXCEPT !.kind = "body"],
     exempt_payload |-> [BodyAttack EXCEPT !.kind = "body", !.ip = "exempt"],
     untiered |-> [Harmless EXCEPT !.kind = "block", !.bypass = {"rate_limit"}],
     usage_rule |-> [Harmless EXCEPT !.kind = "block", !.usage = TRUE],
     usage_api |-> [Harmless EXCEPT !.kind = "block", !.usage = TRUE, !.endpoint = "api"],
     custom_attack |-> [Attack EXCEPT !.kind = "block", !.fails = {"custom_request"}],
     usage_attack |-> [Attack EXCEPT !.kind = "block", !.usage = TRUE]]

ShapeOf(p) ==
    IF p \subseteq Checks THEN [Harmless EXCEPT !.fails = p, !.kind = "block"]
    ELSE LET name == CHOOSE n \in p : TRUE
         IN CASE name \in DOMAIN Branching -> Branching[name]
              [] name \in DOMAIN Unrouted -> Unrouted[name]
              [] OTHER -> Sharing[name]

MCShape == [p \in Profiles |-> ShapeOf(p)]

Nicknamed(names) == {{name} : name \in names}

ScreeningProfiles ==
    Objections \cup Nicknamed(DOMAIN Branching \cup DOMAIN Unrouted \cup DOMAIN Sharing)
ShieldProfiles ==
    Nicknamed(DOMAIN Unrouted \cup
        {"attack", "denied", "geo", "headers_route", "custom_request",
         "https_stage", "clean", "harmless", "open_refused"})
WindowProfiles == Nicknamed({"harmless"})
BanProfiles == Nicknamed({"payload", "usage_api", "usage_attack", "custom_attack",
                           "untiered", "unattributed", "route_scan"})
ClaimProfiles ==
    Nicknamed({"exempt_payload", "listed_excluded", "excluded_body", "ip_route", "clean", "shield_clean"})
LiveProfiles == Nicknamed({"harmless", "attack", "over_route_cap", "shield_threat"})

----------------------------------------------------------------------------
(* Configurations.                                                         *)

Full ==
    [attached |-> TRUE, passive |-> FALSE, silent |-> {}, detection |-> TRUE,
     gate |-> TRUE, httpsStage |-> TRUE, cors |-> TRUE, processor |-> TRUE,
     processorPassive |-> FALSE, sharedBans |-> TRUE,
     returnStatus |-> 0, bus |-> TRUE, modifier |-> "none", rate |-> TRUE,
     rateBan |-> TRUE, store |-> "memory", banning |-> TRUE, custom |-> {},
     claimed |-> {}, bodyCap |-> 2]

\* What from_security_config builds of a passive configuration: all passive.
Passive == [Full EXCEPT !.passive = TRUE, !.silent = StageChecks, !.processorPassive = TRUE]

\* What a host may put together: with_passive_mode beside enforcing parts of its
\* own, and an enforcing fairing with passive ones.
PassiveFairing == [Full EXCEPT !.passive = TRUE]
PassiveParts == [Passive EXCEPT !.passive = FALSE]

Bare ==
    [Full EXCEPT !.detection = FALSE, !.gate = FALSE, !.httpsStage = FALSE,
                 !.cors = FALSE, !.processor = FALSE, !.sharedBans = FALSE,
                 !.bus = FALSE, !.rate = FALSE, !.rateBan = FALSE, !.banning = FALSE]

\* What from_security_config builds: the processor's ban manager is its own.
FromConfig == [Full EXCEPT !.sharedBans = FALSE]

ScreeningConfigs ==
    {Full, Passive, Bare,
     [Bare EXCEPT !.passive = TRUE], PassiveParts,
     [PassiveFairing EXCEPT !.returnStatus = 404],
     [PassiveFairing EXCEPT !.silent = {"emergency", "agent_stage"},
                            !.processorPassive = TRUE],
     [Full EXCEPT !.attached = FALSE],
     [FromConfig EXCEPT !.custom = {400, 403, 429}, !.claimed = {413}],
     [Full EXCEPT !.modifier = "panics", !.returnStatus = 404]}

ShieldConfigs ==
    {Full, Bare, FromConfig,
     [Full EXCEPT !.modifier = "teapot"],
     [Full EXCEPT !.custom = {400, 403, 429}],
     [Full EXCEPT !.claimed = {400, 429}, !.processor = FALSE, !.cors = FALSE],
     [Full EXCEPT !.attached = FALSE]}

WindowConfigs == {Full, [Full EXCEPT !.store = "open"], [Full EXCEPT !.store = "closed"]}

BanConfigs ==
    {[Full EXCEPT !.returnStatus = 200], [FromConfig EXCEPT !.rate = FALSE],
     [PassiveFairing EXCEPT !.rate = FALSE]}

LiveConfigs == {[Full EXCEPT !.store = "closed"], [Passive EXCEPT !.attached = FALSE]}

ClaimConfigs == {[Full EXCEPT !.custom = {429}], Passive}

Symmetry == Permutations(Requests)

============================================================================
