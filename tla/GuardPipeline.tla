--------------------------- MODULE GuardPipeline ---------------------------
(***************************************************************************)
(* A request's way through the adapter: the fairing's on_request           *)
(* (evaluate), Rocket's routing and the route's guards (BlockGuard,        *)
(* GuardBody), the handler or a catcher, and the fairing's on_response.    *)
(*                                                                         *)
(* Many requests are in flight.  A step of a request ends where it reads   *)
(* or writes a store other requests share, or where the code awaits, so    *)
(* the steps of different requests interleave at every such point.         *)
(***************************************************************************)
EXTENDS RequestChecks

CONSTANTS
    Requests,        \* request slots; each carries one request
    Profiles,        \* the requests clients may send ...
    Shape,           \* ... and what each is
    Configs,         \* the configurations the fairing may be built with
    UsageThreshold,  \* threshold of the carriers' usage rule
    UsageWindow,     \* and its window
    OperatorActs     \* what out-of-band handles do: "ban", "unban", "reset"

Config ==
    [attached : BOOLEAN,      \* the fairing is attached
     passive : BOOLEAN,       \* the fairing's switch, and so the stage's
     silent : SUBSET StageChecks,  \* of host-supplied stages built passive
     detection : BOOLEAN,     \* enable_penetration_detection
     gate : BOOLEAN,          \* a global IP gate is installed
     httpsStage : BOOLEAN,    \* an HTTPS enforcement stage is installed
     cors : BOOLEAN,          \* the response processor answers preflights
     processor : BOOLEAN,     \* a response processor is installed
     processorPassive : BOOLEAN,   \* its own passive switch
     sharedBans : BOOLEAN,    \* its ban manager is the stage's
     returnStatus : Nat,      \* status its return_pattern rule bans on; 0: none
     bus : BOOLEAN,           \* security headers and an event bus are on
     modifier : {"none", "panics", "teapot"},
     rate : BOOLEAN,
     rateBan : BOOLEAN,       \* the rate-limit auto-ban
     store : {"memory", "open", "closed"},
     banning : BOOLEAN,
     custom : SUBSET Nat,     \* statuses with a custom_error_responses body
     claimed : SUBSET Nat,    \* codes the application has a catcher for
     bodyCap : Nat]

ASSUME PipelineAssumption ==
    /\ Profiles # {}
    /\ Shape \in [Profiles -> Request]
    /\ Configs \subseteq Config
    /\ UsageThreshold \in Nat
    /\ UsageWindow \in Nat \ {0}
    /\ OperatorActs \subseteq {"ban", "unban", "reset"}
    \* Carriers, addresses and processors exist where they are used.
    /\ \A p \in Profiles : Shape[p].ip = NoIp =>
          Shape[p].fails \cap {"ip_route", "country_route", "geo", "cloud"} = {}
    /\ \A c \in Configs : c.cors => c.processor
    \* One stage runs the validators and the custom_request check.
    /\ \A c \in Configs : "validator_stage" \in c.silent <=> "custom_request" \in c.silent
    \* Unpinned by the adapter: a passive stage over a failing store.
    /\ \A c \in Configs : c.passive => c.store = "memory"

VARIABLES
    pc,         \* where each request is
    req,        \* its profile
    metadata,   \* request-local slot Metadata
    enforced,   \* request-local slot Enforced
    gate,       \* request-local slot GateDecision
    body,       \* request-local slot BlockBody
    capOf,      \* request-local slot RouteBodyCap
    preflight,  \* request-local slot PreflightAnswer is filled
    err,        \* status of the guard's error outcome, 0 for none
    resp,       \* the response composed so far
    event,      \* security_headers_applied was sent for the request
    usage,      \* endpoint and client -> times the usage rule observed them
    \* History, read by properties only:
    ran,        \* the handler ran
    hits,       \* rate-limit windows the request recorded
    spent,      \* the hit that still counts, where and when
    banHeld,    \* the address was under a live ban ever since the arrival
    barred,     \* the usage rule refused the request
    shown       \* when the usage rule was shown the request

environment == <<cfg, now, storeUp>>
stores == <<bans, counts, windows, usage>>
localVars == <<pc, req, metadata, enforced, gate, body, capOf, preflight, err,
               resp, event>>
history == <<ran, hits, spent, banHeld, barred, shown>>
vars == <<environment, stores, localVars, history>>

Labels == {"idle", "preamble", "gates", "bans", "tiers", "routing",
           "block_guard", "read", "screen", "handler", "catch", "respond",
           "done"}

NoHit == [store |-> "none", at |-> 0]

Q(r) == Shape[req[r]]

\* A connection without an address observes under the empty string.
Clients == Ips \cup {NoIp}

Init ==
    /\ cfg \in Configs
    /\ StageInit
    /\ usage = [key \in Endpoints \X Clients |-> <<>>]
    /\ pc = [r \in Requests |-> "idle"]
    /\ req = [r \in Requests |-> CHOOSE p \in Profiles : TRUE]
    /\ metadata = [r \in Requests |-> NoVerdict]
    /\ enforced = [r \in Requests |-> NoVerdict]
    /\ gate = [r \in Requests |-> "none"]
    /\ body = [r \in Requests |-> "none"]
    /\ capOf = [r \in Requests |-> NoCap]
    /\ preflight = [r \in Requests |-> FALSE]
    /\ err = [r \in Requests |-> 0]
    /\ resp = [r \in Requests |-> NoResponse]
    /\ event = [r \in Requests |-> FALSE]
    /\ ran = [r \in Requests |-> FALSE]
    /\ hits = [r \in Requests |-> 0]
    /\ spent = [r \in Requests |-> NoHit]
    /\ banHeld = [r \in Requests |-> FALSE]
    /\ barred = [r \in Requests |-> FALSE]
    /\ shown = [r \in Requests |-> 0]

----------------------------------------------------------------------------
(* Request-local slots.                                                    *)

Goto(r, label) == pc' = [pc EXCEPT ![r] = label]

\* local_cache keeps the first value written for a type.
FirstWins(slot, r, v) == [slot EXCEPT ![r] = IF @ = NoVerdict THEN v ELSE @]

\* record_block_body: the last body recorded wins, None records nothing.
Recorded(r, b) == [body EXCEPT ![r] = IF b = "none" THEN @ ELSE b]

\* The body override that rides a stage answer.
OverrideFor(v) ==
    IF v # NoVerdict /\ Status(v) \in cfg.custom THEN "custom" ELSE "none"

\* evaluate returns v: on_request stashes it and Rocket goes on to route.
Return(r, v) ==
    /\ metadata' = FirstWins(metadata, r, v)
    /\ Goto(r, "routing")

\* History: the request recorded a hit in this step.
TrackHit(r) ==
    /\ hits' = [hits EXCEPT ![r] = IF windows' # windows THEN @ + 1 ELSE @]
    /\ spent' = [spent EXCEPT ![r] =
                    IF windows' # windows THEN [store |-> Backend, at |-> now] ELSE @]

----------------------------------------------------------------------------
(* on_request.                                                             *)

\* Rocket hands a request over; without the fairing nothing is evaluated.
Arrive(r) ==
    /\ pc[r] = "idle"
    /\ \E p \in Profiles :
          /\ req' = [req EXCEPT ![r] = p]
          /\ banHeld' = [banHeld EXCEPT ![r] = Shape[p].ip \in Ips /\ LiveBan(Shape[p].ip)]
    /\ Goto(r, IF cfg.attached THEN "preamble" ELSE "routing")
    /\ UNCHANGED <<environment, stores, metadata, enforced, gate, body, capOf,
                   preflight, err, resp, event, ran, hits, spent, barred,
                   shown>>

\* exclude_paths, checked before everything else.
ExcludedPath(r) ==
    /\ pc[r] = "preamble"
    /\ Q(r).excluded
    /\ Return(r, Clean)
    /\ UNCHANGED <<environment, stores, req, enforced, gate, body, capOf,
                   preflight, err, resp, event, history>>

AnswersPreflight(r) == ~Q(r).excluded /\ Q(r).preflight /\ cfg.cors

\* The CORS preflight: its answer is stashed for on_response.
Preflight(r) ==
    /\ pc[r] = "preamble"
    /\ AnswersPreflight(r)
    /\ preflight' = [preflight EXCEPT ![r] = TRUE]
    /\ Return(r, Clean)
    /\ UNCHANGED <<environment, stores, req, enforced, gate, body, capOf, err,
                   resp, event, history>>

\* The carrier's usage rules observe the request.
Observes(r) == Q(r).usage /\ cfg.processor

\* Mutant: the endpoints of a client are not told apart.
UsageKeyOfClient(r) == <<CHOOSE e \in Endpoints : TRUE, Q(r).ip>>

\* What the request is observed under.
UsageKey(r) == <<Q(r).endpoint, Q(r).ip>>

\* The observations of a log in the rule's window at time t.
InWindow(log, t) == {i \in DOMAIN log : t < log[i] + UsageWindow}

\* Mutant: observations never leave the window.
ObservationsEver(r) == Len(usage[UsageKey(r)])

Observations(r) == Cardinality(InWindow(usage[UsageKey(r)], now))

\* Over the threshold the processor's ban manager bans the address, and the
\* request is refused.  evaluate reads no passive_mode here: the processor's
\* own switch alone keeps the rule from banning.
UsageBans(r) ==
    /\ Observes(r)
    /\ ~cfg.processorPassive
    /\ Observations(r) + 1 > UsageThreshold

\* Mutant: every processor bans in the stage's manager.
ProcessorBanAny(ip) == IF ip \in Ips THEN BanUntil(ip) ELSE bans

\* Mutant: the rule's ban ends where a longer one ran on.
ProcessorBanCut(ip) ==
    IF ip \in Ips /\ cfg.sharedBans THEN [bans EXCEPT ![ip] = now] ELSE bans

\* A ban in the processor's manager: the ban arm sees it when the manager is
\* the stage's own.
ProcessorBan(ip) ==
    IF ip \in Ips /\ cfg.sharedBans THEN BanUntil(ip) ELSE bans

\* The carrier resolves; its rate view must validate, its body cap is
\* stashed and its usage rules run.
ResolveCarrier(r) ==
    /\ pc[r] = "preamble"
    /\ ~Q(r).excluded
    /\ ~AnswersPreflight(r)
    /\ IF Q(r).badRates
       THEN Return(r, Failed) /\ UNCHANGED <<bans, usage, capOf, barred, shown>>
       ELSE /\ capOf' = [capOf EXCEPT ![r] = Q(r).cap]
            /\ usage' = IF Observes(r)
                        THEN [usage EXCEPT ![UsageKey(r)] = Append(@, now)] ELSE usage
            /\ shown' = IF Observes(r) THEN [shown EXCEPT ![r] = now] ELSE shown
            /\ barred' = [barred EXCEPT ![r] = UsageBans(r)]
            /\ IF UsageBans(r)
               THEN Return(r, Plain("ActivityBanned")) /\ bans' = ProcessorBan(Q(r).ip)
               ELSE Goto(r, "gates") /\ UNCHANGED <<metadata, bans>>
    /\ UNCHANGED <<environment, counts, windows, req, enforced, gate, body,
                   preflight, err, resp, event, ran, hits, spent, banHeld>>

\* Mutant: the decision is recorded before the denial is looked at.
GateAfterAny(r) ==
    IF FirstRefusal(Q(r), "none", RouteIpOrder) \in {"none", "ip_global"} /\ GlobalGateRuns(Q(r))
    THEN Listing[Q(r).ip] ELSE "none"

\* What the global gate leaves in the request's slot.
GateAfter(r) ==
    IF /\ FirstRefusal(Q(r), "none", RouteIpOrder) = "none"
       /\ GlobalGateRuns(Q(r))
       /\ Listing[Q(r).ip] # "denied"
    THEN Listing[Q(r).ip] ELSE "none"

\* The IP checks of the route and the global gate, then the checks up to and
\* including the metadata scan.
RefusingGate(r) ==
    LET early == FirstRefusal(Q(r), "none", RouteIpOrder)
    IN IF early # "none" THEN early
       ELSE FirstRefusal(Q(r), GateAfter(r), GateOrder)

EvaluateGates(r) ==
    /\ pc[r] = "gates"
    /\ gate' = [gate EXCEPT ![r] = GateAfter(r)]
    /\ LET refusing == RefusingGate(r)
       IN /\ body' = Recorded(r, CheckBody(refusing))
          /\ IF refusing = "none"
             THEN Goto(r, "bans") /\ UNCHANGED metadata
             ELSE Return(r, CheckVerdict(Q(r), refusing))
    /\ UNCHANGED <<environment, stores, req, enforced, capOf, preflight, err,
                   resp, event, history>>

\* Mutant: the "rate_limit" bypass skips the ban arm too.
AsksForBanWithTiers(r) == ~Bypassed(Q(r), "rate_limit")

\* The carrier's "ip_ban" bypass skips the ban arm.
AsksForBan(r) == ~Bypassed(Q(r), "ip_ban")

\* bans_decision: the ban arm, after the scan and before the geo check.
BanArm(r) ==
    /\ pc[r] = "bans"
    /\ LET answer == IF AsksForBan(r) THEN BanAnswer(Q(r).ip) ELSE NoVerdict
       IN /\ body' = Recorded(r, OverrideFor(answer))
          /\ IF answer = NoVerdict
             THEN Goto(r, "tiers") /\ UNCHANGED metadata
             ELSE Return(r, answer)
    /\ UNCHANGED <<environment, stores, req, enforced, gate, capOf, preflight,
                   err, resp, event, history>>

\* The geo, cloud-provider and user-agent checks.
LateRefusal(r) ==
    /\ pc[r] = "tiers"
    /\ LET late == FirstRefusal(Q(r), gate[r], LateOrder)
       IN /\ late # "none"
          /\ body' = Recorded(r, CheckBody(late))
          /\ Return(r, CheckVerdict(Q(r), late))
    /\ UNCHANGED <<environment, stores, req, enforced, gate, capOf, preflight,
                   err, resp, event, history>>

Finding(q) == MetadataScanned(q) /\ q.meta = "threat"

\* The carrier's "rate_limit" bypass skips the whole stage pass.
StagePassRuns(r) == ~Bypassed(Q(r), "rate_limit")

StageAnswer(r) ==
    IF StagePassRuns(r) THEN TierAnswer(Q(r).ip, gate[r], Finding(Q(r))) ELSE NoVerdict

\* evaluate's last part: the stage's answer, else the custom_request check,
\* else the metadata finding, which passive mode forwards.
FinalVerdict(r) ==
    IF StageAnswer(r) # NoVerdict THEN StageAnswer(r)
    ELSE IF Refuses(Q(r), gate[r], "custom_request")
         THEN CheckVerdict(Q(r), "custom_request")
    ELSE IF Finding(Q(r)) /\ ~cfg.passive THEN Plain("Threat")
    ELSE Clean

\* resolve_error_body always yields a body for the adapter's own 400.
FinalBody(r) ==
    IF StageAnswer(r) # NoVerdict THEN OverrideFor(StageAnswer(r))
    ELSE IF Refuses(Q(r), gate[r], "custom_request") THEN "stage"
    ELSE IF Finding(Q(r)) /\ ~cfg.passive THEN OrElse(OverrideFor(Plain("Threat")), "BLOCKED")
    ELSE "none"

StagePass(r) ==
    /\ pc[r] = "tiers"
    /\ FirstRefusal(Q(r), gate[r], LateOrder) = "none"
    /\ IF StagePassRuns(r)
       THEN /\ windows' = TierWindows(Q(r).ip, gate[r])
            /\ counts' = TierCounts(Q(r).ip, gate[r], Finding(Q(r)))
            /\ bans' = TierBans(Q(r).ip, gate[r], Finding(Q(r)))
       ELSE UNCHANGED <<windows, counts, bans>>
    /\ TrackHit(r)
    /\ body' = Recorded(r, FinalBody(r))
    /\ Return(r, FinalVerdict(r))
    /\ UNCHANGED <<environment, usage, req, enforced, gate, capOf, preflight,
                   err, resp, event, ran, banHeld, barred, shown>>

----------------------------------------------------------------------------
(* Routing, guards, handlers and catchers.                                 *)

BlockGuarded(q) == q.kind \in {"block", "both"}
DataGuarded(q) == q.kind \in {"body", "both"}

NotFound == [status |-> 404, body |-> "rocket", retry |-> 0, by |-> "rocket"]

\* Rocket routes the request; request guards run before the data guard.
Route(r) ==
    /\ pc[r] = "routing"
    /\ LET kind == Q(r).kind
       IN /\ Goto(r, CASE kind = "unrouted" -> "respond"
                       [] kind = "open" -> "handler"
                       [] kind = "body" -> "read"
                       [] OTHER -> "block_guard")
          /\ resp' = [resp EXCEPT ![r] = IF kind = "unrouted" THEN NotFound ELSE @]
    /\ UNCHANGED <<environment, stores, req, metadata, enforced, gate, body,
                   capOf, preflight, err, event, history>>

\* A guard answers Outcome::Error: Rocket dispatches the status to a catcher.
GuardError(r, status) ==
    /\ err' = [err EXCEPT ![r] = status]
    /\ Goto(r, "catch")

\* BlockGuard::from_request.
CheckBlockGuard(r) ==
    /\ pc[r] = "block_guard"
    /\ IF metadata[r] = Clean
       THEN /\ Goto(r, IF DataGuarded(Q(r)) THEN "read" ELSE "handler")
            /\ UNCHANGED <<enforced, err>>
       ELSE LET v == IF metadata[r] = NoVerdict THEN Failed ELSE metadata[r]
            IN enforced' = FirstWins(enforced, r, v) /\ GuardError(r, Status(v))
    /\ UNCHANGED <<environment, stores, req, metadata, gate, body, capOf,
                   preflight, resp, event, history>>

\* The route's max_request_size replaces the engine's cap, if it was stashed.
EffectiveCap(r) == IF capOf[r] # NoCap THEN capOf[r] ELSE cfg.bodyCap

\* A body of exactly the cap is complete.
OverCap(r) == Q(r).size > EffectiveCap(r)

\* Mutant: the body is read before the managed engine is looked up.
AwaitsBodyAnyway(r) == pc[r] = "read"

\* The data guard awaits the body: it goes on when the client has sent it, or
\* enough to pass the cap, or is gone.  Neither the guard nor Rocket sets a
\* time for that.  Without a managed engine the guard does not get there.
AwaitsBody(r) == pc[r] = "read" /\ cfg.attached

\* GuardBody::from_data up to the buffered body: no managed engine without
\* the fairing; the oversize refusal is not recorded as enforced.
ReadBody(r) ==
    /\ pc[r] = "read"
    /\ IF ~cfg.attached
       THEN GuardError(r, 500) /\ UNCHANGED enforced
       ELSE IF OverCap(r)
       THEN GuardError(r, 413) /\ UNCHANGED enforced
       ELSE IF Q(r).body = "broken"
       THEN GuardError(r, 500) /\ enforced' = FirstWins(enforced, r, Failed)
       ELSE Goto(r, "screen") /\ UNCHANGED <<enforced, err>>
    /\ UNCHANGED <<environment, stores, req, metadata, gate, body, capOf,
                   preflight, resp, event, history>>

\* scan_body reads the global toggle and a blank body only: neither the
\* route's bypass nor its toggle nor exclude_paths.
BodyScanned(q) == cfg.detection /\ q.body # "blank"

\* The surfaces of the second scan are the body and the metadata views.
ScanPanics(q) == "panic" \in {q.body, q.meta}
ScanFlags(q) == "threat" \in {q.body, q.meta}

\* The metadata verdict the data guard goes by: a missing one is Clean, so
\* the fairing must have left one whenever the engine is managed.
StashedVerdict(r) == IF metadata[r] = NoVerdict THEN Clean ELSE metadata[r]

\* Mutant: a finding of the metadata phase is not fed again.
EnforcesOnce(r) ==
    /\ StashedVerdict(r) = Clean
    /\ BodyScanned(Q(r))
    /\ ~ScanPanics(Q(r))
    /\ Q(r).body = "threat"

\* Mutant: the body is fed for a request the metadata phase refused.
EnforcesAlways(r) == BodyScanned(Q(r)) /\ ~ScanPanics(Q(r)) /\ ScanFlags(Q(r))

\* The body finding is fed: enforce_body_finding runs.
Enforces(r) ==
    /\ StashedVerdict(r) = Clean
    /\ BodyScanned(Q(r))
    /\ ~ScanPanics(Q(r))
    /\ ScanFlags(Q(r))

FindingVerdict(r) ==
    IF FeedAnswer(Q(r).ip, gate[r]) # NoVerdict THEN FeedAnswer(Q(r).ip, gate[r])
    ELSE IF cfg.passive THEN Clean
    ELSE Plain("Threat")

FindingBody(r) == OverrideFor(FeedAnswer(Q(r).ip, gate[r]))

\* Mutant: a panic of the body scan passes the request.
ScreenVerdictOpen(r) ==
    IF StashedVerdict(r) # Clean THEN StashedVerdict(r)
    ELSE IF BodyScanned(Q(r)) /\ ~ScanPanics(Q(r)) /\ ScanFlags(Q(r)) THEN FindingVerdict(r)
    ELSE Clean

ScreenVerdict(r) ==
    IF StashedVerdict(r) # Clean THEN StashedVerdict(r)
    ELSE IF ~BodyScanned(Q(r)) THEN Clean
    ELSE IF ScanPanics(Q(r)) THEN Failed
    ELSE IF ScanFlags(Q(r)) THEN FindingVerdict(r)
    ELSE Clean

\* Mutant: the body phase takes the tiers again.
BodyWindowsAgain(r) == TierWindows(Q(r).ip, gate[r])

\* feed_finding records no hit.
BodyWindows(r) == windows

\* GuardBody::from_data from the buffered body on.
ScreenBody(r) ==
    /\ pc[r] = "screen"
    /\ counts' = IF Enforces(r) THEN FeedCounts(Q(r).ip, gate[r]) ELSE counts
    /\ bans' = IF Enforces(r) THEN FeedBans(Q(r).ip, gate[r]) ELSE bans
    /\ windows' = BodyWindows(r)
    /\ TrackHit(r)
    /\ body' = Recorded(r, IF Enforces(r) THEN FindingBody(r) ELSE "none")
    /\ IF ScreenVerdict(r) = Clean
       THEN Goto(r, "handler") /\ UNCHANGED <<enforced, err>>
       ELSE /\ enforced' = FirstWins(enforced, r, ScreenVerdict(r))
            /\ GuardError(r, Status(ScreenVerdict(r)))
    /\ UNCHANGED <<environment, usage, req, metadata, gate, capOf, preflight,
                   resp, event, ran, banHeld, barred, shown>>

RunHandler(r) ==
    /\ pc[r] = "handler"
    /\ ran' = [ran EXCEPT ![r] = TRUE]
    /\ resp' = [resp EXCEPT ![r] =
                   [status |-> Q(r).reply, body |-> "handler", retry |-> 0, by |-> "handler"]]
    /\ Goto(r, "respond")
    /\ UNCHANGED <<environment, stores, req, metadata, enforced, gate, body,
                   capOf, preflight, err, event, hits, spent, banHeld, barred,
                   shown>>

\* on_ignite registers a catcher for each code the application left free;
\* the other codes get Rocket's default.
ErrorResponse(r, status) ==
    IF status \in cfg.claimed
    THEN [status |-> status, body |-> "app", retry |-> 0, by |-> "app"]
    ELSE IF cfg.attached /\ status \in CatcherCodes
    THEN CatcherResponse(status, metadata[r], enforced[r], body[r])
    ELSE [status |-> status, body |-> "rocket", retry |-> 0, by |-> "rocket"]

Catch(r) ==
    /\ pc[r] = "catch"
    /\ resp' = [resp EXCEPT ![r] = ErrorResponse(r, err[r])]
    /\ Goto(r, "respond")
    /\ UNCHANGED <<environment, stores, req, metadata, enforced, gate, body,
                   capOf, preflight, err, event, history>>

----------------------------------------------------------------------------
(* on_response.                                                            *)

\* The redirect verdict renders whatever Rocket composed.
Redirects(r) == metadata[r].kind = "HttpsRedirect"

\* Mutant: every 404 is taken for a path no route serves.
ShieldsAny(r) == resp[r].status = 404 /\ metadata[r] # NoVerdict

\* The not-found shape of a refused request is rewritten to the refusal.
Shields(r) ==
    /\ resp[r].status = 404
    /\ metadata[r] \notin {NoVerdict, Clean, Failed}

Shielded(r) == IF Shields(r) THEN VerdictResponse(metadata[r], body[r]) ELSE resp[r]

\* Mutant: a panicking modifier's changes stay.
ModifiedAnyway(response) ==
    IF cfg.modifier # "none" THEN [response EXCEPT !.status = 418] ELSE response

\* A panicking modifier leaves the response it was given.
Modified(response) ==
    IF cfg.modifier = "teapot" THEN [response EXCEPT !.status = 418] ELSE response

\* A return_pattern rule on the status bans in the processor's manager, under
\* the processor's own passive switch.
ReturnBans(response) ==
    /\ response.status = cfg.returnStatus
    /\ ~cfg.processorPassive

\* Mutant: the event looks at the metadata phase only.
ForwardedByMetadata(r) == metadata[r] = Clean

\* emit_headers_applied_event: the forwarded lane only.
Forwarded(r) == metadata[r] = Clean /\ enforced[r] = NoVerdict

\* The fairing is done with the request.
Finish(r, response) ==
    /\ resp' = [resp EXCEPT ![r] = response]
    /\ Goto(r, "done")

OnResponse(r) ==
    /\ pc[r] = "respond"
    /\ IF ~cfg.attached
       THEN Finish(r, resp[r]) /\ UNCHANGED <<bans, event>>
       ELSE IF preflight[r]
       THEN /\ \E status \in {200, 400} :
                 Finish(r, PreflightResponse(status))
            /\ UNCHANGED <<bans, event>>
       ELSE IF Redirects(r)
       THEN Finish(r, RedirectResponse) /\ UNCHANGED <<bans, event>>
       ELSE IF cfg.processor
       THEN /\ Finish(r, Modified(Shielded(r)))
            /\ bans' = IF ReturnBans(Shielded(r)) THEN ProcessorBan(Q(r).ip) ELSE bans
            /\ event' = [event EXCEPT ![r] = cfg.bus /\ Forwarded(r)]
       ELSE Finish(r, Shielded(r)) /\ UNCHANGED <<bans, event>>
    /\ UNCHANGED <<environment, counts, windows, usage, req, metadata, enforced,
                   gate, body, capOf, preflight, err, history>>

----------------------------------------------------------------------------
(* The environment: the clock, the distributed store, and the out-of-band  *)
(* handles (clonable manager and limiter, GuardFairing::reset).            *)

InFlight(r) == pc[r] \notin {"idle", "done"}

\* History: which bans have held, once this step has changed the bans.
TrackBans ==
    banHeld' = [r \in Requests |->
                  banHeld[r] /\ (InFlight(r) => now' < bans'[Q(r).ip])]

Tick ==
    /\ now < MaxTime
    /\ now' = now + 1
    /\ bans' = bans
    /\ TrackBans
    /\ UNCHANGED <<cfg, storeUp, counts, windows, usage, localVars, ran, hits, spent,
                   barred, shown>>

\* The distributed store goes away or comes back.
StoreFlips ==
    /\ cfg.store # "memory"
    /\ storeUp' = ~storeUp
    /\ UNCHANGED <<cfg, now, stores, localVars, history>>

OperatorBan(ip) ==
    /\ "ban" \in OperatorActs
    /\ ~LiveBan(ip)
    /\ bans' = BanUntil(ip)
    /\ UNCHANGED <<environment, counts, windows, usage, localVars, history>>

OperatorUnban(ip) ==
    /\ "unban" \in OperatorActs
    /\ LiveBan(ip)
    /\ now' = now
    /\ bans' = [bans EXCEPT ![ip] = 0]
    /\ TrackBans
    /\ UNCHANGED <<cfg, storeUp, counts, windows, usage, localVars, ran, hits, spent,
                   barred, shown>>

\* GuardFairing::reset clears the limiter's in-memory windows and nothing
\* else: not the distributed ones, the bans or the violation counters.
Reset ==
    /\ "reset" \in OperatorActs
    /\ windows["memory"] # [ip \in Ips |-> <<>>]
    /\ windows' = [windows EXCEPT !["memory"] = [ip \in Ips |-> <<>>]]
    /\ spent' = [r \in Requests |-> IF spent[r].store = "memory" THEN NoHit ELSE spent[r]]
    /\ UNCHANGED <<environment, bans, counts, usage, localVars, ran, hits, banHeld,
                   barred, shown>>

----------------------------------------------------------------------------

\* What the server does next for a request it has taken.
Progress(r) ==
    \/ ExcludedPath(r)
    \/ Preflight(r)
    \/ ResolveCarrier(r)
    \/ EvaluateGates(r)
    \/ BanArm(r)
    \/ LateRefusal(r)
    \/ StagePass(r)
    \/ Route(r)
    \/ CheckBlockGuard(r)
    \/ ReadBody(r)
    \/ ScreenBody(r)
    \/ RunHandler(r)
    \/ Catch(r)
    \/ OnResponse(r)

\* Every slot has been used: the bounded run is over.
Terminating ==
    /\ \A r \in Requests : pc[r] = "done"
    /\ UNCHANGED vars

Next ==
    \/ \E r \in Requests : Arrive(r) \/ Progress(r)
    \/ Tick
    \/ StoreFlips
    \/ \E ip \in Ips : OperatorBan(ip) \/ OperatorUnban(ip)
    \/ Reset
    \/ Terminating

\* The executor polls every task that can go on.  A task that awaits a body
\* can when its client lets it, and clients need not send anything.
Fairness == \A r \in Requests : WF_vars(~AwaitsBody(r) /\ Progress(r))

Spec == Init /\ [][Next]_vars /\ Fairness

============================================================================
