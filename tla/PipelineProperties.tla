------------------------- MODULE PipelineProperties -------------------------
(***************************************************************************)
(* What the pipeline must guarantee, whatever requests share the stores    *)
(* and in whatever order their steps come.                                 *)
(***************************************************************************)
EXTENDS GuardPipeline

\* The bodies that are recorded for a refusal.
BlockBodies == {"none", "stage", "custom", "BLOCKED"}

\* Every variable keeps to its type: verdicts in the slots, gate decisions
\* the gate can take, windows of times the clock has shown.
TypeOK ==
    /\ StageTypeOK
    /\ cfg \in Configs
    /\ usage \in [Endpoints \X Clients -> Seq(Times)]
    /\ pc \in [Requests -> Labels]
    /\ req \in [Requests -> Profiles]
    /\ metadata \in [Requests -> Slot]
    /\ enforced \in [Requests -> Slot]
    /\ gate \in [Requests -> Gates]
    /\ body \in [Requests -> BlockBodies]
    /\ capOf \in [Requests -> Int]
    /\ preflight \in [Requests -> BOOLEAN]
    /\ err \in [Requests -> Nat]
    /\ resp \in [Requests -> Response]
    /\ event \in [Requests -> BOOLEAN]
    /\ ran \in [Requests -> BOOLEAN]
    /\ hits \in [Requests -> Nat]
    /\ spent \in [Requests -> [store : Backends \cup {"none"}, at : Times]]
    /\ banHeld \in [Requests -> BOOLEAN]
    /\ barred \in [Requests -> BOOLEAN]
    /\ shown \in [Requests -> Times]

----------------------------------------------------------------------------

Guarded(q) == BlockGuarded(q) \/ DataGuarded(q)

\* The request takes the whole pipeline: neither exclude_paths nor a CORS
\* preflight answers it first.
Screened(r) == ~Q(r).excluded /\ ~AnswersPreflight(r)

\* No check of evaluate refuses the request, given what the gate decided.
Cleared(r) ==
    /\ ~Q(r).badRates
    /\ \A c \in Checks : ~Refuses(Q(r), gate[r], c)
    /\ Finding(Q(r)) => cfg.passive

\* The data guard let the body through.
BodyCleared(r) ==
    /\ Q(r).size <= EffectiveCap(r)
    /\ Q(r).body # "broken"
    /\ BodyScanned(Q(r)) =>
          /\ ~ScanPanics(Q(r))
          /\ ScanFlags(Q(r)) => cfg.passive

\* Complete mediation: the handler behind a guard runs only with the fairing
\* attached, after every check of the pipeline let the request through and,
\* behind the data guard, after the body was bounded and scanned.  A panic of
\* the engine in either phase never lets a request through.
CompleteMediation ==
    \A r \in Requests :
        ran[r] /\ Guarded(Q(r)) =>
            /\ cfg.attached
            /\ metadata[r] = Clean
            /\ Screened(r) => Cleared(r)
            /\ DataGuarded(Q(r)) => BodyCleared(r)

\* The ban arm applies to the request.
BanApplies(r) ==
    /\ cfg.attached
    /\ cfg.banning
    /\ ~cfg.passive
    /\ Screened(r)
    /\ ~Bypassed(Q(r), "ip_ban")

\* A ban bites: a request whose address was under a live ban from the
\* request's arrival on reaches no guarded handler and spends no rate budget,
\* whoever banned it (the operator, another request's detection, throttling
\* or usage rule) and at whatever point of the other requests.
BanBites ==
    \A r \in Requests :
        BanApplies(r) /\ banHeld[r] =>
            /\ ~(ran[r] /\ Guarded(Q(r)))
            /\ hits[r] = 0

\* The window records a request once over the two phases: never twice, and
\* once for every guarded handler that ran under the limiter.
OneHit ==
    \A r \in Requests :
        /\ hits[r] <= 1
        /\ ran[r] /\ Guarded(Q(r)) /\ Screened(r) /\ StagePassRuns(r)
              /\ Throttles(Q(r).ip, gate[r]) => hits[r] = 1

\* The requests of an address admitted by a backend in the window up to t.
Admitted(ip, b, t) ==
    {r \in Requests : /\ Q(r).ip = ip
                      /\ metadata[r].kind # "RateLimited"
                      /\ spent[r].store = b
                      /\ spent[r].at <= t
                      /\ t < spent[r].at + Window}

\* No window of any backend admits more than the limit, however the requests
\* interleave, the store flaps and the handles are used: a reset forgets the
\* memory windows and only these.
AdmittedWithinLimit ==
    ~cfg.passive =>
        \A ip \in Ips, b \in Backends, t \in 0..now :
            Cardinality(Admitted(ip, b, t)) <= Limit

\* The request's refusal, or its body's, fed the detection counter.
FedByMetadata(r) ==
    /\ metadata[r].kind \in {"Threat", "ActivityBanned"}
    /\ Finding(Q(r))
    /\ StagePassRuns(r)
    /\ ~barred[r]

FedByBody(r) == enforced[r].kind \in {"Threat", "ActivityBanned"} /\ metadata[r] = Clean

\* The gate ran for the request and found its address whitelisted.  It does not
\* run on an excluded path, for a preflight, past an "ip" bypass or where the
\* route has a list of its own: there a whitelisted address is like any other.
Spared(r) ==
    /\ Screened(r)
    /\ GlobalGateRuns(Q(r))
    /\ Listing[Q(r).ip] = "whitelisted"

Fed(ip) ==
    {r \in Requests : /\ Q(r).ip = ip
                      /\ ~Spared(r)
                      /\ FedByMetadata(r) \/ FedByBody(r)}

\* The violation counters account for the refusals: outside passive mode an
\* address has one violation for each of its requests refused for a detected
\* threat, in the metadata or in the body phase, and no request counts twice.
\* Whoever the address is, all its refusals count but those behind a gate that
\* whitelists it.
ViolationsAccounted ==
    ~cfg.passive =>
        \A ip \in Ips : counts[ip]["detection"] = Cardinality(Fed(ip))

\* evaluate gets as far as the stage pass: no check before it refuses.
ReachesStagePass(r) ==
    /\ cfg.attached /\ Screened(r)
    /\ ~Q(r).badRates /\ ~barred[r]
    /\ \A c \in Checks \ {"custom_request"} : ~Refuses(Q(r), gate[r], c)

\* The requests of an address whose finding a phase of passive mode counted, and
\* let go on if nothing else refused them.
CountedByMetadata(ip) ==
    {r \in Requests : /\ Q(r).ip = ip
                      /\ ~Spared(r)
                      /\ metadata[r] # NoVerdict
                      /\ ReachesStagePass(r)
                      /\ Finding(Q(r)) /\ StagePassRuns(r)}

CountedByBody(ip) ==
    {r \in Requests : /\ Q(r).ip = ip
                      /\ ~Spared(r)
                      /\ DataGuarded(Q(r))
                      /\ pc[r] = "handler" \/ ran[r]
                      /\ cfg.detection
                      /\ Q(r).body # "blank"
                      /\ Q(r).body = "threat" \/ Q(r).meta = "threat"}

\* In passive mode each phase counts what it finds, so that a request whose
\* metadata views are flagged counts twice behind a data guard that scans them
\* again, and once everywhere else; a request stopped before a phase adds
\* nothing there, in whatever order the requests of an address come.
PassiveCountsPerPhase ==
    cfg.passive =>
        \A ip \in Ips :
            counts[ip]["detection"] =
                Cardinality(CountedByMetadata(ip)) + Cardinality(CountedByBody(ip))

\* The step adds the violation with which a category reaches the threshold.
ReachesThreshold(ip, c) ==
    /\ counts'[ip][c] = counts[ip][c] + 1
    /\ counts'[ip][c] >= Threshold

\* A usage rule, or a rule on the status Rocket answered, bans the client of a
\* request in a manager that is the stage's, passive fairing or not.
RuleBans(r) ==
    /\ cfg.processor /\ cfg.sharedBans /\ ~cfg.processorPassive
    /\ \/ barred'[r] /\ ~barred[r]
       \/ pc[r] = "respond" /\ pc'[r] = "done" /\ Shielded(r).status = cfg.returnStatus

\* The operator, or what the address did itself, bans it in this step.
Earned(ip) ==
    \/ "ban" \in OperatorActs /\ pc' = pc
    \/ ~cfg.passive /\ cfg.banning /\ \E c \in Categories : ReachesThreshold(ip, c)
    \/ \E r \in Requests : Q(r).ip = ip /\ RuleBans(r)

\* The violation that reaches the threshold bans in the same step.
BansAtOnce(ip) ==
    \A c \in Categories :
        ~cfg.passive /\ cfg.banning /\ ReachesThreshold(ip, c) => bans'[ip] = now + BanFor

\* The bans follow the counters: an address is banned only in the step in which
\* its own violation counter, its use of an endpoint or its own answer calls for
\* it, and no step leaves a counter over the threshold with its ban outstanding.
\* A rule of a processor that is passive, or has a ban manager of its own, bans
\* nobody here.
BansAreEarned ==
    [][\A ip \in Ips : (bans'[ip] > bans[ip] => Earned(ip)) /\ BansAtOnce(ip)]_vars

\* The usage rules have been shown the request.
Observed(r) ==
    /\ Q(r).usage
    /\ cfg.attached /\ cfg.processor
    /\ Screened(r) /\ ~Q(r).badRates
    /\ pc[r] \notin {"idle", "preamble"}

\* What they were shown of a client at an endpoint in the window up to t.
ShownTo(e, c, t) ==
    {r \in Requests : /\ Observed(r)
                      /\ Q(r).endpoint = e /\ Q(r).ip = c
                      /\ t < shown[r] + UsageWindow}

\* The usage rules see each request once, before anything refuses it, and count
\* it for its own endpoint and address until the window has passed; all
\* connections without an address share a bucket at each endpoint, so an
\* unattributed client is judged by the requests of the others.
UsageAccounted ==
    \A e \in Endpoints, c \in Clients, t \in Times :
        Cardinality(InWindow(usage[<<e, c>>], t)) = Cardinality(ShownTo(e, c, t))

\* A client is barred exactly for its own use of the endpoint it asks for: with
\* the request that is one more than the rule allows in a window, neither by
\* what it did elsewhere or long ago nor by what others did.
UsageBarsAreEarned ==
    [][\A r \in Requests :
          pc[r] = "preamble" /\ pc'[r] # "preamble" =>
              (barred'[r] <=>
                  /\ Observed(r)'
                  /\ ~cfg.processorPassive
                  /\ Cardinality(ShownTo(Q(r).endpoint, Q(r).ip, now)') > UsageThreshold)]_vars

\* A rule of the processor called for a ban on the request's client.
PunishedByRule(r) ==
    /\ cfg.processor /\ ~cfg.processorPassive
    /\ \/ barred[r]
       \/ pc[r] = "done" /\ (resp[r].status = cfg.returnStatus \/ cfg.modifier = "teapot")

\* What refuses in passive mode: the carrier's own checks but the HTTPS arm, and
\* the stages the host supplied without a passive switch of their own.
Unswitched == (RouteChecks \ {"https_route"}) \cup (StageChecks \ cfg.silent)

\* Passive mode of the fairing punishes nobody: its stage bans no address, its
\* data guard refuses no finding, and evaluate refuses only what a check that
\* does not read this switch objects to.  The response processor is one of
\* those: with its own switch off its rules bar and ban.
PassiveOnlyObserves ==
    cfg.passive =>
        /\ "ban" \notin OperatorActs =>
              \A ip \in Ips : bans[ip] # 0 =>
                  cfg.sharedBans /\ \E r \in Requests : Q(r).ip = ip /\ PunishedByRule(r)
        /\ \A r \in Requests :
              /\ metadata[r] \notin {NoVerdict, Clean} =>
                    \/ metadata[r] = Failed
                    \/ barred[r] /\ ~cfg.processorPassive
                    \/ Q(r).fails \cap Unswitched # {}
              /\ enforced[r] \in {NoVerdict, Failed, metadata[r]}

----------------------------------------------------------------------------
(* What the client sees.                                                   *)

\* The refusals whose face does not depend on where they are rendered: the
\* 503 catcher and the catchers of a custom status ignore the recorded body.
FacedAlike(v, b) ==
    \/ v.kind \in {"Threat", "IpBlocked", "Banned", "ActivityBanned",
                   "HeadersBlocked", "AuthRequired", "StageForbidden"}
    \/ v.kind \in {"RateLimited", "RedisUnavailable"} /\ b = "none"

Face(response) == [status |-> response.status, body |-> response.body, retry |-> response.retry]

\* The client of r has its answer, a refusal on_response let stand or made.
Refused(r) == pc[r] = "done" /\ metadata[r] \notin {NoVerdict, Clean, Failed}

\* The route-inventory shield: a refused request to a path no route serves is
\* answered as the same refusal of a guarded route is, so that the refusal
\* does not tell which paths are routed.
ShieldIsFaithful ==
    \A r, s \in Requests :
        /\ Refused(r) /\ Q(r).kind = "unrouted"
        /\ Refused(s) /\ BlockGuarded(Q(s))
        /\ metadata[r] = metadata[s] /\ body[r] = body[s]
        /\ FacedAlike(metadata[r], body[r])
        /\ Status(metadata[r]) \notin cfg.claimed
        => Face(resp[r]) = Face(resp[s])

\* The status the client of a guarded route sees is the refusal's own: the
\* verdict of the phase that refused, 413 for a body over the cap and 500
\* for one that cannot be read, which are answered before the verdict is
\* looked at when only the data guard is there.
RefusalKeepsItsStatus ==
    \A r \in Requests :
        /\ pc[r] = "done" /\ cfg.attached /\ cfg.modifier # "teapot"
        /\ Guarded(Q(r)) /\ ~ran[r] /\ ~preflight[r]
        => \/ resp[r].status = Status(RefusalVerdict(metadata[r], enforced[r]))
           \/ resp[r].status = 413 /\ DataGuarded(Q(r)) /\ OverCap(r)
           \/ resp[r].status = 500 /\ DataGuarded(Q(r)) /\ Q(r).body = "broken"
           \/ resp[r].status = 301 /\ Redirects(r)

\* A handler's own answer reaches the client whenever a guard let the request
\* through.  Only an unguarded handler's may be replaced: by the redirect, or,
\* when it answers 404 to a refused request, by the refusal.
HandlersAnswerStands ==
    \A r \in Requests :
        pc[r] = "done" /\ ran[r] /\ cfg.modifier # "teapot" =>
            \/ resp[r].by = "handler" /\ resp[r].status = Q(r).reply
            \/ preflight[r]
            \/ /\ ~Guarded(Q(r))
               /\ metadata[r] \notin {NoVerdict, Clean, Failed}
               /\ Redirects(r) \/ Q(r).reply = 404

\* The bodies a refusal may be recorded with: a stage's own, the override
\* configured for the status or, for a threat, the adapter's.  A refusal without
\* one is answered with the message of its catcher.
BodiesOf(v) ==
    CASE v.kind \in {"HeadersBlocked", "AuthRequired", "StageForbidden",
                     "EmergencyBlocked", "CustomBlock"} -> {"stage"}
      [] v.kind \in {"none", "Clean", "Failed", "HttpsRedirect"} -> {"none"}
      [] v.kind = "Threat" -> {"none", OverrideFor(v), "BLOCKED"}
      [] OTHER -> {"none", OverrideFor(v)}

\* The body slot keeps the last body written and the verdict slots their first
\* verdict, yet the body always belongs to the verdict the client is answered
\* with: none is left behind by a phase that let the request through, and none
\* replaced by a phase whose verdict came too late.
BodyRidesItsRefusal ==
    \A r \in Requests : body[r] \in BodiesOf(RefusalVerdict(metadata[r], enforced[r]))

\* The headers-applied event is the forwarded lane's: a request whose
\* metadata phase or whose guard recorded a refusal never sends it.
EventOnlyWhenForwarded ==
    \A r \in Requests :
        event[r] => /\ metadata[r] = Clean
                    /\ enforced[r] = NoVerdict
                    /\ ran[r] \/ Q(r).kind = "unrouted" \/ err[r] = 413

----------------------------------------------------------------------------

\* The data guard holds the request until its client sends the body.  Where a
\* request guard stands before it, it does so only for a request evaluate passed.
HeldByClient(r) ==
    /\ pc[r] = "read" /\ cfg.attached
    /\ BlockGuarded(Q(r)) => metadata[r] = Clean

\* Every request taken is answered, whatever the other requests, the store and
\* the operator do, or waits for nothing but its own client's body.
EveryRequestAnswered ==
    \A r \in Requests : pc[r] # "idle" ~> pc[r] = "done" \/ HeldByClient(r)

----------------------------------------------------------------------------
(* The pipeline implements the guard's promise.                            *)

PhaseOf(r) ==
    CASE pc[r] = "idle" -> "waiting"
      [] pc[r] = "handler" -> "admitted"
      [] pc[r] = "catch" -> "refused"
      [] pc[r] = "respond" -> IF ran[r] THEN "served" ELSE "refused"
      [] pc[r] = "done" -> "answered"
      [] OTHER -> "screening"

Promise == INSTANCE GuardPromise WITH
    Addresses <- Ips,
    Nobody <- NoIp,
    MayBan <- "ban" \in OperatorActs,
    phase <- [r \in Requests |-> PhaseOf(r)],
    client <- [r \in Requests |-> IF pc[r] = "idle" THEN NoIp ELSE Q(r).ip],
    charge <- hits,
    banned <- {ip \in Ips : LiveBan(ip)}

\* A request is refused or admitted once and for good, is charged at most once
\* and only before that, and no step taken for it bans another client's
\* address or lifts a ban, whoever placed it.
KeepsPromise == Promise!Safe

============================================================================
