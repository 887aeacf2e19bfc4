# rocket-guard-rs in TLA+

A model of the request guard for Rocket, with model-checked instances and
machine-checked proofs. rocket-guard-rs is an adapter: Rocket calls it at four
points of a request's life (`on_request`, a request guard, a data guard,
`on_response`), it calls a detection engine and a stateful stage
(guard_core_engine, guard_core_rs), and the four points talk to each other
through request-local slots only. No single function sees a request from end to
end; the properties here are about what the four points promise together, while
many requests share the stores.

## Inventory

| Component | State | Operations | Interacts with |
|---|---|---|---|
| Verdicts and responses (`scan.rs`, `response.rs`) | none | status of a verdict, catchers, not-found rewrite | read by every phase through the slots |
| Evaluation (`fairing.rs`, `on_request`/`evaluate`) | the request's slots: metadata verdict, gate decision, block body, route carrier, body cap, preflight answer, redirect target | one pass of some twenty checks in a fixed order | engine (scan), stage (bans, tiers), response processor (usage rules) |
| Guards (`guards.rs`) | enforced slot, block body | `BlockGuard::from_request`, `GuardBody::from_data` | read the metadata verdict, call the scan and the stage's detection feed |
| Response pass (`on_response`) | the response, the ban store of the processor | preflight answer, redirect, not-found rewrite, return rules, headers, modifier, headers event | reads both verdict slots |
| Stateful stage (dependency) | live bans, violation counters, sliding windows of two backends | `decide_bans_observed`, `decide_tiers_observed`, `feed_finding` | shared by all requests and by out-of-band handles |
| Handles | none | `reset`, ban, unban | act on the stores at any time |
| Launch (`on_ignite`, `build_stage`) | managed engine, catchers | manage once, register unclaimed catchers | decides what later phases find |
| WebSocket guard (`websocket.rs`) | its own violation counters and limiter; the ban manager is shared | handshake checks, per-frame scan, close frame | ban manager of the stage; the application's channel loop |
| Query decoding (`scan.rs`, `websocket.rs`) | none | split of a query, two decoders of a component | feeds the scans of both guards |
| Configuration (`with_*`, `from_security_config`) | the fairing's fields | builders | all of the above |
| Cloud refresh (`fairing.rs`), status payload (`status.rs`) | the cloud table, the scheduler's single flight | `refresh_cloud_ip_ranges`, the status route | background job of the scheduler |
| Events, logs, hooks | none of their own | formatting | engine |

What is hard here:

* *Two phases.* The metadata phase and the body phase of one request are far
  apart in time. What the first one read (a ban, the gate's decision, passive
  mode) is used, or not looked at again, by the second.
* *Shared stores.* Requests of one address meet in the windows, the violation
  counters and the bans, at every await and every store call.
* *Slots with opposite rules.* A verdict slot keeps the first value, the body
  slot the last one, a missing metadata verdict is a refusal for one guard and
  a Clean verdict for the other.
* *Two renderers.* A guarded route's refusal is rendered by catchers, an
  unrouted path's by the rewrite in `on_response`.
* *Two guards.* HTTP requests and WebSocket channels of one client meet in the
  ban manager, run their checks in different orders and were written apart.
* *Many switches.* The fairing, each stage of the host and the response processor have
  a passive switch each; `from_security_config` sets them alike, `with_passive_mode`
  sets one. The usage rule reads the processor's, the carrier's checks read none.
* *Copies and clones.* The builder's switches are copied into the fairing, its
  check stages, the managed engine and the stage, at different times; limiters
  and stores are shared by cloning. Which is which decides what an operator's
  handle reaches and what a second fairing does.
* *Failures.* The engine may panic in either phase, a body may break off or never
  come, a cloud refresh may fail for one provider and not for another, the
  distributed store may go away, a response modifier may panic.

Correctness, per component: a guarded handler is mediated completely; passive mode
observes only, but for what does not read its switch; a client is barred for its own use
of an endpoint; a ban held since arrival bites; a window admits its limit and a request
spends it once; violations are counted once per refused threat; a refusal keeps its
status on the way to the client and looks the same on routed and unrouted paths; every
request is answered or waits for its own client. A channel opens and is fed only past
its own sequence, and a ban closes both doors. A launch does not fail by the guard, all
of a request is judged by one engine, and the copies of a switch agree. A status payload
never goes back to ranges it has shown and lost. Both guards scan the same query.
`PROJECT.json` lists the hazards at their lines with the properties that cover them.

## Modules

| Module | Models |
|---|---|
| `Verdicts` | `Verdict` and its status, `stage_block`'s mapping, the seven catchers, `verdict_response`. A body is the name of its message. |
| `GuardStage` | The stateful stage and its stores (external): ban manager, violation counters, windows of the memory and the distributed backend, fail-open and fail-closed. Each call is one step: a state function for its answer and one for each store it writes. |
| `RequestChecks` | The stateless checks of `evaluate` in order; bypasses, route-over-global precedence, the passive switches of the fairing and of each stage, the skip state of whitelisted and exempt addresses; the verdict and the body each leaves. |
| `GuardPipeline` | The whole way of a request, many at once: extends the three above and adds the slots, the guards, the handler, the catchers, the response pass, the clock, the store's failures and the operator. |
| `GuardPromise` | What the pipeline promises of each request: taken, screened, admitted or refused once, charged at most once, answered; its steps ban nobody but its own client. A safety specification: no checks, stores or slots. |
| `PipelineProperties` | Type invariant, invariants, the liveness property, and the refinement: `Promise` is an `INSTANCE` of `GuardPromise` under the phase a request is in (`PhaseOf`), its client, its hits and the live bans. |
| `DocumentedClaims` | What the documents say and the code does not do. |
| `WebSocketGuard` | An upgrade's check sequence, the violation feed and the `ws` windows, the answer to a rejected handshake, the frames and the documented channel loop. |
| `GuardedServer` | The pipeline and the channels beside each other over one ban manager and one clock; the properties of the channels. |
| `GuardBuilder` | What a fairing is built from: builders, `from_security_config`, `build_stage`, the engine `on_ignite` manages. Pure operators. |
| `CloudStatus` | The cloud table, refreshes in flight, the payload being composed. |
| `Application` | An application around the guard: builds and clones fairings, registers catchers, attaches, launches, serves, operates. Extends the two above. |
| `QueryViews` | The split of a query and its two decoders, byte for byte: a decoder runs one loop over the token each position would yield. |
| `MCPipeline`, `MCServer`, `MCApplication` | Instances for TLC. |
| `GuardPipelineProofs`, `MediationProofs` | Types; mediation, the single hit and the bans of the pipeline. |
| `RefusalProofs`, `AccountingProofs`, `PromiseProofs` | What a refusal becomes; the counters and the limit; the refinement. |
| `ServerProofs` | The theorems of the pipeline beside the channels, and those of the channels. |
| `ApplicationProofs`, `QueryViewsProofs` | Launch, engine, switches, windows and payloads of an application; the two decoders, and the way of a form through encoding, split and decoding. |

### State and code

| Variable | Code |
|---|---|
| `metadata`, `enforced`, `gate`, `body`, `capOf`, `preflight` | the request-local slots `Metadata`, `Enforced`, `GateDecision`, `BlockBody`, `RouteBodyCap`, `PreflightAnswer` of `scan.rs` |
| `cfg` | the fields of `GuardFairing` and `GuardEngine` the pipeline reads, and the catchers the application claimed |
| `cfg.passive`, `cfg.silent`, `cfg.processorPassive` | `passive_mode` of the fairing, of each stage the host supplies, of the `ResponseProcessor` |
| `bans`, `counts`, `windows` | `IpBanManager`, `ViolationCounters`, the rate limiter's stores |
| `usage` | the behaviour tracker of the response processor: for each endpoint and client the times it was observed |
| `pc`, `req`, `err`, `resp` | where Rocket is with the request, what it is, the guard's error status, the response |
| `event` | `security_headers_applied` was sent |
| `ran`, `hits`, `spent`, `banHeld`, `barred`, `shown` | history, read by properties only; `barred`: a usage rule refused the request before the stage saw it; `shown`: when the rule was shown it |
| `wscfg`, `wsCounts`, `wsHits` | `WebSocketGuardConfig`, the feed's `ViolationCounters`, the limiter under the key `ws` |
| `wspc`, `peer`, `frame`, `close`, `handshake`, `received` | where a connection is, its client, the frame in the loop's hands, the `WS_CLOSE_*` shape, the answer to the upgrade |
| `draft`, `kept`, `chain`, `managed`, `catchers` | the fairing being built, the clone kept for the operator, the attached fairings, Rocket's managed `GuardEngine`, the registered catchers |
| `at`, `verdict` | the fairing whose `on_request` is next, the slot `Metadata` |
| `table`, `jobs`, `rows`, `report` | `CloudIpTable`, refreshes in flight, the payload being read and the last one answered |
| `newest` | history: the newest ranges of each provider any payload showed |

| Action | Code |
|---|---|
| `ExcludedPath`, `Preflight`, `ResolveCarrier` | `evaluate` up to the usage rules |
| `EvaluateGates` | route lists, global gate, emergency, HTTPS, headers, referrer, validators, time window, metadata scan: no shared store is touched, so it is one step |
| `BanArm`, `LateRefusal`, `StagePass` | `bans_decision`; geo, cloud and agent checks; `stage_decision` with the `custom_request` check and the metadata finding |
| `Route`, `RunHandler`, `Catch` | Rocket's part (external): routing, handler, dispatch to a catcher |
| `CheckBlockGuard`, `ReadBody`, `ScreenBody` | the two guards; the await on the body separates the last two |
| `OnResponse` | `on_response`, whole |
| `CheckUpgrade`, `LimitUpgrade`, `ScanUpgrade`, `AnswerUpgrade` | `from_request` and `run_websocket_checks`, cut at each of the three stores it touches |
| `ScanFrame`, `SendClose` | `scan_frame` with the feed; `close_frame` and `stream_error` in the loop |
| `OnIgnite`, `Liftoff` | `on_ignite` of one attached fairing; Rocket's check for colliding catchers |
| `OnRequest`, `RunGuard` of `Application` | `on_request` of one attached fairing and the data guard, reduced to which engine, switches and limiter they use |
| `RefreshCloudIpRanges`, `FetchRow`, `ReadRow` | `refresh_cloud_ip_ranges`; the scheduler's job (external), which replaces a provider's row or, where the fetch failed, drops the provider (the shape the test at `status.rs:266` writes down); `cloud_provider_status` |
| `Tick`, `StoreFlips`, `OperatorBan`, `OperatorUnban`, `Reset` | time, the distributed store, the handles |

A step ends where the code reads or writes a shared store or awaits; everything
between is local to the request. What the checks would find in a request's data
(`fails`, `meta`, `body`, `size`) is an input, since patterns and lists are data;
whether a check runs, what it answers and what it leaves is modelled.

The application model keeps of a limiter the number of its window store (a clone
has the same number) and of a request what a check would object to; the pipeline's
own order of checks is `GuardPipeline`'s business. The status route is served there
where a cloud scheduler is installed.

Assumptions on the constants are named in the module that declares them. Those of
the pipeline: positive limit, windows, ban duration and threshold; one host stage runs
the `validator_stage` and the `custom_request` check, so both have its passive switch;
a request without a remote address triggers no address check; CORS needs a
response processor; a passive fairing uses the in-memory windows (what a
passive stage answers when its distributed store fails is the dependency's and
nothing in this repository pins it). The switches of fairing, stages and processor are
otherwise free of each other.

## Runs

| Run | Module, instance | Properties | Shows |
|---|---|---|---|
| `Screening` | `MCPipeline`; 1 request out of every single and every pair of objecting checks and some 50 named others, among them a whitelisted address wherever the gate does not run; 10 configurations, four of them with passive and enforcing parts mixed | `TypeOK`, `CompleteMediation`, `PassiveOnlyObserves`, `RefusalKeepsItsStatus`, `EventOnlyWhenForwarded`, `ViolationsAccounted`, `HandlersAnswerStands`, `BodyRidesItsRefusal` | the sequential pipeline, every branch |
| `Shield` | `MCPipeline`; 2 requests, unrouted and guarded, refused for like reasons; 7 configurations | `ShieldIsFaithful` | the two renderers agree |
| `Windows` | `MCPipeline`; 3 requests of one address, limit 1, window of 2 ticks, clock to 2, the store flips, reset; memory, fail-open, fail-closed | `OneHit`, `AdmittedWithinLimit` | the shared window |
| `Bans` | `MCPipeline`; 2 requests of one address or of none, to two endpoints, among them one a usage rule bars that carries a finding as well; bans of 2 ticks, a usage window of one, thresholds 2 and 1, clock to 2, operator bans and unbans; 3 configurations, one a passive fairing with an enforcing processor | `BanBites`, `ViolationsAccounted`, `PassiveCountsPerPhase`, `UsageAccounted`, `KeepsPromise`, `BansAreEarned`, `UsageBarsAreEarned` | bans against everything that places and ends them; every new ban and every bar is earned, every step refines a step of the promise |
| `Liveness` | `MCPipeline`; 2 requests, a clock, operator bans, a fail-closed store, with and without the fairing | `EveryRequestAnswered` | no request is left hanging but by its own client |
| `Sockets` | `MCServer`; 2 connections of 8 kinds of clients, 2 frames each, 1 HTTP request; limit 1, threshold 1, clock to 1; 3 WebSocket configurations | `ServerTypeOK`, `ChannelsAreMediated`, `BannedStaysOut`, `DetectionsCounted`, `UpgradesWithinLimit`, `BanBites`, `KeepsPromiseBeside`, `ServerBansAreEarned` | the channels, and the pipeline beside them, which keeps its promise and whose manager is banned into by both guards |
| `Launch` | `MCApplication`; 2 builder calls, 2 attached fairings, 3 stores, 4 loaded configurations, 1 request slot used again and again, 2 providers, 3 refreshes, any of which may fail for either | `TypeOK`, `GuardNeverCollides`, `OneEngine`, `FirstVerdictStands`, `SwitchesReachEveryCopy`, `ResetReachesTheStage`, `ReportsNeverGoBack` | what building and launching promise to serving |
| `Decoding` | `QueryViews`; every query of up to 4 bytes over 9 | `DecodersAgree`, `FormRoundTrip` | the two decoders are one function |
| `ListedCounted`, `ExcludedScreened`, `PassiveRefuses`, `RetryAfterLost` | `MCPipeline`; 2 requests | one claim each, violated | the findings below |

Bounds. The requests interact only in the stores of one address, so one address
is enough where the stores are the question; two requests make every order of
two actors, three are needed where a window of one admits a first, refuses a
second and must have forgotten the first for a third. Clocks run to the
expiry of the window and of the ban with both still observable before it. The
checks before the ban arm have no memory, so pairs of objecting checks show the
precedence of any two, and a third adds no new case. `Requests` is symmetric: no
definition tells requests apart, and so are the `Sockets` of their run; the liveness run
uses neither. Two
connections make the races of the limiter and of the ban manager; two frames are
enough to see a loop that goes on after the first. Two attached fairings make every
pair of guard and application; two builder calls make every order of two switches
on top of a loaded configuration. A second refresh may fail for a provider and a third
make it ready again. In the `Launch` run the cloud table moves only
while no request is under way and the other way round (`Quiet`, `CloudQuiet`): the
two share no variable, so their steps commute and no state of either is lost. Four
bytes hold a whole escape with a neighbour on either side, or cut off at the end.

Termination: in the pipeline and the server each slot carries one request, so a run
ends with `Terminating`, a stutter, and deadlock is checked. An aborted launch and
a query of full length are ends: `Launch` and `Decoding` do not check it.

Fairness is weak, for the whole of a request's own steps (`Progress(r)`) while it does
not await its body: Rocket's executor polls each task that can go on. The body is another
matter. `data.open(..).into_bytes().await` (`guards.rs:148`) has no time limit, neither the
guard nor Rocket 0.5.1 sets one, and a client that stalls holds its request; `ReadBody` has
no fairness (`AwaitsBody`), and `EveryRequestAnswered` says that a request is answered or
comes to stand exactly there (`HeldByClient`): with an engine managed and, behind a request
guard, with a Clean verdict. Nothing is assumed of clients, the clock, the store or the
operator. Of channels no liveness is claimed: after a rejected frame the documented loop
awaits the sending of the close frame (`websocket.rs:81-83`), which a client that does not
read may hold. `ServerSpec` has no fairness, and that a rejected channel feeds no second
detection is the safety property `DetectionsCounted`.

## Findings

1. `ListedCounted`: README (`Stateful stages`) and `docs/api.md` say whitelisted and
   exempt addresses are never counted, a comment (`fairing.rs:554`) that whitelisted ones
   never are and exempt ones are. The body phase counts an exempt address always and a
   whitelisted one wherever the gate's decision was not recorded: on an excluded path, for a
   preflight, past an `ip` bypass, on a route with an IP list of its own. The trace has one
   of each.
2. `ExcludedScreened`: an excluded path is said to bypass the whole pipeline,
   detection included; the data guard scans, feeds and refuses there.
3. `PassiveRefuses`: passive mode is said to render no 400, 403 or 429; the
   route carrier's own checks refuse in passive mode.
4. `RetryAfterLost`: a throttled request is said to carry `Retry-After`; the
   rewrite of an unrouted path drops it when a custom body is recorded.

Met while modelling, without a run of their own: a passive fairing (`with_passive_mode`)
with a response processor that enforces bars and bans by its usage rules, and stages
built to enforce refuse, each by its own switch; `with_ip_banning` and
`with_rate_limiting` say their stages run before the metadata scan, the scan is first;
the 503 catcher ignores `custom_error_responses`; a body refused for a finding the
stage's feed does not count (a whitelisted or unattributed client's) is answered without
the custom 400 body, which rides the feed's answer only; the body scan reads neither the
`penetration` bypass nor the route's detection toggle; a 413 is not recorded as a
refusal, so the headers event is sent for it (`EventOnlyWhenForwarded` names the
exception); the comment on usage rules calls the processor's ban manager shared,
`from_security_config` gives it its own; a 404 is called proof that no handler ran, and
an unguarded handler can answer one, which the rewrite then discards
(`HandlersAnswerStands` names the exception). The WebSocket feed is called shared with
the HTTP counts, but `with_ip_banning` makes the stage's counters itself and hands none
out, so the two never count together; the WebSocket sequence rate-limits exempt
addresses. The carrier's detection-exclusion group is said to resolve through the
engine's view (`with_route_configs`), but the scan reads only the direct override and
the exclusion resolver. A catcher of the application at another base keeps the guard
from registering its own at `/`. An application fairing that ignites after the guard and
registers one of its codes aborts the launch (`GuardNeverCollides` says whose it is). A
second attached guard fairing is silently ignored in what it built, its refusals are
lost and each request takes two hits. A reset through a clone taken before
`with_rate_limiting` clears nothing that is used; `with_passive_mode` called after
`from_security_config` leaves the stages built from it as they are.

## Proofs

tlapm checks, for all values of the constants that meet the assumptions:

* `TypeCorrect`: `Spec => []TypeOK`. `TypeOK` is inductive as it stands; its
  proof has one step per action and lemmas for what the answers, the stores'
  state functions and the renderers return.
* `Mediation`, `SingleHit`, `BansBite`: `Spec => []CompleteMediation`,
  `Spec => []OneHit`, `Spec => []BanBites`.

The last three share one inductive invariant, `IInv` of `MediationProofs`. The
properties speak of a handler that ran, long after the checks that allowed it;
nothing in the state at that point repeats the checks. `Way(r)` therefore states,
for each label, what is established for the request when it gets there: behind
the gates no gate check refuses it, before the tiers no ban has held since
its arrival, a Clean metadata verdict stands for "every check passed, one hit if
throttled, no ban held", a buffered body is within its cap, and with the fairing
attached the verdict slot is filled once `evaluate` has returned (the data guard
reads an empty slot as Clean, so mediation rests on this). `HeldIsLive`
ties the history variable `banHeld` to the ban store: no step of a request ends
a ban (`ProgressExtends`), and the clock and an unban reset `banHeld`
themselves. `StepOrAside` splits a step into the request's own and all others,
which change nothing of it but may end its ban (`AsideKeepsWay`); then there is one
lemma per group of actions. `FirstOfNone` proves of the first-refusal operator
that "none" means that no check of the list refuses, by well-foundedness of the
naturals.

`RefusalProofs` follows a refusal to the client. The properties speak of answered
requests; `OutcomeWay(r)` says for each label what becomes of a refusal on the way: what
a guard's error stands for while Rocket dispatches it (`Caught`), what `on_response` is
handed (`Handed`), and that the answer is what the rewrite, the redirect and the modifier
make of that (`Delivered`). Then `StatusIsKept` and `EventsAreForwarded` are facts about
the end of the way, `ShieldKept` compares two ends through the renderers (`Bodied`: a
stage's refusal always recorded its body), and `PassiveOnlyWatches` adds that
in a passive fairing nothing bans but the operator and the rules of a processor that
enforces (`NoPassiveBans`); the checks a refusal may come from are those that do not read
the fairing's switch (`PassiveRefusals`). `BodiesRide` is about the slot that keeps its last
value: by `BodyWay` it is empty until `evaluate` has its verdict and holds nothing for a Clean
one, so that what a guard records for its own refusal replaces nothing.

`AnswersStand` follows the other outcome on the same way: what a handler answered is what
`on_response` is handed and what leaves it (`OutcomesKeepAnswers`), unless the redirect or
the rewrite takes an unguarded handler's, and these two need a recorded refusal.

`AccountingProofs` proves that counters are cardinalities: `UsageIsAccounted`,
`ViolationsAreAccounted`, `LimitIsKept`. The usage log is one per endpoint and client,
and its entries in the rule's window at any time are as many as the requests shown by
then (`LogAppended`); `BarsAreEarned` reads the answer of the rule off that. `Tally` is
the step of all three: the request that moves joins the counted set exactly if the
counter moves by one, and every other request stays where it was; finiteness of the set
is carried along, so `Requests` need not be finite. `DetectionInv` needs `Outcomes` (a
finding is fed in one phase at most), that a request barred by a usage rule is barred
before the stage, and `GateInv`: past the gates the slot says whitelisted exactly for a
request whose gate ran and found its address so (`Spared`), and never for a request that
took another way; `WindowInv` needs that the log of a window still holds an entry for
every fresh hit (`HitsHeld`: no store flip loses one, and a reset forgets the log and
its hits together) before it can bound the admitted by the limit.

`PassiveIsAccounted` is `DetectionInv`'s counterpart for passive mode (`PassiveInv`): there
the metadata phase lets a finding through after counting it and the body phase scans the
metadata views again, so the counter is the sum of two cardinalities.
`BansFollowCounters` proves an action property, `Spec => BansAreEarned`, with no invariant but
the types: each action that writes the ban store either counts the violation with
which the counter reaches the threshold (`CrossingEarns`, `FeedEarns`, `TiersEarn`), or is a
rule's ban (`RuleEarns`) or the operator's, and in the other direction a counter that
reaches it bans in that step.

`PromiseKept` is the safety half of the refinement: `PhaseOf` maps a
label to a phase of `GuardPromise`, and one lemma per group of actions shows its
step to be the promise's step for that request and a stutter for all others. It
rests on `IInv`, too: that a request charged in one step was not charged before,
and that a response leaves for a request that was decided, is nowhere in the step.

`ServerProofs` carries the pipeline's invariant over to the composition by
interference. A step of a channel changes nothing of the pipeline but the ban
store, and there it only prolongs bans; that is all `IInv` asks of a step that is
not a request's own. A step of the pipeline changes nothing of a channel but the
time and the bans. `SInv` is `IInv` with `SocketTypeOK`, `SocketWay`, which says
for each label of a connection what the arms behind it have established, and
`HeldSocket`, the channels' `HeldIsLive`. From it: `ServerTypeCorrect`,
`ChannelMediation`, `BansHoldAtTheUpgrade` and `PipelineBesideChannels`
(mediation, single hit and bans of the pipeline under `ServerSpec`). `ChannelInv` adds
the channels' own accounts, `FeedIsAccounted` and `UpgradeLimitIsKept`: a connection is
judged once (`JudgedOnce`) and the limiter's log holds every upgrade it let through
(`WsHitsHeld`). `AccountsBesideChannels` carries the accounts, the limit, the events, the
statuses and the shield of the pipeline over, under `AccountInv`. `PassiveOnlyObserves`
is not among them: a channel bans whatever the pipeline's passive switch says.
`BodyRidesItsRefusal` and `UsageBarsAreEarned` are not carried over; a channel writes none of
the state they are about.
`PromiseKeptBeside` is the refinement again, under `ServerSpec`: a step of the pipeline is
the promise's as before, and a channel's is a stutter or the ban of one address
(`SocketKeepsPromise`), the operator's part in the promise. `BansFollowBothGuards` is
the action property for two sets of counters that ban into one manager.

`ApplicationProofs`: `LaunchIsSafe`, `OneEngineServes` and `FirstVerdictHolds` share
`AInv`. `LaunchWay` says that every catcher is the application's or that of a fairing
already ignited, so that `Unclaimed` sees all there are; `EngineWay`
that there is at most one engine and, while serving with a guard attached, exactly
one; `RequestWay` that the verdict slot holds what the first guard fairing
returned and a request has read no engine but the managed one.
`PayloadsGrow` needs `CloudWay` (one job at most, its number the last scheduled, and newer
than every row it still has to fetch or a payload showed) and `PayloadWay`: a row of the table
or of the payload being read is unready or no older than any shown (`Follows`), and where one
was read or shown unready, what stands in the table now is newer than all that was shown.

`SwitchInv` holds beside `AInv` and gives `SwitchesReach`, `ResetReaches` and
`ApplicationTypes`. `FairingWay` says that a fairing still as a passive configuration
built it has every copy of the switch passive, which each builder keeps or gives up by
changing the origin; `ChargeWay`, that the managed engine is the one of the first guard of
the chain; `CauseWay`, that a refusal in the verdict slot is that fairing's and names a
cause its switches allow. The last needs `AInv`: a request with no verdict yet is at the
first guard (`FirstMeetsInCharge`). `WindowWay` compares the windows of that engine's limiter
with the hits counted since the last reset.

`QueryViewsProofs`: `DecodeAlike` says that the two decoders are one function, for
every component. Both run the loop of `DecodeTokens`, so it is enough that the tokens agree
at each position (`TokensAgree`), which needs no induction over the bytes; the sign
`from_str_radix` accepts is harmless because no plus is left when it runs. `ViewsAgree`
is `Spec => []DecodersAgree`: the pairs agree as well, the empty query included, which
only one of the two treats apart.

`FormsComeBack` is `Spec => []FormRoundTrip`, and this is an induction over the bytes. The
library's induction theorems are stated for an operator, which the provers cannot
instantiate; `NaturalsAreReached` states induction for a set of naturals instead, from
well-foundedness, and each use names the set it reaches (`Reached`). Three things need it:
that the recursive functions behind `FlattenSeq` and `DecodeTokens` exist at all
(`FlattenExists`, `DecodeExists`; a recursive definition is a CHOOSE and says nothing until one
is known), that a flattening lays its pieces end to end (`FlattenLays`), and that the
decoder's loop steps along them (`DecodeAlong`). What is left is arithmetic of the
nibbles (`EncodedByteIs`, `DecodeEncoded`) and the split: no encoded byte is a separator
(`FormBytes`), so the pieces and halves found are those that were joined (`TwoChunks`,
`SplitJoined`).

Model-checked only: `EveryRequestAnswered` (liveness under fairness is out of the prover's
reach). Every other property
of a passing run is a theorem. Neither checked nor proved is that the model's inputs agree
with what the engine detects.

## Not modelled

The detection engine (patterns, scores, exclusions): a dependency without state.
Per-route rate-limit tiers: the adapter only builds the list; how tiers combine
is decided in guard_core_rs and nothing here pins it. The header sets and the
threshold of return rules; the builders that only store a collaborator; `on_block`
hooks, logs and events other than the headers one; the user-agent stage's own
detection feed (it happens inside that stage, with stores of its own); the JSON
text of the status payload and its geo component; the examples. An engine's panic
outside the `catch_unwind`s is not in the models.

## What could follow

1. The response pass's header sets and the per-route tiers, once their behaviour is
   fixed in this repository or its dependency is read beside it.
2. The three hazards without a property, each with the reason it has none in `PROJECT.json`:
   a carrier replaced by a request guard after `evaluate` has read it, `with_passive_mode`
   called after `from_security_config`, and the answer of an unguarded handler the rewrite
   discards. For all three the repository does not say what should hold.
