---------------------------- MODULE Application -----------------------------
(***************************************************************************)
(* A Rocket application around the guard, from its builder calls to the    *)
(* requests it serves: it builds fairings, keeps clones of them to operate *)
(* with, registers catchers, attaches one guard fairing or more, launches, *)
(* and then every request passes the attached fairings in their order and  *)
(* the guard of its route.                                                 *)
(*                                                                         *)
(* Rocket runs the ignite callbacks in the order of attachment and then    *)
(* refuses to launch when two catchers share a code and a base.            *)
(***************************************************************************)
EXTENDS GuardBuilder, CloudStatus, Verdicts

CONSTANTS
    SecurityConfigs,   \* the configurations it may load
    MaxFairings,       \* bound: fairings attached
    MaxCalls,          \* bound: builder calls
    AppCodes, Bases,   \* catchers the application may register
    Requests,          \* request slots
    Limit              \* hits a limiter allows the clients' address

ASSUME ApplicationAssumption ==
    /\ SecurityConfigs \subseteq SecurityConfig
    /\ MaxFairings \in Nat \ {0}
    /\ MaxCalls \in Nat
    /\ AppCodes \subseteq 400..599
    /\ Bases \subseteq STRING
    /\ Limit \in Nat \ {0}

VARIABLES
    phase,      \* building, igniting, serving or aborted
    draft,      \* the fairing being built
    kept,       \* the clone the application keeps for its operator
    created,    \* stores created so far
    calls,      \* builder calls made so far
    chain,      \* the attached fairings
    catchers,   \* the registered catchers and who registered them
    ignited,    \* fairings whose on_ignite has run
    managed,    \* Rocket's managed state: no GuardEngine, or one
    windows,    \* store of a limiter -> hits of the clients' address
    at,         \* where each request is: the next fairing of the chain
    asks,       \* what of it a check would object to
    verdict,    \* request-local slot Metadata
    outcome,    \* what became of it
    \* History, read by properties only:
    first,      \* what the first guard fairing returned for it
    read,       \* the engines its fairings and its guard read
    counted     \* hits since the last reset on the limiter of the fairing in charge

appVars == <<phase, draft, kept, created, calls, chain, catchers, ignited,
             managed, windows, at, asks, verdict, outcome, first, read,
             counted>>
buildVars == <<draft, kept, created, calls, chain>>
launchVars == <<catchers, ignited, managed>>
requestVars == <<at, asks, verdict, outcome, first, read, counted>>

\* An attached fairing: the guard, or one of the application that registers a
\* catcher for `code` at "/" when it ignites.
GuardLink(f) == [code |-> 0, guard |-> f]
AppLink(code) == [code |-> code, guard |-> New]
IsGuard(link) == link.code = 0

\* What a check may object to: nothing, a check stage, the IP gate, the
\* metadata views or the body.
Objections == {"nothing", "ip_gate", "metadata", "body"} \cup Stages
Answers == {"none", "clean", "refused"}

ApplicationTypeOK ==
    /\ phase \in {"building", "igniting", "serving", "aborted"}
    /\ {draft, kept} \subseteq Fairing
    /\ created \in Stores
    /\ calls \in 0..MaxCalls
    /\ chain \in Seq([code : Nat, guard : Fairing])
    /\ catchers \subseteq [code : Nat, base : Bases \cup {"/"}, by : Nat]
    /\ ignited \in 0..Len(chain)
    /\ managed \subseteq GuardEngine /\ Cardinality(managed) <= 1
    /\ windows \in [Stores -> 0..(Limit + 1)] /\ counted \in Nat
    /\ at \in [Requests -> Nat]
    /\ asks \in [Requests -> Objections]
    /\ verdict \in [Requests -> Answers]
    /\ outcome \in [Requests -> {"idle", "pending", "ran", "refused"}]

Init ==
    /\ CloudInit
    /\ phase = "building"
    /\ draft = New
    /\ kept = New
    /\ created = 0
    /\ calls = 0
    /\ chain = <<>>
    /\ catchers = {}
    /\ ignited = 0
    /\ managed = {}
    /\ windows = [s \in Stores |-> 0]
    /\ at = [r \in Requests |-> 0]
    /\ asks = [r \in Requests |-> "nothing"]
    /\ verdict = [r \in Requests |-> "none"]
    /\ outcome = [r \in Requests |-> "idle"]
    /\ first = [r \in Requests |-> "none"]
    /\ read = [r \in Requests |-> {}]
    /\ counted = 0

----------------------------------------------------------------------------
(* Building.                                                               *)

Building ==
    /\ phase = "building"
    /\ UNCHANGED <<phase, launchVars, windows, requestVars, cloudVars>>

\* A builder call: it makes `new` stores and leaves f.
Builds(f, new) ==
    /\ Building
    /\ calls < MaxCalls
    /\ created + new <= MaxStores
    /\ draft' = f
    /\ calls' = calls + 1
    /\ created' = created + new
    /\ UNCHANGED <<kept, chain>>

\* The host makes a limiter for the call, or shares the one of its clone.
CallRateLimiting ==
    \/ Builds(WithRateLimiting(draft, created + 1), 1)
    \/ kept.rate_limiter # 0 /\ Builds(WithRateLimiting(draft, kept.rate_limiter), 0)

CallBuilder ==
    \/ Builds(WithIpGate(draft), 0)
    \/ \E b \in BOOLEAN : Builds(WithPassiveMode(draft, b), 0)
    \/ \E b \in BOOLEAN : Builds(WithPenetrationDetection(draft, b), 0)
    \/ Builds(WithCloudRefreshScheduler(draft), 0)

CallStage ==
    \E s \in Stages : Builds(WithStage(draft, s, "enforcing"), 0)

\* from_security_config, which answers with an error instead when the engine
\* rejects a value: the application then has no fairing from it.
CallSecurityConfig ==
    \E c \in SecurityConfigs :
        /\ ~Rejected(c)
        /\ Builds(FromSecurityConfig(c, created + 1), 1)

\* A clone is worth keeping for the limiter or the scheduler it shares.
KeepClone ==
    /\ Building
    /\ draft.rate_limiter # 0 \/ "cloud_refresh" \in draft.has
    /\ kept' = draft
    /\ UNCHANGED <<draft, created, calls, chain>>

\* The application attaches a clone of the draft and may go on building.
Attach ==
    /\ Building
    /\ Len(chain) < MaxFairings
    /\ chain' = Append(chain, GuardLink(draft))
    /\ UNCHANGED <<draft, kept, created, calls>>

AttachOwn ==
    /\ Building
    /\ Len(chain) < MaxFairings
    /\ \E code \in AppCodes : chain' = Append(chain, AppLink(code))
    /\ UNCHANGED <<draft, kept, created, calls>>

RegisterCatcher ==
    /\ phase = "building"
    /\ catchers = {}
    /\ \E code \in AppCodes, base \in Bases :
          catchers' = catchers \cup {[code |-> code, base |-> base, by |-> 0]}
    /\ UNCHANGED <<phase, ignited, managed, buildVars, windows, requestVars, cloudVars>>

----------------------------------------------------------------------------
(* Launching.                                                              *)

Launch ==
    /\ phase = "building"
    /\ phase' = "igniting"
    /\ UNCHANGED <<buildVars, launchVars, windows, requestVars, cloudVars>>

\* Mutant: every code is registered, claimed or not.
UnclaimedAny(claimed) == CatcherCodes

\* The guard's codes no catcher claims, whatever its base.
Unclaimed(claimed) == CatcherCodes \ claimed

\* Mutant: every guard fairing manages an engine.
ManagedAfterAny(f) == managed \cup {EngineOf(f)}

\* An engine managed by an earlier fairing stays.
ManagedAfter(f) == IF managed = {} THEN {EngineOf(f)} ELSE managed

OnIgnite ==
    LET next == ignited + 1
        link == chain[next]
        codes == IF IsGuard(link) THEN Unclaimed({c.code : c \in catchers}) ELSE {link.code}
    IN /\ phase = "igniting"
       /\ next <= Len(chain)
       /\ ignited' = next
       /\ managed' = IF IsGuard(link) THEN ManagedAfter(link.guard) ELSE managed
       /\ catchers' = catchers \cup [code : codes, base : {"/"}, by : {next}]
       /\ UNCHANGED <<phase, buildVars, windows, requestVars, cloudVars>>

Collide(x, y) == x # y /\ x.code = y.code /\ x.base = y.base

Liftoff ==
    /\ phase = "igniting"
    /\ ignited = Len(chain)
    /\ phase' = IF \E x, y \in catchers : Collide(x, y) THEN "aborted" ELSE "serving"
    /\ UNCHANGED <<buildVars, launchVars, windows, requestVars, cloudVars>>

----------------------------------------------------------------------------
(* Serving.                                                                *)

Serving ==
    /\ phase = "serving"
    /\ UNCHANGED <<phase, buildVars, launchVars>>

\* The cloud table and the requests share no state: their steps commute, and
\* it is enough to explore one or the other.
Quiet == outcome = [r \in Requests |-> "idle"]
CloudQuiet == scheduled = 0 /\ rows = <<>> /\ report = <<>>

\* The next request in a slot finds its request-local slots empty.
Arrive(r) ==
    /\ Serving
    /\ CloudQuiet
    /\ outcome[r] # "pending"
    /\ outcome' = [outcome EXCEPT ![r] = "pending"]
    /\ \E o \in Objections : asks' = [asks EXCEPT ![r] = o]
    /\ at' = [at EXCEPT ![r] = 1]
    /\ verdict' = [verdict EXCEPT ![r] = "none"]
    /\ first' = [first EXCEPT ![r] = "none"]
    /\ read' = [read EXCEPT ![r] = {}]
    /\ UNCHANGED <<windows, counted, cloudVars>>

\* Mutant: a fairing evaluates with the engine it was built with.
EngineForOwn(f) == EngineOf(f)

\* evaluate: the managed engine, whoever built it.
EngineFor(f) == CHOOSE e \in managed : TRUE

\* The fairing's own checks and switches refuse before the stage is asked.
RefusesBefore(f, ask) ==
    \/ ask = "ip_gate" /\ "ip_gate" \in f.has /\ ~f.passive_mode
    \/ ask \in Stages /\ f.stages[ask] = "enforcing"

OverLimit(e) == e.stage.limiter # 0 /\ windows[e.stage.limiter] >= Limit

\* The detection switch is the fairing's, the passive mode the stage's.
EvaluateAnswer(f, e, ask) ==
    IF \/ RefusesBefore(f, ask)
       \/ OverLimit(e) /\ ~e.stage.passive_mode
       \/ ask = "metadata" /\ f.penetration /\ ~e.stage.passive_mode
    THEN "refused" ELSE "clean"

WindowsAfter(f, e, ask) ==
    IF RefusesBefore(f, ask) \/ e.stage.limiter = 0 THEN windows
    ELSE [windows EXCEPT ![e.stage.limiter] = IF @ > Limit THEN @ ELSE @ + 1]

\* Mutant: the slot keeps the last verdict.
StashLast(slot, answer) == answer

\* local_cache keeps the first verdict stashed.
Stash(slot, answer) == IF slot = "none" THEN answer ELSE slot

\* on_request of the next fairing of the chain.
OnRequest(r) ==
    /\ Serving
    /\ outcome[r] = "pending"
    /\ at[r] <= Len(chain)
    /\ at' = [at EXCEPT ![r] = @ + 1]
    /\ LET link == chain[at[r]]
           e == EngineFor(link.guard)
           answer == EvaluateAnswer(link.guard, e, asks[r])
       IN IF IsGuard(link)
          THEN /\ windows' = WindowsAfter(link.guard, e, asks[r])
               /\ verdict' = [verdict EXCEPT ![r] = Stash(@, answer)]
               /\ first' = [first EXCEPT ![r] = IF @ = "none" THEN answer ELSE @]
               /\ read' = [read EXCEPT ![r] = @ \cup {e}]
               /\ counted' = IF windows' = windows THEN counted ELSE counted + 1
          ELSE UNCHANGED <<windows, verdict, first, read, counted>>
    /\ UNCHANGED <<asks, outcome, cloudVars>>

BodyRefused(e, ask) == ask = "body" /\ e.penetration /\ ~e.stage.passive_mode

\* GuardBody::from_data: without a managed engine it refuses; otherwise the
\* stashed verdict decides, then the scan of the body.
Passes(r) ==
    \E e \in managed : verdict[r] # "refused" /\ ~BodyRefused(e, asks[r])

RunGuard(r) ==
    /\ Serving
    /\ outcome[r] = "pending"
    /\ at[r] > Len(chain)
    /\ outcome' = [outcome EXCEPT ![r] = IF Passes(r) THEN "ran" ELSE "refused"]
    /\ read' = [read EXCEPT ![r] = @ \cup managed]
    /\ UNCHANGED <<windows, at, asks, verdict, first, counted, cloudVars>>

GuardLinks == {i \in DOMAIN chain : IsGuard(chain[i])}

\* The fairing whose engine is managed.
InCharge == chain[CHOOSE i \in GuardLinks : \A j \in GuardLinks : i <= j].guard

\* reset through the clone kept: the windows of its limiter, if it has one.
Reset ==
    /\ Serving
    /\ kept.rate_limiter # 0
    /\ windows' = [windows EXCEPT ![kept.rate_limiter] = 0]
    /\ counted' = IF GuardLinks # {} /\ kept.rate_limiter = InCharge.rate_limiter
                  THEN 0 ELSE counted
    /\ UNCHANGED <<at, asks, verdict, outcome, first, read, cloudVars>>

RefreshCloud ==
    /\ Serving
    /\ Quiet
    /\ RefreshCloudIpRanges("cloud_refresh" \in kept.has)
    /\ UNCHANGED <<windows, requestVars>>

\* The status route serves the table the refreshes fill.
Background ==
    /\ Serving
    /\ Quiet
    /\ "cloud_refresh" \in kept.has
    /\ CloudBackground
    /\ UNCHANGED <<windows, requestVars>>

----------------------------------------------------------------------------

Next ==
    \/ CallRateLimiting \/ CallBuilder \/ CallStage
    \/ CallSecurityConfig \/ KeepClone \/ Attach \/ AttachOwn \/ RegisterCatcher
    \/ Launch \/ OnIgnite \/ Liftoff
    \/ \E r \in Requests : Arrive(r) \/ OnRequest(r) \/ RunGuard(r)
    \/ Reset \/ RefreshCloud \/ Background

allVars == <<appVars, cloudVars>>

Spec == Init /\ [][Next]_allVars

----------------------------------------------------------------------------
(* Properties.                                                             *)

TypeOK == ApplicationTypeOK /\ CloudTypeOK

\* Two catchers that abort the launch are never the guard's doing: the later
\* one is an application fairing's, however often the guard is attached and
\* whatever the application registered, at whatever base.
GuardNeverCollides ==
    \A x, y \in catchers :
        Collide(x, y) /\ x.by < y.by => y.by # 0 /\ ~IsGuard(chain[y.by])

\* Every fairing that evaluates a request and the guard of its route read the
\* same engine, so two guard fairings do not split a client's windows.
OneEngine == \A r \in Requests : Cardinality(read[r]) <= 1

\* What the first guard fairing refused is refused, whatever the fairings
\* behind it make of the request.
FirstVerdictStands ==
    \A r \in Requests : outcome[r] = "ran" => first[r] = "clean"

\* The switches of a fairing are copied: to its own checks, to the engine the
\* guards read and to the stage.  These copies of passive_mode and of the
\* detection switch agree, in both phases: a server built from a passive
\* configuration refuses for none of the causes those read, and with detection
\* off, and no limiter, no scanned request is refused.
SwitchesReachEveryCopy ==
    GuardLinks # {} =>
        \A r \in Requests : outcome[r] = "refused" =>
            /\ InCharge.origin # "passive"
            /\ asks[r] \in {"metadata", "body"} /\ ~InCharge.penetration =>
                  InCharge.rate_limiter # 0

\* reset, called on a clone of the fairing in charge or on any that shares its
\* limiter, empties the windows the stage checks: no window holds a hit from
\* before it, so no request is throttled for one.
ResetReachesTheStage ==
    \A e \in managed : e.stage.limiter # 0 => windows[e.stage.limiter] <= counted

\* A payload shows a provider unready or with ranges no older than those of any
\* payload before it; and once one has shown it unready, ranges that were shown
\* earlier are gone for good: only newer ones make it ready again.  Whatever
\* refreshes the operator asks for meanwhile, and whichever of them fail.
ReportsNeverGoBack ==
    [][report' # <<>> =>
          \A i \in Rows : report'[i] # 0 =>
              /\ report'[i] >= newest[i]
              /\ report # <<>> /\ report[i] = 0 => report'[i] > newest[i]]_allVars

=============================================================================
