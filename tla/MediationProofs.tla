-------------------------- MODULE MediationProofs --------------------------
(***************************************************************************)
(* Complete mediation, the single hit and the bite of a ban, proved for    *)
(* any number of requests, addresses and configurations.                   *)
(*                                                                         *)
(* The three properties speak of handlers that ran.  They are not          *)
(* inductive: what makes them true is what on_request leaves in the slots  *)
(* on the way.  Way(r) says, for each point a request may be at, what has  *)
(* been established for it by then.                                        *)
(***************************************************************************)
EXTENDS GuardPipelineProofs, WellFoundedInduction

----------------------------------------------------------------------------
(* The first refusing check.                                               *)

\* A set of naturals has its minimum.
LEMMA MinOfNaturals ==
    ASSUME NEW S \in SUBSET Nat, S # {}
    PROVE  Min(S) \in S
<1> DEFINE Less == OpToRel(<, Nat)
<1>1. \A m, n \in Nat : m < n => <<m, n>> \in Less
  BY DEF OpToRel
<1>2. \E n \in S : \A m \in S : ~(<<m, n>> \in Less)
  <2> HIDE DEF Less
  <2> QED BY WFMin, NatLessThanWellFounded DEF Less
<1> HIDE DEF Less
<1>3. PICK n \in S : \A m \in S : ~(<<m, n>> \in Less)
  BY <1>2
<1>4. \A m \in S : n <= m
  <2> SUFFICES ASSUME NEW m \in S PROVE n <= m
    OBVIOUS
  <2>1. ~(m < n)
    BY <1>1, <1>3
  <2> QED BY <2>1
<1> QED BY <1>4 DEF Min

\* When a list of checks refuses nothing, none of its checks refuses.
LEMMA FirstOfNone ==
    ASSUME NEW q, NEW g, NEW order,
           DOMAIN order \subseteq Nat,
           "none" \notin ChecksOf(order),
           FirstRefusal(q, g, order) = "none"
    PROVE  \A c \in ChecksOf(order) : ~Refuses(q, g, c)
<1> DEFINE holding == {i \in DOMAIN order : Refuses(q, g, order[i])}
<1>1. ASSUME holding # {} PROVE FALSE
  <2>1. holding \subseteq Nat
    OBVIOUS
  <2>2. Min(holding) \in holding
    <3> HIDE DEF holding
    <3> QED BY <1>1, <2>1, MinOfNaturals
  <2>3. order[Min(holding)] \in ChecksOf(order)
    BY <2>2 DEF ChecksOf
  <2>4. FirstRefusal(q, g, order) = order[Min(holding)]
    BY <1>1 DEF FirstRefusal, FirstOf
  <2> QED BY <2>3, <2>4
<1> QED BY <1>1 DEF ChecksOf

LEMMA OrderTypes ==
    /\ DOMAIN RouteIpOrder \subseteq Nat /\ "none" \notin ChecksOf(RouteIpOrder)
    /\ DOMAIN GateOrder \subseteq Nat /\ "none" \notin ChecksOf(GateOrder)
    /\ DOMAIN LateOrder \subseteq Nat /\ "none" \notin ChecksOf(LateOrder)
BY DEF RouteIpOrder, GateOrder, LateOrder, ChecksOf

----------------------------------------------------------------------------
(* The inductive invariant.                                                *)

Evaluating == {"preamble", "gates", "bans", "tiers"}

\* No ban that applies to the request has held since it arrived.
NotHeld(r) == BanApplies(r) => ~banHeld[r]

\* No check up to and including the metadata scan refuses the request.
GatesPassed(r) ==
    \A c \in ChecksOf(RouteIpOrder) \cup ChecksOf(GateOrder) : ~Refuses(Q(r), gate[r], c)

\* What the Clean verdict of the metadata phase stands for.
Passed(r) ==
    /\ cfg.attached
    /\ Screened(r) => Cleared(r)
    /\ Screened(r) /\ StagePassRuns(r) /\ Throttles(Q(r).ip, gate[r]) => hits[r] = 1
    /\ NotHeld(r)

\* The data guard holds a body it may scan.
Buffered(r) ==
    /\ DataGuarded(Q(r))
    /\ cfg.attached
    /\ Q(r).size <= EffectiveCap(r)
    /\ Q(r).body # "broken"

\* The guards let the request through.
LetThrough(r) ==
    Guarded(Q(r)) => metadata[r] = Clean /\ (DataGuarded(Q(r)) => BodyCleared(r))

Way(r) ==
    /\ pc[r] \in Evaluating \cup {"idle"} => metadata[r] = NoVerdict /\ hits[r] = 0
    /\ pc[r] \in Evaluating => cfg.attached
    /\ pc[r] \in {"gates", "bans", "tiers"} => Screened(r) /\ ~Q(r).badRates
    /\ pc[r] \in {"bans", "tiers"} => GatesPassed(r)
    /\ pc[r] = "tiers" => NotHeld(r)
    /\ cfg.attached /\ pc[r] \notin Evaluating \cup {"idle"} => metadata[r] # NoVerdict
    /\ hits[r] <= 1
    /\ hits[r] # 0 => NotHeld(r)
    /\ metadata[r] = Clean => Passed(r)
    /\ pc[r] = "read" =>
          DataGuarded(Q(r)) /\ (BlockGuarded(Q(r)) => metadata[r] = Clean)
    /\ pc[r] = "screen" => Buffered(r)
    /\ pc[r] = "handler" => LetThrough(r)
    /\ ran[r] => pc[r] \in {"respond", "done"} /\ LetThrough(r)

\* A ban held since the arrival of a request still in flight is live.
HeldIsLive(r) ==
    banHeld[r] /\ InFlight(r) => Q(r).ip \in Ips /\ LiveBan(Q(r).ip)

IInv ==
    /\ TypeOK
    /\ \A r \in Requests : Way(r) /\ HeldIsLive(r)

----------------------------------------------------------------------------
(* What a step leaves alone.                                               *)

\* A check answers by the configuration, the request and the gate's decision.
LEMMA RefusesStable ==
    ASSUME NEW r \in Requests, NEW c, NEW g, cfg' = cfg, req'[r] = req[r], gate'[r] = g
    PROVE  Refuses(Q(r), gate[r], c)' <=> Refuses(Q(r), g, c)
<1>1. Q(r)' = Q(r)
  BY DEF Q
<1>2. MetadataScanned(Q(r))' <=> MetadataScanned(Q(r))
  BY <1>1 DEF MetadataScanned, Bypassed
<1>3. GlobalGateRuns(Q(r))' <=> GlobalGateRuns(Q(r))
  BY <1>1 DEF GlobalGateRuns, Bypassed
<1>4. Finds(Q(r), c)' <=> Finds(Q(r), c)
  BY <1>1, <1>2, <1>3 DEF Finds
<1>5. SkippedFor(Q(r), gate[r], c)' <=> SkippedFor(Q(r), g, c)
  BY <1>1 DEF SkippedFor, Skips
<1> QED BY <1>1, <1>4, <1>5 DEF Refuses, Bypassed, Silenced

\* The configuration and what the request and its gate decision are stay.
Same(r) ==
    /\ cfg' = cfg
    /\ req'[r] = req[r]
    /\ gate'[r] = gate[r]
    /\ capOf'[r] = capOf[r]

LEMMA SameStable ==
    ASSUME NEW r \in Requests, Same(r)
    PROVE  /\ Q(r)' = Q(r)
           /\ Screened(r)' <=> Screened(r)
           /\ Cleared(r)' <=> Cleared(r)
           /\ GatesPassed(r)' <=> GatesPassed(r)
           /\ BanApplies(r)' <=> BanApplies(r)
           /\ Throttles(Q(r).ip, gate[r])' <=> Throttles(Q(r).ip, gate[r])
           /\ StagePassRuns(r)' <=> StagePassRuns(r)
           /\ BodyCleared(r)' <=> BodyCleared(r)
           /\ Buffered(r)' <=> Buffered(r)
<1> USE DEF Same
<1>1. Q(r)' = Q(r)
  BY DEF Q
<1>2. Screened(r)' <=> Screened(r)
  BY <1>1 DEF Screened, AnswersPreflight
<1>3. \A c : Refuses(Q(r), gate[r], c)' <=> Refuses(Q(r), gate[r], c)
  BY RefusesStable
<1>4. Finding(Q(r))' <=> Finding(Q(r))
  BY <1>1 DEF Finding, MetadataScanned, Bypassed
<1>5. Cleared(r)' <=> Cleared(r)
  BY <1>1, <1>3, <1>4 DEF Cleared
<1>6. GatesPassed(r)' <=> GatesPassed(r)
  BY <1>3 DEF GatesPassed
<1>7. BanApplies(r)' <=> BanApplies(r)
  BY <1>1, <1>2 DEF BanApplies, Bypassed
<1>8. Throttles(Q(r).ip, gate[r])' <=> Throttles(Q(r).ip, gate[r])
  BY <1>1 DEF Throttles, Skips
<1>9. StagePassRuns(r)' <=> StagePassRuns(r)
  BY <1>1 DEF StagePassRuns, Bypassed
<1>10. EffectiveCap(r)' = EffectiveCap(r)
  BY DEF EffectiveCap
<1>11. BodyCleared(r)' <=> BodyCleared(r)
  BY <1>1, <1>10 DEF BodyCleared, BodyScanned, ScanPanics, ScanFlags
<1>12. Buffered(r)' <=> Buffered(r)
  BY <1>1, <1>10 DEF Buffered, DataGuarded
<1> QED BY <1>1, <1>2, <1>5, <1>6, <1>7, <1>8, <1>9, <1>11, <1>12

\* A step that is not the request's own changes nothing of it, but may end
\* the ban it has been under.
Aside(r) ==
    /\ Same(r)
    /\ pc'[r] = pc[r]
    /\ metadata'[r] = metadata[r]
    /\ enforced'[r] = enforced[r]
    /\ body'[r] = body[r]
    /\ preflight'[r] = preflight[r]
    /\ err'[r] = err[r]
    /\ resp'[r] = resp[r]
    /\ event'[r] = event[r]
    /\ ran'[r] = ran[r]
    /\ hits'[r] = hits[r]
    /\ barred'[r] = barred[r]
    /\ shown'[r] = shown[r]
    /\ banHeld'[r] => banHeld[r]

\* The steps of one request are no step of another.
LEMMA OthersAside ==
    ASSUME TypeOK, NEW s \in Requests, NEW r \in Requests, s # r, Arrive(s) \/ Progress(s)
    PROVE  Aside(r)
<1> USE DEF environment, stores, history, Aside, Same, Goto, TypeOK
<1>1. CASE Arrive(s)
  BY <1>1 DEF Arrive
<1>2. CASE ExcludedPath(s) \/ Preflight(s)
  BY <1>2 DEF ExcludedPath, Preflight, Return, FirstWins
<1>3. CASE ResolveCarrier(s)
  BY <1>3 DEF ResolveCarrier, Return, FirstWins
<1>4. CASE EvaluateGates(s) \/ BanArm(s) \/ LateRefusal(s)
  BY <1>4 DEF EvaluateGates, BanArm, LateRefusal, Return, FirstWins, Recorded
<1>5. CASE StagePass(s)
  BY <1>5 DEF StagePass, TrackHit, Return, FirstWins, Recorded
<1>6. CASE Route(s) \/ CheckBlockGuard(s) \/ ReadBody(s) \/ RunHandler(s) \/ Catch(s)
  BY <1>6 DEF Route, CheckBlockGuard, ReadBody, RunHandler, Catch, GuardError, FirstWins
<1>7. CASE ScreenBody(s)
  BY <1>7 DEF ScreenBody, TrackHit, GuardError, FirstWins, Recorded
<1>8. CASE OnResponse(s)
  BY <1>8 DEF OnResponse, Finish
<1> QED BY <1>1, <1>2, <1>3, <1>4, <1>5, <1>6, <1>7, <1>8 DEF Progress

\* The clock, the store and the operator are no request.
EnvironmentStep ==
    \/ Tick \/ StoreFlips \/ Reset
    \/ \E ip \in Ips : OperatorBan(ip) \/ OperatorUnban(ip)
    \/ UNCHANGED vars

LEMMA EnvironmentAside ==
    ASSUME TypeOK, EnvironmentStep, NEW r \in Requests
    PROVE  Aside(r)
<1> USE DEF environment, stores, history, localVars, Aside, Same, TypeOK
<1>1. CASE Tick \/ StoreFlips \/ Reset \/ \E ip \in Ips : OperatorBan(ip) \/ OperatorUnban(ip)
  BY <1>1 DEF Tick, StoreFlips, Reset, OperatorBan, OperatorUnban, TrackBans
<1>2. CASE UNCHANGED vars
  BY <1>2 DEF vars
<1> QED BY <1>1, <1>2 DEF EnvironmentStep

LEMMA StepCases ==
    ASSUME [Next]_vars
    PROVE  EnvironmentStep \/ \E r \in Requests : Arrive(r) \/ Progress(r)
BY DEF Next, Terminating, EnvironmentStep

LEMMA StepOrAside ==
    ASSUME TypeOK, [Next]_vars, NEW r \in Requests
    PROVE  Arrive(r) \/ Progress(r) \/ Aside(r)
BY StepCases, OthersAside, EnvironmentAside

LEMMA AsideKeepsWay ==
    ASSUME TypeOK, NEW r \in Requests, Way(r), Aside(r)
    PROVE  Way(r)'
<1>1. Same(r) /\ Q(r)' = Q(r)
  BY SameStable DEF Aside
<1>2. NotHeld(r) => NotHeld(r)'
  BY <1>1, SameStable DEF NotHeld, Aside
<1>3. Passed(r) => Passed(r)'
  BY <1>1, <1>2, SameStable DEF Passed, Aside, Same
<1>4. LetThrough(r) => LetThrough(r)'
  BY <1>1, SameStable DEF LetThrough, Guarded, BlockGuarded, DataGuarded, Aside
<1> QED
  BY <1>1, <1>2, <1>3, <1>4, SameStable
  DEF Way, Aside, Same, Evaluating, BlockGuarded, DataGuarded

----------------------------------------------------------------------------
(* What the answers of the checks and of the stage imply.                  *)

\* A refusal is never the Clean verdict.
LEMMA RefusalsAreNotClean ==
    ASSUME NEW q \in Request, NEW c, NEW ip, NEW g, NEW finding
    PROVE  /\ CheckVerdict(q, c) # Clean
           /\ BanAnswer(ip) # Clean
           /\ FeedAnswer(ip, g) # Clean
           /\ TierAnswer(ip, g, finding) # Clean
<1>1. \A kind \in Kinds \ {"Clean"} : Plain(kind) # Clean
  BY DEF Plain, Clean
<1>2. \A code : StageBlock(code) # Clean
  BY DEF StageBlock, Plain, CustomBlock, Clean
<1>3. NoVerdict # Clean /\ Failed # Clean
  BY VerdictTypes
<1>4. CheckVerdict(q, c) # Clean
  BY <1>1, <1>2, <1>3 DEF CheckVerdict, Kinds
<1>5. BanAnswer(ip) # Clean /\ FeedAnswer(ip, g) # Clean
  BY <1>1, <1>3 DEF BanAnswer, FeedAnswer, Kinds
<1>6. RateLimited(Window) # Clean
  BY DEF RateLimited, Plain, Clean
<1>7. TierAnswer(ip, g, finding) # Clean
  BY <1>1, <1>3, <1>5, <1>6 DEF TierAnswer, Kinds
<1> QED BY <1>4, <1>5, <1>7

\* A check that refuses leaves a verdict, and so does the end of evaluate.
LEMMA VerdictsAreLeft ==
    ASSUME NEW q \in Request, NEW c, NEW r \in Requests
    PROVE  /\ c # "none" => CheckVerdict(q, c) # NoVerdict
           /\ FinalVerdict(r) # NoVerdict
<1>1. \A kind \in Kinds : Plain(kind) # NoVerdict
  BY VerdictTypes
<1>2. \A code : StageBlock(code) # NoVerdict
  BY DEF StageBlock, Plain, CustomBlock, NoVerdict
<1>3. Failed # NoVerdict /\ Clean # NoVerdict
  BY VerdictTypes
<1>4. \A p, d : d # "none" => CheckVerdict(p, d) # NoVerdict
  BY <1>1, <1>2, <1>3 DEF CheckVerdict, Kinds
<1> QED BY <1>1, <1>3, <1>4 DEF FinalVerdict, Kinds

\* A hit that is recorded changes the windows.
LEMMA RecordedHitShows ==
    ASSUME TypeOK, NEW ip, NEW g, Records(ip, g)
    PROVE  TierWindows(ip, g) # windows
<1>1. ip \in Ips /\ Backend \in Backends
  BY DEF Records, Throttles, Backend, Backends
<1>2. windows \in [Backends -> [Ips -> Seq(Times)]] /\ now \in Times
  BY DEF TypeOK, StageTypeOK
<1>3. TierWindows(ip, g)[Backend][ip] = Append(windows[Backend][ip], now)
  BY <1>1, <1>2 DEF TierWindows, WindowsAfter
<1>4. Len(Append(windows[Backend][ip], now)) = Len(windows[Backend][ip]) + 1
  BY <1>1, <1>2
<1>5. Len(windows[Backend][ip]) \in Nat
  BY <1>1, <1>2
<1> QED BY <1>3, <1>4, <1>5

\* A request whose gates passed and whose last part answers Clean is cleared,
\* and its hit is recorded if it is throttled at all.
LEMMA CleanIsCleared ==
    ASSUME TypeOK, NEW r \in Requests, GatesPassed(r), ~Q(r).badRates,
           FirstRefusal(Q(r), gate[r], LateOrder) = "none",
           FinalVerdict(r) = Clean
    PROVE  /\ Cleared(r)
           /\ StagePassRuns(r) /\ Throttles(Q(r).ip, gate[r]) => Records(Q(r).ip, gate[r])
<1>1. StageAnswer(r) = NoVerdict
  BY RefusalsAreNotClean, QType, VerdictTypes DEF FinalVerdict, StageAnswer
<1>2. ~Refuses(Q(r), gate[r], "custom_request")
  BY <1>1, RefusalsAreNotClean, QType DEF FinalVerdict
<1>3. Finding(Q(r)) => cfg.passive
  <2>1. Plain("Threat") # Clean
    BY DEF Plain, Clean
  <2> QED BY <1>1, <1>2, <2>1 DEF FinalVerdict
<1>4. \A c \in ChecksOf(LateOrder) : ~Refuses(Q(r), gate[r], c)
  BY FirstOfNone, OrderTypes
<1>5. Cleared(r)
  BY <1>2, <1>3, <1>4 DEF Cleared, Checks, GatesPassed
<1>6. ASSUME StagePassRuns(r), Throttles(Q(r).ip, gate[r]) PROVE Records(Q(r).ip, gate[r])
  <2>1. Plain("RedisUnavailable") # NoVerdict
    BY VerdictTypes DEF Kinds
  <2>2. ~StoreFails
    BY <1>1, <1>6, <2>1 DEF StageAnswer, TierAnswer
  <2> QED BY <1>6, <2>2 DEF Records
<1> QED BY <1>5, <1>6

----------------------------------------------------------------------------
(* The steps of a request keep to its way.                                 *)

LEMMA ArriveKeepsWay ==
    ASSUME TypeOK, NEW r \in Requests, Way(r), Arrive(r)
    PROVE  Way(r)'
<1>1. /\ pc'[r] \in {"preamble", "routing"}
      /\ cfg'.attached <=> pc'[r] = "preamble"
      /\ metadata'[r] = NoVerdict /\ hits'[r] = 0 /\ ~ran'[r]
  BY DEF Arrive, Goto, environment, Way, TypeOK
<1> QED BY <1>1, VerdictTypes DEF Way, Evaluating

\* A verdict returned before a hit is recorded: Clean must have been earned.
LEMMA ReturnKeepsWay ==
    ASSUME TypeOK, NEW r \in Requests, Way(r), pc[r] \in Evaluating,
           NEW v \in Slot \ {NoVerdict}, Return(r, v),
           ran' = ran, hits'[r] = 0, v = Clean => Passed(r)'
    PROVE  Way(r)'
<1>1. pc'[r] = "routing" /\ metadata'[r] = v
  BY DEF Return, Goto, FirstWins, TypeOK, Way
<1>2. ~ran'[r]
  BY DEF Way, Evaluating
<1> QED BY <1>1, <1>2 DEF Way, Evaluating

LEMMA PreambleKeepsWay ==
    ASSUME TypeOK, NEW r \in Requests, Way(r),
           ExcludedPath(r) \/ Preflight(r) \/ ResolveCarrier(r)
    PROVE  Way(r)'
<1> USE DEF environment, stores, history
<1>1. pc[r] = "preamble" /\ cfg.attached /\ hits[r] = 0 /\ metadata[r] = NoVerdict /\ ~ran[r]
  BY DEF ExcludedPath, Preflight, ResolveCarrier, Way, Evaluating
<1>2. cfg' = cfg /\ Q(r)' = Q(r) /\ ran' = ran /\ hits' = hits
  BY DEF ExcludedPath, Preflight, ResolveCarrier, Q
<1>3. Screened(r)' <=> Screened(r)
  BY <1>2 DEF Screened, AnswersPreflight
<1>4. CASE ExcludedPath(r) \/ Preflight(r)
  <2>1. Return(r, Clean) /\ ~Screened(r)
    BY <1>4 DEF ExcludedPath, Preflight, Screened
  <2>2. Passed(r)'
    BY <1>1, <1>2, <1>3, <2>1 DEF Passed, NotHeld, BanApplies
  <2> QED BY <1>1, <1>2, <2>1, <2>2, ReturnKeepsWay, VerdictTypes DEF Evaluating
<1>5. CASE ResolveCarrier(r)
  <2>1. \/ Return(r, Failed)
        \/ Return(r, Plain("ActivityBanned"))
        \/ metadata' = metadata /\ Goto(r, "gates") /\ ~Q(r).badRates
    BY <1>5 DEF ResolveCarrier
  <2>2. CASE Return(r, Failed) \/ Return(r, Plain("ActivityBanned"))
    <3>1. Plain("ActivityBanned") # Clean /\ Failed # Clean
      BY VerdictTypes DEF Plain, Clean
    <3>2. Plain("ActivityBanned") \in Slot \ {NoVerdict} /\ Failed \in Slot \ {NoVerdict}
      BY VerdictTypes DEF Kinds
    <3> QED BY <1>1, <1>2, <2>2, <3>1, <3>2, ReturnKeepsWay DEF Evaluating
  <2>3. CASE metadata' = metadata /\ Goto(r, "gates") /\ ~Q(r).badRates
    <3>1. pc'[r] = "gates" /\ metadata'[r] = NoVerdict
      BY <2>3, <1>1 DEF Goto, TypeOK
    <3>2. Screened(r)'
      BY <1>3, <1>5 DEF ResolveCarrier, Screened
    <3> QED BY <1>1, <1>2, <2>3, <3>1, <3>2, VerdictTypes DEF Way, Evaluating
  <2> QED BY <2>1, <2>2, <2>3
<1> QED BY <1>4, <1>5

LEMMA EvaluateGatesKeepsWay ==
    ASSUME TypeOK, NEW r \in Requests, Way(r), EvaluateGates(r)
    PROVE  Way(r)'
<1> USE DEF environment, stores, history
<1>1. /\ pc[r] = "gates" /\ cfg.attached /\ hits[r] = 0 /\ metadata[r] = NoVerdict
      /\ ~ran[r] /\ Screened(r) /\ ~Q(r).badRates
  BY DEF EvaluateGates, Way, Evaluating
<1>2. /\ cfg' = cfg /\ Q(r)' = Q(r) /\ ran' = ran /\ hits' = hits /\ req' = req
      /\ gate'[r] = GateAfter(r)
  BY DEF EvaluateGates, Q, TypeOK
<1>3. Screened(r)'
  BY <1>1, <1>2 DEF Screened, AnswersPreflight
<1>4. CASE RefusingGate(r) # "none"
  <2>1. Return(r, CheckVerdict(Q(r), RefusingGate(r)))
    BY <1>4 DEF EvaluateGates
  <2>2. CheckVerdict(Q(r), RefusingGate(r)) \in Slot \ {Clean, NoVerdict}
    BY <1>4, CheckTypes, RefusalsAreNotClean, VerdictsAreLeft, QType
  <2> QED BY <1>1, <1>2, <2>1, <2>2, ReturnKeepsWay DEF Evaluating
<1>5. CASE RefusingGate(r) = "none"
  <2>1. /\ FirstRefusal(Q(r), "none", RouteIpOrder) = "none"
        /\ FirstRefusal(Q(r), GateAfter(r), GateOrder) = "none"
    BY <1>5 DEF RefusingGate
  <2>2. \A c \in ChecksOf(GateOrder) : ~Refuses(Q(r), GateAfter(r), c)
    BY <2>1, FirstOfNone, OrderTypes
  <2>3. \A c \in ChecksOf(RouteIpOrder) : ~Refuses(Q(r), "none", c)
    BY <2>1, FirstOfNone, OrderTypes
  <2>4. ASSUME NEW c \in ChecksOf(RouteIpOrder) PROVE ~Refuses(Q(r), GateAfter(r), c)
    <3>1. c \in {"ip_invalid", "ip_route", "country_route", "ip_global"}
      BY DEF ChecksOf, RouteIpOrder
    <3>2. SkippedFor(Q(r), GateAfter(r), c) <=> SkippedFor(Q(r), "none", c)
      BY <3>1 DEF SkippedFor
    <3> QED BY <2>3, <3>2 DEF Refuses
  <2>5. GatesPassed(r)'
    BY <1>2, <2>2, <2>4, RefusesStable DEF GatesPassed
  <2>6. pc'[r] = "bans" /\ metadata'[r] = NoVerdict
    BY <1>1, <1>5 DEF EvaluateGates, Goto, TypeOK
  <2> QED BY <1>1, <1>2, <1>3, <2>5, <2>6, VerdictTypes DEF Way, Evaluating
<1> QED BY <1>4, <1>5

LEMMA BanArmKeepsWay ==
    ASSUME TypeOK, NEW r \in Requests, Way(r), HeldIsLive(r), BanArm(r)
    PROVE  Way(r)'
<1> USE DEF environment, stores, history
<1> DEFINE answer == IF AsksForBan(r) THEN BanAnswer(Q(r).ip) ELSE NoVerdict
<1>1. /\ pc[r] = "bans" /\ cfg.attached /\ hits[r] = 0 /\ metadata[r] = NoVerdict
      /\ ~ran[r] /\ Screened(r) /\ ~Q(r).badRates /\ GatesPassed(r)
  BY DEF BanArm, Way, Evaluating
<1>2. Same(r) /\ ran' = ran /\ hits' = hits /\ banHeld' = banHeld
  BY DEF BanArm, Same
<1>3. CASE answer # NoVerdict
  <2>1. Return(r, answer)
    BY <1>3 DEF BanArm
  <2>2. answer \in Slot \ {NoVerdict} /\ answer # Clean
    BY <1>3, AnswerTypes, RefusalsAreNotClean, QType, VerdictTypes
  <2> QED BY <1>1, <1>2, <2>1, <2>2, ReturnKeepsWay DEF Evaluating
<1>4. CASE answer = NoVerdict
  <2>1. pc'[r] = "tiers" /\ metadata'[r] = NoVerdict
    BY <1>1, <1>4 DEF BanArm, Goto, TypeOK
  <2>2. NotHeld(r)
    <3> SUFFICES ASSUME BanApplies(r), banHeld[r] PROVE FALSE
      BY DEF NotHeld
    <3>1. Q(r).ip \in Ips /\ LiveBan(Q(r).ip)
      BY <1>1 DEF HeldIsLive, InFlight
    <3>2. answer = Plain("Banned")
      BY <3>1 DEF BanAnswer, BanApplies, AsksForBan
    <3> QED BY <1>4, <3>2, VerdictTypes DEF Kinds
  <2>3. NotHeld(r)'
    BY <1>2, <2>2, SameStable DEF NotHeld
  <2> QED BY <1>1, <1>2, <2>1, <2>3, SameStable, VerdictTypes DEF Way, Evaluating, Same
<1> QED BY <1>3, <1>4

LEMMA TiersKeepWay ==
    ASSUME TypeOK, NEW r \in Requests, Way(r), LateRefusal(r) \/ StagePass(r)
    PROVE  Way(r)'
<1> USE DEF environment, stores, history
<1>1. /\ pc[r] = "tiers" /\ cfg.attached /\ hits[r] = 0 /\ metadata[r] = NoVerdict
      /\ ~ran[r] /\ Screened(r) /\ ~Q(r).badRates /\ GatesPassed(r) /\ NotHeld(r)
  BY DEF LateRefusal, StagePass, Way, Evaluating
<1>2. Same(r) /\ ran' = ran /\ banHeld' = banHeld
  BY DEF LateRefusal, StagePass, Same
<1>3. CASE LateRefusal(r)
  <2> DEFINE v == CheckVerdict(Q(r), FirstRefusal(Q(r), gate[r], LateOrder))
  <2>1. Return(r, v) /\ hits' = hits
    BY <1>3 DEF LateRefusal
  <2>2. v \in Slot \ {NoVerdict} /\ v # Clean
    BY <1>3, CheckTypes, RefusalsAreNotClean, VerdictsAreLeft, QType DEF LateRefusal
  <2> QED BY <1>1, <1>2, <2>1, <2>2, ReturnKeepsWay DEF Evaluating
<1>4. CASE StagePass(r)
  <2>1. pc'[r] = "routing" /\ metadata'[r] = FinalVerdict(r)
    BY <1>1, <1>4 DEF StagePass, Return, Goto, FirstWins, TypeOK
  <2>2. hits'[r] = IF windows' # windows THEN 1 ELSE 0
    BY <1>1, <1>4 DEF StagePass, TrackHit, TypeOK
  <2>3. NotHeld(r)'
    BY <1>1, <1>2, SameStable DEF NotHeld
  <2>4. ASSUME FinalVerdict(r) = Clean PROVE Passed(r)'
    <3>1. /\ Cleared(r)
          /\ StagePassRuns(r) /\ Throttles(Q(r).ip, gate[r]) => Records(Q(r).ip, gate[r])
      BY <1>1, <1>4, <2>4, CleanIsCleared DEF StagePass
    <3>2. StagePassRuns(r) /\ Records(Q(r).ip, gate[r]) => windows' # windows
      BY <1>4, RecordedHitShows DEF StagePass
    <3> QED BY <1>1, <1>2, <2>2, <2>3, <3>1, <3>2, SameStable DEF Passed, Same
  <2>5. FinalVerdict(r) # NoVerdict
    BY VerdictsAreLeft, QType
  <2> QED BY <1>1, <1>2, <2>1, <2>2, <2>3, <2>4, <2>5 DEF Way, Evaluating
<1> QED BY <1>3, <1>4

\* Past evaluate the slots of a step's request stay: what the label it goes to
\* stands for is all there is to show.
LEMMA RoutedKeepsWay ==
    ASSUME TypeOK, NEW r \in Requests, Way(r), Same(r),
           metadata'[r] = metadata[r], hits'[r] = hits[r], banHeld'[r] = banHeld[r],
           pc[r] \notin Evaluating \cup {"idle"},
           pc'[r] \notin Evaluating \cup {"idle"},
           pc'[r] = "read" =>
               DataGuarded(Q(r)) /\ (BlockGuarded(Q(r)) => metadata[r] = Clean),
           pc'[r] = "screen" => Buffered(r),
           pc'[r] = "handler" => LetThrough(r),
           ran'[r] => pc'[r] \in {"respond", "done"} /\ LetThrough(r)
    PROVE  Way(r)'
<1>1. Q(r)' = Q(r)
  BY SameStable
<1>2. NotHeld(r) <=> NotHeld(r)'
  BY <1>1, SameStable DEF NotHeld
<1>3. Passed(r) => Passed(r)'
  BY <1>1, <1>2, SameStable DEF Passed, Same
<1>4. LetThrough(r) => LetThrough(r)'
  BY <1>1, SameStable DEF LetThrough, Guarded, BlockGuarded, DataGuarded
<1>5. DataGuarded(Q(r))' <=> DataGuarded(Q(r))
  BY <1>1 DEF DataGuarded
<1>6. BlockGuarded(Q(r))' <=> BlockGuarded(Q(r))
  BY <1>1 DEF BlockGuarded
<1>7. Buffered(r)' <=> Buffered(r)
  BY SameStable
<1> QED BY <1>2, <1>3, <1>4, <1>5, <1>6, <1>7 DEF Way, Evaluating, Same

LEMMA GuardsKeepWay ==
    ASSUME TypeOK, NEW r \in Requests, Way(r),
           Route(r) \/ CheckBlockGuard(r) \/ ReadBody(r)
    PROVE  Way(r)'
<1> USE DEF environment, stores, history
<1>1. /\ Same(r) /\ metadata' = metadata /\ hits' = hits /\ banHeld' = banHeld
      /\ ran' = ran /\ ~ran[r] /\ pc[r] \in {"routing", "block_guard", "read"}
  BY DEF Route, CheckBlockGuard, ReadBody, Same, Way
<1>2. CASE Route(r)
  <2>1. Q(r).kind \in Kind
    BY QType DEF Request
  <2>2. pc'[r] = CASE Q(r).kind = "unrouted" -> "respond"
                   [] Q(r).kind = "open" -> "handler"
                   [] Q(r).kind = "body" -> "read"
                   [] OTHER -> "block_guard"
    BY <1>2 DEF Route, Goto, TypeOK
  <2>3. CASE Q(r).kind = "unrouted"
    BY <1>1, <2>2, <2>3, RoutedKeepsWay DEF Evaluating
  <2>4. CASE Q(r).kind = "open"
    <3>1. LetThrough(r)
      BY <2>4 DEF LetThrough, Guarded, BlockGuarded, DataGuarded
    <3> QED BY <1>1, <2>2, <2>4, <3>1, RoutedKeepsWay DEF Evaluating
  <2>5. CASE Q(r).kind = "body"
    <3>1. DataGuarded(Q(r)) /\ ~BlockGuarded(Q(r))
      BY <2>5 DEF BlockGuarded, DataGuarded
    <3> QED BY <1>1, <2>2, <2>5, <3>1, RoutedKeepsWay DEF Evaluating
  <2>6. CASE Q(r).kind \in {"block", "both"}
    BY <1>1, <2>2, <2>6, RoutedKeepsWay DEF Evaluating
  <2> QED BY <2>1, <2>3, <2>4, <2>5, <2>6 DEF Kind
<1>3. CASE CheckBlockGuard(r)
  <2>1. \/ pc'[r] = "catch"
        \/ metadata[r] = Clean /\ pc'[r] = IF DataGuarded(Q(r)) THEN "read" ELSE "handler"
    BY <1>3 DEF CheckBlockGuard, GuardError, Goto, TypeOK
  <2>2. pc'[r] = "handler" => LetThrough(r)
    BY <2>1 DEF LetThrough
  <2> QED BY <1>1, <2>1, <2>2, RoutedKeepsWay DEF Evaluating
<1>4. CASE ReadBody(r)
  <2>1. DataGuarded(Q(r))
    BY <1>4 DEF ReadBody, Way
  <2>2. \/ pc'[r] = "catch"
        \/ pc'[r] = "screen" /\ cfg.attached /\ ~OverCap(r) /\ Q(r).body # "broken"
    BY <1>4 DEF ReadBody, GuardError, Goto, TypeOK
  <2>3. ~OverCap(r) => Q(r).size <= EffectiveCap(r)
    <3>1. Q(r).size \in Nat
      BY QType DEF Request
    <3>2. EffectiveCap(r) \in Int
      BY PipelineAssumption DEF EffectiveCap, TypeOK, Config
    <3> QED BY <3>1, <3>2 DEF OverCap
  <2> QED BY <1>1, <2>1, <2>2, <2>3, RoutedKeepsWay DEF Evaluating, Buffered
<1> QED BY <1>2, <1>3, <1>4

\* The body scan lets a request through only with a body that is cleared.
LEMMA ScreenBodyKeepsWay ==
    ASSUME TypeOK, NEW r \in Requests, Way(r), ScreenBody(r)
    PROVE  Way(r)'
<1> USE DEF environment, stores, history
<1>1. Buffered(r) /\ ~ran[r] /\ pc[r] = "screen" /\ metadata[r] # NoVerdict
  BY DEF ScreenBody, Way, Buffered, Evaluating
<1>2. /\ Same(r) /\ metadata' = metadata /\ banHeld' = banHeld /\ ran' = ran
      /\ windows' = windows
  BY DEF ScreenBody, Same, BodyWindows
<1>3. hits'[r] = hits[r]
  BY <1>2 DEF ScreenBody, TrackHit, TypeOK
<1>4. \/ pc'[r] = "catch"
      \/ pc'[r] = "handler" /\ ScreenVerdict(r) = Clean
  BY DEF ScreenBody, GuardError, Goto, TypeOK
<1>5. ASSUME ScreenVerdict(r) = Clean PROVE LetThrough(r)
  <2>1. metadata[r] = Clean /\ StashedVerdict(r) = Clean
    BY <1>1, <1>5 DEF ScreenVerdict, StashedVerdict
  <2>2. ASSUME BodyScanned(Q(r)) PROVE ~ScanPanics(Q(r))
    BY <1>5, <2>1, <2>2, VerdictTypes DEF ScreenVerdict
  <2>3. ASSUME BodyScanned(Q(r)), ScanFlags(Q(r)) PROVE cfg.passive
    <3>1. FindingVerdict(r) = Clean
      BY <1>5, <2>1, <2>2, <2>3 DEF ScreenVerdict
    <3>2. FeedAnswer(Q(r).ip, gate[r]) # Clean
      BY RefusalsAreNotClean, QType
    <3>3. Plain("Threat") # Clean
      BY DEF Plain, Clean
    <3> QED BY <3>1, <3>2, <3>3 DEF FindingVerdict
  <2> QED BY <1>1, <2>1, <2>2, <2>3 DEF LetThrough, BodyCleared, Buffered
<1> QED BY <1>1, <1>2, <1>3, <1>4, <1>5, RoutedKeepsWay DEF Evaluating

LEMMA AnswersKeepWay ==
    ASSUME TypeOK, NEW r \in Requests, Way(r),
           RunHandler(r) \/ Catch(r) \/ OnResponse(r)
    PROVE  Way(r)'
<1> USE DEF environment, stores, history
<1>1. /\ Same(r) /\ metadata' = metadata /\ hits' = hits /\ banHeld' = banHeld
      /\ pc[r] \in {"handler", "catch", "respond"}
  BY DEF RunHandler, Catch, OnResponse, Same
<1>2. pc'[r] \in {"respond", "done"}
  BY DEF RunHandler, Catch, OnResponse, Finish, Goto, TypeOK
<1>3. CASE RunHandler(r)
  <2>1. LetThrough(r)
    BY <1>3 DEF RunHandler, Way
  <2> QED BY <1>1, <1>2, <2>1, RoutedKeepsWay DEF Evaluating
<1>4. CASE Catch(r) \/ OnResponse(r)
  <2>1. ran' = ran
    BY <1>4 DEF Catch, OnResponse
  <2>2. ran[r] => LetThrough(r)
    BY DEF Way
  <2> QED BY <1>1, <1>2, <2>1, <2>2, RoutedKeepsWay DEF Evaluating
<1> QED BY <1>3, <1>4

\* Every step keeps every request to its way.
LEMMA NextKeepsWay ==
    ASSUME IInv, [Next]_vars, NEW r \in Requests
    PROVE  Way(r)'
<1>1. TypeOK /\ Way(r) /\ HeldIsLive(r)
  BY DEF IInv
<1>2. CASE Progress(r)
  BY <1>1, <1>2, PreambleKeepsWay, EvaluateGatesKeepsWay, BanArmKeepsWay, TiersKeepWay,
     GuardsKeepWay, ScreenBodyKeepsWay, AnswersKeepWay DEF Progress
<1> QED BY <1>1, <1>2, ArriveKeepsWay, AsideKeepsWay, StepOrAside

----------------------------------------------------------------------------
(* The steps of a request, and a ban of the operator, only extend bans.    *)

\* What the stores' state functions do to the bans.
LEMMA BansExtended ==
    ASSUME NEW ip, NEW g, NEW finding
    PROVE  /\ FeedBans(ip, g) \in {bans} \cup {BanUntil(i) : i \in Ips}
           /\ TierBans(ip, g, finding) \in {bans} \cup {BanUntil(i) : i \in Ips}
           /\ ProcessorBan(ip) \in {bans} \cup {BanUntil(i) : i \in Ips}
<1>1. FeedBans(ip, g) \in {bans} \cup {BanUntil(i) : i \in Ips}
  BY DEF FeedBans, Counted
<1>2. Throttled(ip, g) => ip \in Ips
  BY DEF Throttled, OverLimit, Records, Throttles
<1>3. TierBans(ip, g, finding) \in {bans} \cup {BanUntil(i) : i \in Ips}
  BY <1>1, <1>2 DEF TierBans
<1>4. ProcessorBan(ip) \in {bans} \cup {BanUntil(i) : i \in Ips}
  BY DEF ProcessorBan
<1> QED BY <1>1, <1>3, <1>4

\* A new ban outlives now, so no live ban ends by it.
LEMMA ExtendedStaysLive ==
    ASSUME TypeOK, now' = now, bans' \in {bans} \cup {BanUntil(i) : i \in Ips},
           NEW ip \in Ips, LiveBan(ip)
    PROVE  LiveBan(ip)'
<1>1. now \in Nat /\ BanFor \in Nat \ {0} /\ bans \in [Ips -> Nat]
  BY StageAssumption DEF TypeOK, StageTypeOK, Times
<1>2. CASE bans' = bans
  BY <1>2 DEF LiveBan
<1>3. ASSUME NEW i \in Ips, bans' = BanUntil(i) PROVE LiveBan(ip)'
  <2>1. bans'[ip] = IF ip = i THEN now + BanFor ELSE bans[ip]
    BY <1>1, <1>3 DEF BanUntil
  <2> QED BY <1>1, <2>1 DEF LiveBan
<1> QED BY <1>2, <1>3

\* The steps of a request stop no clock and lift no ban.
LEMMA ProgressExtends ==
    ASSUME TypeOK, NEW r \in Requests, Arrive(r) \/ Progress(r)
    PROVE  now' = now /\ bans' \in {bans} \cup {BanUntil(i) : i \in Ips}
<1> USE DEF environment, stores
<1>1. CASE Arrive(r) \/ ExcludedPath(r) \/ Preflight(r) \/ EvaluateGates(r)
  BY <1>1 DEF Arrive, ExcludedPath, Preflight, EvaluateGates
<1>2. CASE ResolveCarrier(r)
  BY <1>2, BansExtended DEF ResolveCarrier
<1>3. CASE BanArm(r) \/ LateRefusal(r) \/ Route(r) \/ CheckBlockGuard(r)
  BY <1>3 DEF BanArm, LateRefusal, Route, CheckBlockGuard
<1>4. CASE StagePass(r)
  BY <1>4, BansExtended DEF StagePass
<1>5. CASE ScreenBody(r)
  BY <1>5, BansExtended DEF ScreenBody
<1>6. CASE ReadBody(r) \/ RunHandler(r) \/ Catch(r)
  BY <1>6 DEF ReadBody, RunHandler, Catch
<1>7. CASE OnResponse(r)
  BY <1>7, BansExtended DEF OnResponse
<1> QED BY <1>1, <1>2, <1>3, <1>4, <1>5, <1>6, <1>7 DEF Progress

\* banHeld follows the ban of a request in flight.
LEMMA NextKeepsHeld ==
    ASSUME IInv, [Next]_vars, NEW r \in Requests
    PROVE  HeldIsLive(r)'
<1> SUFFICES ASSUME banHeld'[r], InFlight(r)'
             PROVE  Q(r)'.ip \in Ips /\ LiveBan(Q(r).ip)'
  BY DEF HeldIsLive
<1>1. TypeOK /\ HeldIsLive(r)
  BY DEF IInv
<1>2. CASE Arrive(r)
  <2>1. PICK p \in Profiles :
           /\ req' = [req EXCEPT ![r] = p]
           /\ banHeld' = [banHeld EXCEPT ![r] = Shape[p].ip \in Ips /\ LiveBan(Shape[p].ip)]
    BY <1>2 DEF Arrive
  <2>2. Q(r)' = Shape[p] /\ Shape[p].ip \in Ips /\ LiveBan(Shape[p].ip)
    BY <1>1, <2>1 DEF Q, TypeOK
  <2>3. now' = now /\ bans' = bans
    BY <1>2 DEF Arrive, environment, stores
  <2> QED BY <2>2, <2>3 DEF LiveBan
<1>3. ASSUME now' = now, bans' \in {bans} \cup {BanUntil(i) : i \in Ips},
             req'[r] = req[r], banHeld[r], InFlight(r)
      PROVE  Q(r)'.ip \in Ips /\ LiveBan(Q(r).ip)'
  <2>1. Q(r)' = Q(r)
    BY <1>3 DEF Q
  <2>2. Q(r).ip \in Ips /\ LiveBan(Q(r).ip)
    BY <1>1, <1>3 DEF HeldIsLive
  <2>3. \A ip \in Ips : LiveBan(ip) => LiveBan(ip)'
    BY <1>1, <1>3, ExtendedStaysLive
  <2> QED BY <2>1, <2>2, <2>3 DEF LiveBan
<1>4. CASE Progress(r)
  <2>1. InFlight(r)
    BY <1>4 DEF Progress, InFlight, ExcludedPath, Preflight, ResolveCarrier, EvaluateGates,
         BanArm, LateRefusal, StagePass, Route, CheckBlockGuard, ReadBody, ScreenBody,
         RunHandler, Catch, OnResponse
  <2>2. req' = req /\ banHeld' = banHeld
    BY <1>4 DEF Progress, history, ExcludedPath, Preflight, ResolveCarrier, EvaluateGates,
         BanArm, LateRefusal, StagePass, Route, CheckBlockGuard, ReadBody, ScreenBody,
         RunHandler, Catch, OnResponse
  <2> QED BY <1>1, <1>3, <1>4, <2>1, <2>2, ProgressExtends
<1>5. CASE Aside(r)
  <2>1. req'[r] = req[r] /\ banHeld[r] /\ InFlight(r)
    BY <1>5 DEF Aside, Same, InFlight
  <2>2. ASSUME TrackBans PROVE Q(r)'.ip \in Ips /\ LiveBan(Q(r).ip)'
    <3>1. Q(r)' = Q(r) /\ Q(r).ip \in Ips
      BY <1>1, <2>1 DEF Q, HeldIsLive
    <3>2. now' < bans'[Q(r).ip]
      BY <2>1, <2>2 DEF TrackBans
    <3> QED BY <3>1, <3>2 DEF LiveBan
  <2>3. CASE Tick \/ \E ip \in Ips : OperatorUnban(ip)
    BY <2>2, <2>3 DEF Tick, OperatorUnban
  <2>4. CASE \E s \in Requests : Arrive(s) \/ Progress(s)
    BY <1>1, <1>3, <2>1, <2>4, ProgressExtends
  <2>5. CASE StoreFlips \/ Reset \/ Terminating \/ UNCHANGED vars
    <3>1. now' = now /\ bans' = bans
      BY <2>5 DEF StoreFlips, Reset, Terminating, vars, stores, environment
    <3> QED BY <1>3, <2>1, <3>1
  <2>6. CASE \E ip \in Ips : OperatorBan(ip)
    <3>1. now' = now /\ bans' \in {BanUntil(i) : i \in Ips}
      BY <2>6 DEF OperatorBan, environment
    <3> QED BY <1>3, <2>1, <3>1
  <2> QED BY <2>3, <2>4, <2>5, <2>6 DEF Next
<1> QED BY <1>1, <1>2, <1>4, <1>5, StepOrAside

----------------------------------------------------------------------------
(* The theorems.                                                           *)

LEMMA InitIInv == Init => IInv
<1> SUFFICES ASSUME Init, NEW r \in Requests PROVE Way(r) /\ HeldIsLive(r)
  BY InitTypeOK DEF IInv
<1>1. /\ pc[r] = "idle" /\ metadata[r] = NoVerdict /\ hits[r] = 0
      /\ ~ran[r] /\ ~banHeld[r]
  BY DEF Init
<1> QED BY <1>1, VerdictTypes DEF Way, HeldIsLive, Evaluating

LEMMA NextIInv == IInv /\ [Next]_vars => IInv'
BY NextTypeOK, NextKeepsWay, NextKeepsHeld DEF IInv

LEMMA AlwaysIInv == Spec => []IInv
BY InitIInv, NextIInv, PTL DEF Spec

LEMMA IInvMediates == IInv => CompleteMediation
<1> SUFFICES ASSUME IInv, NEW r \in Requests, ran[r], Guarded(Q(r))
             PROVE  /\ cfg.attached
                    /\ metadata[r] = Clean
                    /\ Screened(r) => Cleared(r)
                    /\ DataGuarded(Q(r)) => BodyCleared(r)
  BY DEF CompleteMediation
<1>1. Way(r) /\ LetThrough(r)
  BY DEF IInv, Way
<1>2. metadata[r] = Clean /\ Passed(r)
  BY <1>1 DEF LetThrough, Way
<1> QED BY <1>1, <1>2 DEF LetThrough, Passed

LEMMA IInvHitsOnce == IInv => OneHit
<1> SUFFICES ASSUME IInv, NEW r \in Requests
             PROVE  /\ hits[r] <= 1
                    /\ ran[r] /\ Guarded(Q(r)) /\ Screened(r) /\ StagePassRuns(r)
                          /\ Throttles(Q(r).ip, gate[r]) => hits[r] = 1
  BY DEF OneHit
<1>1. Way(r) /\ (ran[r] => LetThrough(r))
  BY DEF IInv, Way
<1>2. ran[r] /\ Guarded(Q(r)) => Passed(r)
  BY <1>1 DEF LetThrough, Way
<1> QED BY <1>1, <1>2 DEF Way, Passed

LEMMA IInvBansBite == IInv => BanBites
<1> SUFFICES ASSUME IInv, NEW r \in Requests, BanApplies(r), banHeld[r]
             PROVE  ~(ran[r] /\ Guarded(Q(r))) /\ hits[r] = 0
  BY DEF BanBites
<1>1. Way(r) /\ ~NotHeld(r) /\ (ran[r] => LetThrough(r))
  BY DEF IInv, Way, NotHeld
<1>2. hits[r] = 0
  BY <1>1 DEF Way
<1>3. ran[r] /\ Guarded(Q(r)) => Passed(r)
  BY <1>1 DEF LetThrough, Way
<1> QED BY <1>1, <1>2, <1>3 DEF Passed

\* A guarded handler runs only for a request every check let through, whose
\* body, behind the data guard, was bounded and scanned: evaluate, BlockGuard
\* and GuardBody mediate completely, for any number of requests in flight.
THEOREM Mediation == Spec => []CompleteMediation
BY IInvMediates, AlwaysIInv, PTL

\* The two phases of a request record one hit in the windows at most, and one
\* exactly for a guarded handler that ran under the limiter: the body phase's
\* feed takes no tier again.
THEOREM SingleHit == Spec => []OneHit
BY IInvHitsOnce, AlwaysIInv, PTL

\* A live ban keeps a request that arrives under it from every guarded handler
\* and from the rate budget, whoever banned the address, however the steps of
\* other requests, the clock and the operator come between its own.
THEOREM BansBite == Spec => []BanBites
BY IInvBansBite, AlwaysIInv, PTL

============================================================================
