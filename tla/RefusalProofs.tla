---------------------------- MODULE RefusalProofs ----------------------------
(***************************************************************************)
(* What a refusal becomes on its way to the client: its status, its event, *)
(* its body, its face on an unrouted path, and what passive mode leaves to *)
(* refuse, for any number of requests, addresses and configurations.       *)
(*                                                                         *)
(* The properties speak of requests that are answered.  What leads there   *)
(* is OutcomeWay(r): what a guard's error stands for while Rocket          *)
(* dispatches it, what on_response is then handed, and how the answer was  *)
(* made from that.                                                         *)
(***************************************************************************)
EXTENDS MediationProofs

----------------------------------------------------------------------------
(* The inductive invariant.                                                *)

\* The status is the refusal's, or the data guard's own.
OwnStatus(r, status) ==
    \/ status = Status(RefusalVerdict(metadata[r], enforced[r]))
    \/ status = 413 /\ DataGuarded(Q(r)) /\ OverCap(r)
    \/ status = 500 /\ DataGuarded(Q(r)) /\ Q(r).body = "broken"

\* What the error of a guard stands for, with the fairing attached.
Caught(r) ==
    cfg.attached =>
        /\ enforced[r] = NoVerdict => err[r] = 413
        /\ OwnStatus(r, err[r])
        /\ BlockGuarded(Q(r)) /\ metadata[r] # Clean =>
              enforced[r] = metadata[r] /\ err[r] = Status(metadata[r])

\* A request on_response is handed was served, refused or not found ...
Settled(r) ==
    /\ ran[r] => Q(r).kind # "unrouted"
    /\ ~ran[r] /\ Q(r).kind # "unrouted" => Guarded(Q(r)) /\ Caught(r)

\* ... with this response.
Handed(r) ==
    IF ran[r]
    THEN [status |-> Q(r).reply, body |-> "handler", retry |-> 0, by |-> "handler"]
    ELSE IF Q(r).kind = "unrouted" THEN NotFound
    ELSE ErrorResponse(r, err[r])

\* The not-found rewrite of a response.
Rewritten(r, response) ==
    IF response.status = 404 /\ metadata[r] \notin {NoVerdict, Clean, Failed}
    THEN VerdictResponse(metadata[r], body[r]) ELSE response

\* What on_response makes of it.
Delivered(r, response) ==
    IF ~cfg.attached THEN response
    ELSE IF Redirects(r) THEN RedirectResponse
    ELSE IF cfg.processor THEN Modified(Rewritten(r, response))
    ELSE Rewritten(r, response)

\* What evaluate refuses in passive mode: a check failed, a rule of the
\* processor barred the client, or a check without the fairing's switch objects.
Demanded(r) ==
    \/ metadata[r] = Failed
    \/ barred[r] /\ ~cfg.processorPassive
    \/ Q(r).fails \cap Unswitched # {}

\* The guards refuse there what evaluate refused, or what failed.
Refrains(r) == cfg.passive => enforced[r] \in {NoVerdict, Failed, metadata[r]}

OutcomeWay(r) ==
    /\ pc[r] \notin {"catch", "respond", "done"} => enforced[r] = NoVerdict
    /\ metadata[r] # NoVerdict => cfg.attached
    /\ preflight[r] => metadata[r] = Clean
    /\ cfg.passive /\ metadata[r] \notin {NoVerdict, Clean} => Demanded(r)
    /\ Refrains(r)
    /\ pc[r] \in {"idle", "preamble"} => ~barred[r]
    /\ pc[r] = "block_guard" => BlockGuarded(Q(r))
    /\ pc[r] = "screen" /\ BlockGuarded(Q(r)) => metadata[r] = Clean
    /\ pc[r] = "handler" => Q(r).kind # "unrouted"
    /\ pc[r] = "catch" => Guarded(Q(r)) /\ Caught(r)
    /\ pc[r] \in {"respond", "done"} => Settled(r)
    /\ pc[r] = "respond" => resp[r] = Handed(r)
    /\ pc[r] = "done" /\ ~preflight[r] => resp[r] = Delivered(r, Handed(r))
    /\ event[r] =>
          /\ pc[r] = "done"
          /\ Forwarded(r)
          /\ ran[r] \/ Q(r).kind = "unrouted" \/ err[r] = 413

\* Nothing but the operator and the processor's rules bans in passive mode.
NoPassiveBans ==
    cfg.passive /\ "ban" \notin OperatorActs =>
        \A ip \in Ips : bans[ip] # 0 =>
            cfg.sharedBans /\ \E r \in Requests : Q(r).ip = ip /\ PunishedByRule(r)

Outcomes == \A r \in Requests : OutcomeWay(r)

OutcomeInv == NoPassiveBans /\ Outcomes

----------------------------------------------------------------------------
(* What passive mode leaves to refuse.                                     *)

\* The first refusing check is a check of the list, and refuses.
LEMMA FirstOfSome ==
    ASSUME NEW q, NEW g, NEW order,
           DOMAIN order \subseteq Nat,
           FirstRefusal(q, g, order) # "none"
    PROVE  /\ FirstRefusal(q, g, order) \in ChecksOf(order)
           /\ Refuses(q, g, FirstRefusal(q, g, order))
<1> DEFINE holding == {i \in DOMAIN order : Refuses(q, g, order[i])}
<1>1. holding # {} /\ holding \subseteq Nat
  BY DEF FirstRefusal, FirstOf
<1>2. Min(holding) \in holding
  <2> HIDE DEF holding
  <2> QED BY <1>1, MinOfNaturals
<1>3. FirstRefusal(q, g, order) = order[Min(holding)]
  BY <1>1 DEF FirstRefusal, FirstOf
<1> QED BY <1>2, <1>3 DEF ChecksOf

\* A check that refuses in passive mode failed, or has no such switch.
LEMMA PassiveRefusals ==
    ASSUME cfg.passive, NEW q, NEW g, NEW c \in Checks, Refuses(q, g, c)
    PROVE  CheckVerdict(q, c) = Failed \/ q.fails \cap Unswitched # {}
<1>1. c \notin cfg.silent /\ c # "ip_global" /\ c # "https_route"
  BY DEF Refuses, Silenced
<1>2. CASE c = "scan_panic"
  BY <1>2 DEF CheckVerdict
<1>3. CASE c # "scan_panic"
  <2>1. c \in q.fails
    BY <1>1, <1>3 DEF Refuses, Finds
  <2>2. c \in Unswitched
    BY <1>1, <1>3 DEF Unswitched, StageChecks
  <2> QED BY <2>1, <2>2
<1> QED BY <1>2, <1>3

\* The stage bans nobody in passive mode, and its store cannot fail there.
LEMMA PassiveStage ==
    ASSUME TypeOK, cfg.passive, NEW ip, NEW g, NEW finding
    PROVE  /\ FeedBans(ip, g) = bans
           /\ TierBans(ip, g, finding) = bans
           /\ BanAnswer(ip) = NoVerdict
           /\ FeedAnswer(ip, g) = NoVerdict
           /\ TierAnswer(ip, g, finding) = NoVerdict
<1>1. ~Throttled(ip, g) /\ ~Crosses(ip, "detection")
  BY DEF Throttled, Crosses
<1>2. ~StoreFails
  <2>1. cfg.store = "memory"
    BY PipelineAssumption DEF TypeOK
  <2> QED BY <2>1 DEF StoreFails
<1>3. FeedBans(ip, g) = bans /\ FeedAnswer(ip, g) = NoVerdict /\ BanAnswer(ip) = NoVerdict
  BY <1>1 DEF FeedBans, FeedAnswer, BanAnswer
<1> QED BY <1>1, <1>2, <1>3 DEF TierBans, TierAnswer

----------------------------------------------------------------------------
(* The steps that leave a request's slots alone.                           *)

\* What r's slots say, once they stay.
Kept(r) ==
    /\ Same(r)
    /\ metadata'[r] = metadata[r]
    /\ enforced'[r] = enforced[r]
    /\ body'[r] = body[r]
    /\ preflight'[r] = preflight[r]
    /\ err'[r] = err[r]
    /\ ran'[r] = ran[r]
    /\ barred'[r] = barred[r]

\* The demand stands while the verdict and its grounds stay.
LEMMA DemandedStable ==
    ASSUME NEW r \in Requests, cfg' = cfg, Q(r)' = Q(r), metadata'[r] = metadata[r],
           barred'[r] = barred[r]
    PROVE  Demanded(r)' <=> Demanded(r)
BY DEF Demanded, Unswitched

LEMMA KeptStable ==
    ASSUME NEW r \in Requests, Kept(r)
    PROVE  /\ Q(r)' = Q(r)
           /\ Settled(r)' <=> Settled(r)
           /\ Caught(r)' <=> Caught(r)
           /\ Handed(r)' = Handed(r)
           /\ Delivered(r, Handed(r))' = Delivered(r, Handed(r))
           /\ Forwarded(r)' <=> Forwarded(r)
           /\ Demanded(r)' <=> Demanded(r)
           /\ Guarded(Q(r))' <=> Guarded(Q(r))
           /\ BlockGuarded(Q(r))' <=> BlockGuarded(Q(r))
<1> USE DEF Kept, Same
<1>1. Q(r)' = Q(r)
  BY DEF Q
<1>2. /\ Guarded(Q(r))' <=> Guarded(Q(r))
      /\ BlockGuarded(Q(r))' <=> BlockGuarded(Q(r))
      /\ DataGuarded(Q(r))' <=> DataGuarded(Q(r))
  BY <1>1 DEF Guarded, BlockGuarded, DataGuarded
<1>3. OverCap(r)' <=> OverCap(r)
  BY <1>1 DEF OverCap, EffectiveCap
<1>4. OwnStatus(r, err[r])' <=> OwnStatus(r, err[r])
  BY <1>1, <1>2, <1>3 DEF OwnStatus
<1>5. Caught(r)' <=> Caught(r)
  BY <1>2, <1>4 DEF Caught
<1>6. Settled(r)' <=> Settled(r)
  BY <1>1, <1>2, <1>5 DEF Settled
<1>7. Handed(r)' = Handed(r)
  BY <1>1 DEF Handed, ErrorResponse
<1>8. Rewritten(r, Handed(r))' = Rewritten(r, Handed(r))
  BY <1>7 DEF Rewritten
<1>9. Delivered(r, Handed(r))' = Delivered(r, Handed(r))
  BY <1>7, <1>8 DEF Delivered, Redirects, Modified
<1> QED BY <1>1, <1>2, <1>5, <1>6, <1>7, <1>9, DemandedStable DEF Forwarded

LEMMA AsideKeepsOutcome ==
    ASSUME NEW r \in Requests, OutcomeWay(r), Aside(r)
    PROVE  OutcomeWay(r)'
<1>1. Kept(r) /\ resp'[r] = resp[r] /\ event'[r] = event[r] /\ pc'[r] = pc[r] /\ cfg' = cfg
  BY DEF Aside, Kept, Same
<1> QED BY <1>1, KeptStable DEF OutcomeWay, Kept, Refrains

----------------------------------------------------------------------------
(* on_request leaves the outcome open.                                     *)

\* Up to the routing nothing is composed and no guard has refused.
LEMMA EvaluationKeepsOutcome ==
    ASSUME IInv, NEW r \in Requests, OutcomeWay(r),
           pc[r] \in Evaluating, pc'[r] \in Evaluating \cup {"routing"},
           cfg' = cfg, enforced' = enforced, event' = event,
           pc'[r] = "preamble" => ~barred'[r],
           preflight'[r] => metadata'[r] = Clean,
           cfg.passive /\ metadata'[r] \notin {NoVerdict, Clean} => Demanded(r)'
    PROVE  OutcomeWay(r)'
<1>1. cfg.attached /\ enforced[r] = NoVerdict /\ ~event[r]
  BY DEF IInv, Way, OutcomeWay, Evaluating
<1> QED BY <1>1 DEF OutcomeWay, Evaluating, Refrains

LEMMA PreambleKeepsOutcome ==
    ASSUME IInv, NEW r \in Requests, OutcomeWay(r),
           ExcludedPath(r) \/ Preflight(r) \/ ResolveCarrier(r)
    PROVE  OutcomeWay(r)'
<1> USE DEF environment, history
<1>1. TypeOK /\ pc[r] = "preamble" /\ metadata[r] = NoVerdict /\ ~preflight[r]
  BY VerdictTypes DEF IInv, Way, OutcomeWay, Evaluating, ExcludedPath, Preflight, ResolveCarrier
<1>2. cfg' = cfg /\ enforced' = enforced /\ event' = event
  BY DEF ExcludedPath, Preflight, ResolveCarrier
<1>3. CASE ExcludedPath(r) \/ Preflight(r)
  <2>1. pc'[r] = "routing" /\ metadata'[r] = Clean
    BY <1>1, <1>3 DEF ExcludedPath, Preflight, Return, Goto, FirstWins, TypeOK
  <2> QED BY <1>1, <1>2, <2>1, EvaluationKeepsOutcome DEF Evaluating
<1>4. CASE ResolveCarrier(r)
  <2>1. pc'[r] \in {"gates", "routing"} /\ ~preflight'[r]
    BY <1>1, <1>4 DEF ResolveCarrier, Return, Goto, TypeOK
  <2>2. metadata'[r] \in {NoVerdict, Failed} \/ (barred'[r] /\ ~cfg.processorPassive)
    BY <1>1, <1>4 DEF ResolveCarrier, UsageBans, Return, FirstWins, TypeOK
  <2> QED BY <1>1, <1>2, <2>1, <2>2, EvaluationKeepsOutcome DEF Evaluating, Demanded
<1> QED BY <1>3, <1>4

\* The checks of evaluate demand what they refuse for in passive mode.
LEMMA ChecksKeepOutcome ==
    ASSUME IInv, NEW r \in Requests, OutcomeWay(r),
           EvaluateGates(r) \/ BanArm(r) \/ LateRefusal(r)
    PROVE  OutcomeWay(r)'
<1> USE DEF environment, history, stores
<1>1. TypeOK /\ pc[r] \in Evaluating /\ metadata[r] = NoVerdict /\ ~preflight[r]
  BY VerdictTypes DEF IInv, Way, OutcomeWay, Evaluating, EvaluateGates, BanArm, LateRefusal
<1>2. /\ cfg' = cfg /\ enforced' = enforced /\ event' = event /\ preflight' = preflight
      /\ Q(r)' = Q(r)
  BY DEF EvaluateGates, BanArm, LateRefusal, Q
<1>3. pc'[r] \in {"bans", "tiers", "routing"}
  BY <1>1 DEF EvaluateGates, BanArm, LateRefusal, Return, Goto, TypeOK
<1>4. ASSUME NEW g, NEW order, order \in {RouteIpOrder, GateOrder, LateOrder}, cfg.passive,
             FirstRefusal(Q(r), g, order) # "none",
             metadata'[r] = CheckVerdict(Q(r), FirstRefusal(Q(r), g, order))
      PROVE  Demanded(r)'
  <2>1. FirstRefusal(Q(r), g, order) \in Checks
    BY <1>4, FirstOfSome, OrderTypes DEF Checks
  <2>2. Refuses(Q(r), g, FirstRefusal(Q(r), g, order))
    BY <1>4, FirstOfSome, OrderTypes
  <2> QED BY <1>2, <1>4, <2>1, <2>2, PassiveRefusals DEF Demanded, Unswitched
<1>5. CASE EvaluateGates(r)
  <2>1. ASSUME cfg.passive, metadata'[r] # NoVerdict PROVE Demanded(r)'
    <3>1. RefusingGate(r) # "none" /\ metadata'[r] = CheckVerdict(Q(r), RefusingGate(r))
      BY <1>1, <1>5, <2>1 DEF EvaluateGates, Return, FirstWins, TypeOK
    <3>2. \/ RefusingGate(r) = FirstRefusal(Q(r), "none", RouteIpOrder)
          \/ RefusingGate(r) = FirstRefusal(Q(r), GateAfter(r), GateOrder)
      BY DEF RefusingGate
    <3> QED BY <1>4, <2>1, <3>1, <3>2
  <2> QED BY <1>1, <1>2, <1>3, <2>1, EvaluationKeepsOutcome DEF Evaluating
<1>6. CASE BanArm(r)
  <2>1. cfg.passive => metadata'[r] = NoVerdict
    BY <1>1, <1>6, PassiveStage DEF BanArm
  <2> QED BY <1>1, <1>2, <1>3, <2>1, EvaluationKeepsOutcome DEF Evaluating
<1>7. CASE LateRefusal(r)
  <2>1. /\ FirstRefusal(Q(r), gate[r], LateOrder) # "none"
        /\ metadata'[r] = CheckVerdict(Q(r), FirstRefusal(Q(r), gate[r], LateOrder))
    BY <1>1, <1>7 DEF LateRefusal, Return, FirstWins, TypeOK
  <2>2. cfg.passive => Demanded(r)'
    BY <1>4, <2>1
  <2> QED BY <1>1, <1>2, <1>3, <2>2, EvaluationKeepsOutcome DEF Evaluating
<1> QED BY <1>5, <1>6, <1>7

LEMMA StagePassKeepsOutcome ==
    ASSUME IInv, NEW r \in Requests, OutcomeWay(r), StagePass(r)
    PROVE  OutcomeWay(r)'
<1>1. TypeOK /\ pc[r] = "tiers" /\ metadata[r] = NoVerdict /\ ~preflight[r]
  BY VerdictTypes DEF IInv, Way, OutcomeWay, Evaluating, StagePass
<1>2. cfg' = cfg /\ enforced' = enforced /\ event' = event /\ preflight' = preflight
  BY DEF StagePass, environment
<1>3. pc'[r] = "routing" /\ metadata'[r] = FinalVerdict(r)
  BY <1>1 DEF StagePass, Return, Goto, FirstWins, TypeOK
<1>4. ASSUME cfg.passive, FinalVerdict(r) # Clean PROVE Demanded(r)'
  <2>1. StageAnswer(r) = NoVerdict
    BY <1>1, <1>4, PassiveStage DEF StageAnswer
  <2>2. /\ Refuses(Q(r), gate[r], "custom_request")
        /\ FinalVerdict(r) = CheckVerdict(Q(r), "custom_request")
    BY <1>4, <2>1 DEF FinalVerdict
  <2>3. FinalVerdict(r) = Failed \/ Q(r).fails \cap Unswitched # {}
    BY <1>4, <2>2, PassiveRefusals DEF Checks
  <2>4. Q(r)' = Q(r)
    BY DEF StagePass, Q
  <2> QED BY <1>2, <1>3, <2>3, <2>4 DEF Demanded, Unswitched
<1> QED BY <1>1, <1>2, <1>3, <1>4, EvaluationKeepsOutcome DEF Evaluating

----------------------------------------------------------------------------
(* The guards say what the refusal is.                                     *)

LEMMA ArriveKeepsOutcome ==
    ASSUME IInv, NEW r \in Requests, OutcomeWay(r), Arrive(r)
    PROVE  OutcomeWay(r)'
<1>1. TypeOK /\ pc[r] = "idle" /\ metadata[r] = NoVerdict
  BY DEF IInv, Way, Arrive
<1>2. /\ metadata'[r] = NoVerdict /\ enforced'[r] = NoVerdict /\ ~event'[r] /\ ~preflight'[r]
  BY <1>1, VerdictTypes DEF Arrive, OutcomeWay
<1>3. pc'[r] \in {"preamble", "routing"} /\ ~barred'[r]
  BY <1>1 DEF Arrive, Goto, TypeOK, OutcomeWay
<1> QED BY <1>2, <1>3 DEF OutcomeWay, Refrains

\* A guard's error: the label after it and what it stands for.
LEMMA ErrorKeepsOutcome ==
    ASSUME IInv, NEW r \in Requests, OutcomeWay(r), Same(r),
           metadata' = metadata, preflight' = preflight, event' = event, barred' = barred,
           pc[r] \in {"block_guard", "read", "screen"}, pc'[r] = "catch",
           Guarded(Q(r)), Caught(r)', Refrains(r)'
    PROVE  OutcomeWay(r)'
<1>1. Q(r)' = Q(r) /\ cfg' = cfg
  BY DEF Same, Q
<1>2. ~event[r]
  BY DEF OutcomeWay
<1>3. Guarded(Q(r))' <=> Guarded(Q(r))
  BY <1>1 DEF Guarded, BlockGuarded, DataGuarded
<1> QED BY <1>1, <1>2, <1>3, DemandedStable DEF OutcomeWay

\* A guard that lets the request go on.
LEMMA PassKeepsOutcome ==
    ASSUME IInv, NEW r \in Requests, OutcomeWay(r), Same(r),
           metadata' = metadata, preflight' = preflight, event' = event, enforced' = enforced,
           barred' = barred,
           pc[r] \in {"routing", "block_guard", "read", "screen"},
           pc'[r] \in {"block_guard", "read", "screen", "handler"},
           pc'[r] = "block_guard" => BlockGuarded(Q(r)),
           pc'[r] = "screen" /\ BlockGuarded(Q(r)) => metadata[r] = Clean,
           pc'[r] = "handler" => Q(r).kind # "unrouted"
    PROVE  OutcomeWay(r)'
<1>1. Q(r)' = Q(r) /\ cfg' = cfg
  BY DEF Same, Q
<1>2. ~event[r] /\ enforced[r] = NoVerdict
  BY DEF OutcomeWay
<1>3. BlockGuarded(Q(r))' <=> BlockGuarded(Q(r))
  BY <1>1 DEF BlockGuarded
<1> QED BY <1>1, <1>2, <1>3, DemandedStable DEF OutcomeWay, Refrains

LEMMA RouteKeepsOutcome ==
    ASSUME IInv, NEW r \in Requests, OutcomeWay(r), Route(r)
    PROVE  OutcomeWay(r)'
<1>1. TypeOK /\ pc[r] = "routing" /\ ~ran[r] /\ ~event[r] /\ enforced[r] = NoVerdict
  BY DEF IInv, Way, Route, OutcomeWay
<1>2. /\ Same(r) /\ metadata' = metadata /\ preflight' = preflight /\ event' = event
      /\ enforced' = enforced /\ ran' = ran /\ barred' = barred
  BY DEF Route, Same, environment, history
<1>3. Q(r).kind \in Kind
  BY <1>1, QType DEF Request
<1>4. pc'[r] = CASE Q(r).kind = "unrouted" -> "respond"
                 [] Q(r).kind = "open" -> "handler"
                 [] Q(r).kind = "body" -> "read"
                 [] OTHER -> "block_guard"
  BY <1>1 DEF Route, Goto, TypeOK
<1>5. CASE Q(r).kind = "unrouted"
  <2>1. pc'[r] = "respond" /\ resp'[r] = NotFound
    BY <1>1, <1>4, <1>5 DEF Route, TypeOK
  <2>2. Q(r)' = Q(r) /\ cfg' = cfg
    BY <1>2 DEF Q, Same
  <2>3. Settled(r)' /\ Handed(r)' = NotFound
    BY <1>1, <1>2, <1>5, <2>2 DEF Settled, Handed
  <2> QED BY <1>1, <1>2, <2>1, <2>2, <2>3, DemandedStable DEF OutcomeWay, Refrains
<1>6. CASE Q(r).kind # "unrouted"
  <2>1. /\ pc'[r] \in {"handler", "read", "block_guard"}
        /\ pc'[r] = "block_guard" => BlockGuarded(Q(r))
    BY <1>3, <1>4, <1>6 DEF Kind, BlockGuarded
  <2> QED BY <1>1, <1>2, <1>6, <2>1, PassKeepsOutcome
<1> QED BY <1>5, <1>6

LEMMA BlockGuardKeepsOutcome ==
    ASSUME IInv, NEW r \in Requests, OutcomeWay(r), CheckBlockGuard(r)
    PROVE  OutcomeWay(r)'
<1>1. /\ TypeOK /\ pc[r] = "block_guard" /\ BlockGuarded(Q(r)) /\ enforced[r] = NoVerdict
      /\ cfg.attached => metadata[r] # NoVerdict
  BY DEF IInv, Way, CheckBlockGuard, OutcomeWay, Evaluating
<1>2. /\ Same(r) /\ metadata' = metadata /\ preflight' = preflight /\ event' = event
      /\ ran' = ran /\ Q(r)' = Q(r) /\ barred' = barred
  BY DEF CheckBlockGuard, Same, environment, history, Q
<1>3. CASE metadata[r] = Clean
  <2>1. /\ pc'[r] = IF DataGuarded(Q(r)) THEN "read" ELSE "handler"
        /\ enforced' = enforced
    BY <1>1, <1>3 DEF CheckBlockGuard, Goto, TypeOK
  <2>2. Q(r).kind # "unrouted"
    BY <1>1 DEF BlockGuarded
  <2> QED BY <1>1, <1>2, <2>1, <2>2, PassKeepsOutcome
<1>4. CASE metadata[r] # Clean
  <2> DEFINE v == IF metadata[r] = NoVerdict THEN Failed ELSE metadata[r]
  <2>1. pc'[r] = "catch" /\ err'[r] = Status(v) /\ enforced'[r] = v
    BY <1>1, <1>4 DEF CheckBlockGuard, GuardError, Goto, FirstWins, TypeOK
  <2>2. ASSUME cfg.attached PROVE Caught(r)'
    <3>1. v = metadata[r] /\ v \notin {NoVerdict, Clean}
      BY <1>1, <1>4, <2>2
    <3>2. RefusalVerdict(metadata'[r], enforced'[r]) = metadata[r]
      BY <1>2, <3>1 DEF RefusalVerdict
    <3> QED BY <1>2, <2>1, <3>1, <3>2 DEF Caught, OwnStatus
  <2>3. Caught(r)'
    BY <1>2, <2>2 DEF Caught, Same
  <2> QED BY <1>1, <1>2, <2>1, <2>3, ErrorKeepsOutcome DEF Guarded, Refrains
<1> QED BY <1>3, <1>4

LEMMA ReadBodyKeepsOutcome ==
    ASSUME IInv, NEW r \in Requests, OutcomeWay(r), ReadBody(r)
    PROVE  OutcomeWay(r)'
<1>1. /\ TypeOK /\ pc[r] = "read" /\ DataGuarded(Q(r)) /\ enforced[r] = NoVerdict
      /\ BlockGuarded(Q(r)) => metadata[r] = Clean
  BY DEF IInv, Way, ReadBody, OutcomeWay
<1>2. /\ Same(r) /\ metadata' = metadata /\ preflight' = preflight /\ event' = event
      /\ ran' = ran /\ Q(r)' = Q(r) /\ barred' = barred
  BY DEF ReadBody, Same, environment, history, Q
<1>3. /\ BlockGuarded(Q(r))' <=> BlockGuarded(Q(r))
      /\ DataGuarded(Q(r))' <=> DataGuarded(Q(r))
      /\ OverCap(r)' <=> OverCap(r)
  BY <1>2 DEF BlockGuarded, DataGuarded, OverCap, EffectiveCap, Same
<1>4. CASE pc'[r] = "screen"
  <2>1. enforced' = enforced
    BY <1>1, <1>4 DEF ReadBody, GuardError, Goto, TypeOK
  <2> QED BY <1>1, <1>2, <1>4, <2>1, PassKeepsOutcome
<1>5. CASE pc'[r] # "screen"
  <2>1. pc'[r] = "catch"
    BY <1>1, <1>5 DEF ReadBody, GuardError, Goto, TypeOK
  <2>2. cfg.attached =>
           \/ err'[r] = 413 /\ OverCap(r)
           \/ err'[r] = 500 /\ Q(r).body = "broken" /\ enforced'[r] = Failed
    BY <1>1, <1>5 DEF ReadBody, GuardError, Goto, FirstWins, TypeOK
  <2>3. Caught(r)'
    BY <1>1, <1>2, <1>3, <2>2, VerdictTypes DEF Caught, OwnStatus, Same
  <2>4. enforced'[r] \in {NoVerdict, Failed}
    BY <1>1 DEF ReadBody, FirstWins, TypeOK
  <2> QED BY <1>1, <1>2, <2>1, <2>3, <2>4, ErrorKeepsOutcome DEF Guarded, Refrains
<1> QED BY <1>4, <1>5

\* The body phase leaves a verdict of its own, or the metadata phase's.
LEMMA ScreenVerdictLeft ==
    ASSUME NEW r \in Requests
    PROVE  /\ ScreenVerdict(r) # NoVerdict
           /\ metadata[r] \notin {NoVerdict, Clean} => ScreenVerdict(r) = metadata[r]
           /\ TypeOK /\ cfg.passive => ScreenVerdict(r) \in {Clean, Failed, metadata[r]}
<1>1. FindingVerdict(r) # NoVerdict
  BY VerdictTypes DEF FindingVerdict, Kinds
<1>2. TypeOK /\ cfg.passive => FindingVerdict(r) = Clean
  BY PassiveStage DEF FindingVerdict
<1> QED BY <1>1, <1>2, VerdictTypes DEF ScreenVerdict, StashedVerdict

LEMMA ScreenBodyKeepsOutcome ==
    ASSUME IInv, NEW r \in Requests, OutcomeWay(r), ScreenBody(r)
    PROVE  OutcomeWay(r)'
<1>1. /\ TypeOK /\ pc[r] = "screen" /\ DataGuarded(Q(r)) /\ enforced[r] = NoVerdict
      /\ BlockGuarded(Q(r)) => metadata[r] = Clean
      /\ metadata[r] # NoVerdict
  BY DEF IInv, Way, Buffered, ScreenBody, OutcomeWay, Evaluating
<1>2. /\ Same(r) /\ metadata' = metadata /\ preflight' = preflight /\ event' = event
      /\ ran' = ran /\ Q(r)' = Q(r) /\ barred' = barred
  BY DEF ScreenBody, Same, environment, Q
<1>3. CASE ScreenVerdict(r) = Clean
  <2>1. pc'[r] = "handler" /\ enforced' = enforced
    BY <1>1, <1>3 DEF ScreenBody, Goto, TypeOK
  <2>2. Q(r).kind # "unrouted"
    BY <1>1 DEF DataGuarded
  <2> QED BY <1>1, <1>2, <2>1, <2>2, PassKeepsOutcome
<1>4. CASE ScreenVerdict(r) # Clean
  <2> DEFINE v == ScreenVerdict(r)
  <2>1. pc'[r] = "catch" /\ err'[r] = Status(v) /\ enforced'[r] = v
    BY <1>1, <1>4 DEF ScreenBody, GuardError, Goto, FirstWins, TypeOK
  <2>2. v \notin {NoVerdict, Clean} /\ (metadata[r] # Clean => v = metadata[r])
    BY <1>1, <1>4, ScreenVerdictLeft
  <2>3. RefusalVerdict(metadata'[r], enforced'[r]) = v
    BY <1>1, <1>2, <2>1, <2>2 DEF RefusalVerdict
  <2>4. BlockGuarded(Q(r))' <=> BlockGuarded(Q(r))
    BY <1>2 DEF BlockGuarded
  <2>5. Caught(r)'
    BY <1>1, <1>2, <2>1, <2>2, <2>3, <2>4 DEF Caught, OwnStatus
  <2>6. Refrains(r)'
    BY <1>1, <1>2, <1>4, <2>1, ScreenVerdictLeft DEF Refrains, Same
  <2> QED BY <1>1, <1>2, <2>1, <2>5, <2>6, ErrorKeepsOutcome DEF Guarded
<1> QED BY <1>3, <1>4

----------------------------------------------------------------------------
(* The answer is made of that.                                             *)

LEMMA RunHandlerKeepsOutcome ==
    ASSUME IInv, NEW r \in Requests, OutcomeWay(r), RunHandler(r)
    PROVE  OutcomeWay(r)'
<1>1. TypeOK /\ pc[r] = "handler" /\ Q(r).kind # "unrouted" /\ ~event[r]
  BY DEF IInv, RunHandler, OutcomeWay
<1>2. /\ Same(r) /\ metadata' = metadata /\ preflight' = preflight /\ event' = event
      /\ Q(r)' = Q(r) /\ cfg' = cfg /\ barred' = barred /\ enforced' = enforced
  BY DEF RunHandler, Same, environment, Q
<1>3. /\ pc'[r] = "respond" /\ ran'[r]
      /\ resp'[r] = [status |-> Q(r).reply, body |-> "handler", retry |-> 0, by |-> "handler"]
  BY <1>1 DEF RunHandler, Goto, TypeOK
<1>4. Settled(r)' /\ Handed(r)' = resp'[r]
  BY <1>1, <1>2, <1>3 DEF Settled, Handed
<1> QED BY <1>1, <1>2, <1>3, <1>4, DemandedStable DEF OutcomeWay, Refrains

LEMMA CatchKeepsOutcome ==
    ASSUME IInv, NEW r \in Requests, OutcomeWay(r), Catch(r)
    PROVE  OutcomeWay(r)'
<1>1. TypeOK /\ pc[r] = "catch" /\ Guarded(Q(r)) /\ Caught(r) /\ ~ran[r] /\ ~event[r]
  BY DEF IInv, Way, Catch, OutcomeWay
<1>2. Kept(r) /\ event' = event /\ cfg' = cfg
  BY DEF Catch, Kept, Same, environment, history
<1>3. pc'[r] = "respond" /\ resp'[r] = ErrorResponse(r, err[r])
  BY <1>1 DEF Catch, Goto, TypeOK
<1>4. Q(r).kind # "unrouted"
  BY <1>1 DEF Guarded, BlockGuarded, DataGuarded
<1>5. Settled(r) /\ Handed(r) = resp'[r]
  BY <1>1, <1>3, <1>4 DEF Settled, Handed
<1>6. Settled(r)' /\ Handed(r)' = resp'[r]
  BY <1>2, <1>5, KeptStable
<1>7. Demanded(r)' <=> Demanded(r)
  BY <1>2, KeptStable
<1> QED BY <1>1, <1>2, <1>3, <1>6, <1>7 DEF OutcomeWay, Kept, Refrains

LEMMA OnResponseKeepsOutcome ==
    ASSUME IInv, NEW r \in Requests, OutcomeWay(r), OnResponse(r)
    PROVE  OutcomeWay(r)'
<1>1. TypeOK /\ pc[r] = "respond" /\ Settled(r) /\ resp[r] = Handed(r) /\ ~event[r]
  BY DEF IInv, OnResponse, OutcomeWay
<1>2. Kept(r) /\ cfg' = cfg
  BY DEF OnResponse, Kept, Same, environment, history
<1>3. pc'[r] = "done"
  BY <1>1 DEF OnResponse, Finish, Goto, TypeOK
<1>4. Shielded(r) = Rewritten(r, Handed(r))
  BY <1>1 DEF Shielded, Shields, Rewritten
<1>5. ASSUME ~preflight[r] PROVE resp'[r] = Delivered(r, Handed(r))
  BY <1>1, <1>4, <1>5 DEF OnResponse, Finish, Delivered, TypeOK
<1>6. ~preflight'[r] => resp'[r] = Delivered(r, Handed(r))'
  BY <1>2, <1>5, KeptStable DEF Kept
<1>7. ASSUME event'[r] PROVE Forwarded(r) /\ (ran[r] \/ Q(r).kind = "unrouted" \/ err[r] = 413)
  <2>1. cfg.attached /\ Forwarded(r)
    BY <1>1, <1>7 DEF OnResponse, TypeOK
  <2>2. ~ran[r] /\ Q(r).kind # "unrouted" => err[r] = 413
    BY <1>1, <2>1 DEF Settled, Caught, Forwarded
  <2> QED BY <2>1, <2>2
<1>8. event'[r] => Forwarded(r)' /\ (ran'[r] \/ Q(r)'.kind = "unrouted" \/ err'[r] = 413)
  BY <1>2, <1>7, KeptStable DEF Kept
<1>9. Settled(r)' /\ (Demanded(r)' <=> Demanded(r))
  BY <1>1, <1>2, KeptStable
<1> QED BY <1>2, <1>3, <1>6, <1>8, <1>9 DEF OutcomeWay, Kept, Refrains

\* Every step keeps every request's outcome to its way.
LEMMA NextKeepsOutcome ==
    ASSUME IInv, [Next]_vars, NEW r \in Requests, OutcomeWay(r)
    PROVE  OutcomeWay(r)'
<1>1. TypeOK
  BY DEF IInv
<1>2. CASE Progress(r)
  BY <1>2, PreambleKeepsOutcome, ChecksKeepOutcome, StagePassKeepsOutcome, RouteKeepsOutcome,
     BlockGuardKeepsOutcome, ReadBodyKeepsOutcome, ScreenBodyKeepsOutcome,
     RunHandlerKeepsOutcome, CatchKeepsOutcome, OnResponseKeepsOutcome DEF Progress
<1> QED BY <1>1, <1>2, ArriveKeepsOutcome, AsideKeepsOutcome, StepOrAside

\* What a rule has punished a request for stays.
LEMMA PunishedStable ==
    ASSUME IInv, [Next]_vars, NEW r \in Requests, OutcomeWay(r), PunishedByRule(r)
    PROVE  Q(r)' = Q(r) /\ PunishedByRule(r)'
<1> USE DEF environment, history
<1>1. TypeOK /\ pc[r] \notin {"idle", "preamble"}
  BY DEF IInv, OutcomeWay, PunishedByRule
<1>2. CASE Aside(r)
  BY <1>2 DEF Aside, Same, Q, PunishedByRule
<1>3. CASE Progress(r)
  <2>1. pc[r] # "done"
    BY <1>3 DEF Progress, ExcludedPath, Preflight, ResolveCarrier, EvaluateGates, BanArm,
       LateRefusal, StagePass, Route, CheckBlockGuard, ReadBody, ScreenBody, RunHandler, Catch,
       OnResponse
  <2>2. cfg' = cfg /\ req' = req /\ barred' = barred
    BY <1>1, <1>3 DEF Progress, ExcludedPath, Preflight, ResolveCarrier, EvaluateGates, BanArm,
       LateRefusal, StagePass, Route, CheckBlockGuard, ReadBody, ScreenBody, RunHandler, Catch,
       OnResponse
  <2> QED BY <2>1, <2>2 DEF Q, PunishedByRule
<1>4. ~Arrive(r)
  BY <1>1 DEF Arrive
<1> QED BY <1>1, <1>2, <1>3, <1>4, StepOrAside

\* In passive mode a step of a request leaves the bans alone, or is a rule's.
LEMMA RulesBan ==
    ASSUME TypeOK, cfg.passive, NEW r \in Requests, Arrive(r) \/ Progress(r)
    PROVE  \/ bans' = bans
           \/ /\ cfg.sharedBans
              /\ bans' = BanUntil(Q(r).ip)
              /\ Q(r)' = Q(r) /\ PunishedByRule(r)'
<1> USE DEF environment, stores
<1>1. CASE StagePass(r) \/ ScreenBody(r)
  BY <1>1, PassiveStage DEF StagePass, ScreenBody
<1>2. CASE ResolveCarrier(r)
  <2>1. cfg' = cfg /\ Q(r)' = Q(r)
    BY <1>2 DEF ResolveCarrier, Q
  <2>2. \/ bans' = bans
        \/ /\ Observes(r) /\ ~cfg.processorPassive
           /\ barred'[r]
           /\ bans' = ProcessorBan(Q(r).ip)
    BY <1>2 DEF ResolveCarrier, UsageBans, TypeOK
  <2> QED BY <2>1, <2>2 DEF ProcessorBan, PunishedByRule, Observes
<1>3. CASE OnResponse(r)
  <2>1. cfg' = cfg /\ Q(r)' = Q(r)
    BY <1>3 DEF OnResponse, Q
  <2>2. \/ bans' = bans
        \/ /\ cfg.processor /\ ReturnBans(Shielded(r))
           /\ pc'[r] = "done" /\ resp'[r] = Modified(Shielded(r))
           /\ bans' = ProcessorBan(Q(r).ip)
    BY <1>3 DEF OnResponse, Finish, Goto, TypeOK
  <2>3. Modified(Shielded(r)).status = Shielded(r).status \/ cfg.modifier = "teapot"
    BY DEF Modified
  <2> QED BY <2>1, <2>2, <2>3 DEF ProcessorBan, PunishedByRule, ReturnBans
<1>4. CASE Arrive(r) \/ ExcludedPath(r) \/ Preflight(r) \/ EvaluateGates(r) \/ BanArm(r)
             \/ LateRefusal(r) \/ Route(r)
  BY <1>4 DEF Arrive, ExcludedPath, Preflight, EvaluateGates, BanArm, LateRefusal, Route
<1>5. CASE CheckBlockGuard(r) \/ ReadBody(r) \/ RunHandler(r) \/ Catch(r)
  BY <1>5 DEF CheckBlockGuard, ReadBody, RunHandler, Catch
<1> QED BY <1>1, <1>2, <1>3, <1>4, <1>5 DEF Progress

LEMMA NextKeepsPassive ==
    ASSUME IInv, Outcomes, [Next]_vars, NoPassiveBans
    PROVE  NoPassiveBans'
<1> USE DEF environment, stores
<1>1. TypeOK
  BY DEF IInv
<1>2. cfg' = cfg
  BY DEF Next, Progress, Arrive, ExcludedPath, Preflight, ResolveCarrier, EvaluateGates, BanArm,
     LateRefusal, StagePass, Route, CheckBlockGuard, ReadBody, ScreenBody, RunHandler, Catch,
     OnResponse, Tick, StoreFlips, OperatorBan, OperatorUnban, Reset, Terminating, vars
<1> SUFFICES ASSUME cfg.passive, "ban" \notin OperatorActs, NEW ip \in Ips, bans'[ip] # 0
             PROVE  cfg.sharedBans /\ \E r \in Requests : Q(r)'.ip = ip /\ PunishedByRule(r)'
  BY <1>2 DEF NoPassiveBans
<1>3. CASE bans[ip] # 0
  <2>1. PICK r \in Requests : cfg.sharedBans /\ Q(r).ip = ip /\ PunishedByRule(r)
    BY <1>3 DEF NoPassiveBans
  <2>2. Q(r)' = Q(r) /\ PunishedByRule(r)'
    BY <2>1, PunishedStable DEF Outcomes
  <2> QED BY <2>1, <2>2
<1>4. CASE bans[ip] = 0
  <2>1. PICK r \in Requests : Arrive(r) \/ Progress(r)
    <3>1. ASSUME NEW i \in Ips, OperatorBan(i) \/ OperatorUnban(i) PROVE FALSE
      BY <1>1, <1>4, <3>1 DEF OperatorBan, OperatorUnban, TypeOK, StageTypeOK
    <3>2. bans' # bans
      BY <1>4
    <3> QED BY <3>1, <3>2 DEF Next, Tick, StoreFlips, Reset, Terminating, vars
  <2>2. bans' # bans
    BY <1>4
  <2>3. /\ cfg.sharedBans
        /\ bans' = BanUntil(Q(r).ip)
        /\ Q(r)' = Q(r) /\ PunishedByRule(r)'
    BY <1>1, <2>1, <2>2, RulesBan
  <2>4. Q(r).ip = ip
    BY <1>1, <1>4, <2>3 DEF BanUntil, TypeOK, StageTypeOK
  <2> QED BY <2>3, <2>4
<1> QED BY <1>3, <1>4

LEMMA InitOutcome == Init => OutcomeInv
<1> SUFFICES ASSUME Init PROVE OutcomeInv
  OBVIOUS
<1>1. NoPassiveBans
  BY DEF Init, StageInit, NoPassiveBans
<1>2. ASSUME NEW r \in Requests PROVE OutcomeWay(r)
  BY VerdictTypes DEF Init, OutcomeWay, Refrains
<1> QED BY <1>1, <1>2 DEF OutcomeInv, Outcomes

LEMMA NextOutcomes == IInv /\ Outcomes /\ [Next]_vars => Outcomes'
BY NextKeepsOutcome DEF Outcomes

LEMMA NextOutcome == IInv /\ OutcomeInv /\ [Next]_vars => OutcomeInv'
BY NextOutcomes, NextKeepsPassive DEF OutcomeInv

LEMMA AlwaysOutcome == Spec => [](IInv /\ OutcomeInv)
BY InitOutcome, NextOutcome, AlwaysIInv, PTL DEF Spec

----------------------------------------------------------------------------
(* The properties.                                                         *)

\* The passive switch of the fairing silences what reads it and nothing else, in
\* any interleaving: its stage bans nobody and its data guard refuses no finding,
\* and what is refused or banned all the same is the doing of a check that
\* failed, of the route's carrier, of a stage built enforcing or of a rule of a
\* processor whose own switch is off.
THEOREM PassiveOnlyWatches == Spec => []PassiveOnlyObserves
<1>1. OutcomeInv => PassiveOnlyObserves
  BY DEF OutcomeInv, Outcomes, OutcomeWay, NoPassiveBans, Demanded, Refrains,
     PassiveOnlyObserves
<1> QED BY <1>1, AlwaysOutcome, PTL

LEMMA OutcomesForward == Outcomes => EventOnlyWhenForwarded
BY DEF Outcomes, OutcomeWay, Forwarded, EventOnlyWhenForwarded

\* The headers-applied event leaves only for a request both phases forwarded.
THEOREM EventsAreForwarded == Spec => []EventOnlyWhenForwarded
BY OutcomesForward, AlwaysOutcome, PTL DEF OutcomeInv

LEMMA OutcomesKeepStatus == Outcomes => RefusalKeepsItsStatus
<1> SUFFICES ASSUME Outcomes, NEW r \in Requests,
                    pc[r] = "done", cfg.attached, cfg.modifier # "teapot",
                    Guarded(Q(r)), ~ran[r], ~preflight[r]
             PROVE  OwnStatus(r, resp[r].status) \/ (resp[r].status = 301 /\ Redirects(r))
  BY DEF RefusalKeepsItsStatus, OwnStatus
<1>1. Q(r).kind # "unrouted"
  BY DEF Guarded, BlockGuarded, DataGuarded
<1>2. Caught(r) /\ resp[r] = Delivered(r, Handed(r))
  BY <1>1 DEF Outcomes, OutcomeWay, Settled
<1>3. OwnStatus(r, err[r])
  BY <1>2 DEF Caught
<1>4. Handed(r) = ErrorResponse(r, err[r]) /\ Handed(r).status = err[r]
  BY <1>1 DEF Handed, ErrorResponse, CatcherResponse
<1>5. CASE Redirects(r)
  BY <1>2, <1>5 DEF Delivered, RedirectResponse
<1>6. CASE ~Redirects(r)
  <2>1. resp[r] = Rewritten(r, Handed(r))
    BY <1>2, <1>6 DEF Delivered, Modified
  <2>2. CASE err[r] = 404 /\ metadata[r] \notin {NoVerdict, Clean, Failed}
    BY <1>4, <2>1, <2>2 DEF Rewritten, VerdictResponse, OwnStatus, RefusalVerdict
  <2>3. CASE ~(err[r] = 404 /\ metadata[r] \notin {NoVerdict, Clean, Failed})
    BY <1>3, <1>4, <2>1, <2>3 DEF Rewritten
  <2> QED BY <2>2, <2>3
<1> QED BY <1>5, <1>6

\* The client of a guarded route sees the status of the phase that refused,
\* whatever on_response renders in between.
THEOREM StatusIsKept == Spec => []RefusalKeepsItsStatus
BY OutcomesKeepStatus, AlwaysOutcome, PTL DEF OutcomeInv

LEMMA OutcomesKeepAnswers == IInv /\ Outcomes => HandlersAnswerStands
<1> SUFFICES ASSUME IInv, Outcomes, NEW r \in Requests, pc[r] = "done", ran[r],
                    cfg.modifier # "teapot", ~preflight[r]
             PROVE  \/ resp[r].by = "handler" /\ resp[r].status = Q(r).reply
                    \/ /\ ~Guarded(Q(r))
                       /\ metadata[r] \notin {NoVerdict, Clean, Failed}
                       /\ Redirects(r) \/ Q(r).reply = 404
  BY DEF HandlersAnswerStands
<1>1. OutcomeWay(r) /\ LetThrough(r)
  BY DEF IInv, Way, Outcomes
<1>2. /\ resp[r] = Delivered(r, Handed(r))
      /\ Handed(r).by = "handler" /\ Handed(r).status = Q(r).reply
  BY <1>1 DEF OutcomeWay, Handed
<1>3. Guarded(Q(r)) => metadata[r] = Clean
  BY <1>1 DEF LetThrough
<1>4. CASE cfg.attached /\ Redirects(r)
  <2>1. metadata[r] \notin {NoVerdict, Clean, Failed}
    BY <1>4 DEF Redirects, NoVerdict, Clean, Failed, Plain
  <2> QED BY <1>3, <1>4, <2>1
<1>5. CASE ~(cfg.attached /\ Redirects(r))
  <2>1. resp[r] \in {Handed(r), Rewritten(r, Handed(r))}
    BY <1>2, <1>5 DEF Delivered, Modified
  <2> QED BY <1>2, <1>3, <2>1 DEF Rewritten
<1> QED BY <1>4, <1>5

\* What a guarded handler answered is what its client gets, a 404 of its own
\* included: the not-found rewrite and the redirect reach no request a guard
\* let through.
THEOREM AnswersStand == Spec => []HandlersAnswerStands
BY OutcomesKeepAnswers, AlwaysOutcome, PTL DEF OutcomeInv

----------------------------------------------------------------------------
(* The shield.                                                             *)

\* A stage that answers 403 leaves the body it answers with.
Embodied(r) == metadata[r].kind = "StageForbidden" => body[r] # "none"

LEMMA StageBodies ==
    ASSUME NEW q, NEW c, CheckVerdict(q, c).kind = "StageForbidden"
    PROVE  CheckBody(c) = "stage"
BY DEF CheckVerdict, CheckBody, StageBlock, Plain, CustomBlock, NoVerdict, Failed

LEMMA NextKeepsEmbodied ==
    ASSUME IInv, [Next]_vars, NEW r \in Requests, Embodied(r)
    PROVE  Embodied(r)'
<1> USE DEF history
<1>1. TypeOK /\ Way(r)
  BY DEF IInv
<1>2. \A kind : Plain(kind).kind = kind
  BY DEF Plain
<1>3. ASSUME NEW v, NEW b, metadata' = FirstWins(metadata, r, v), body' = Recorded(r, b),
             metadata[r] = NoVerdict, v.kind = "StageForbidden" => b = "stage"
      PROVE  Embodied(r)'
  BY <1>1, <1>3 DEF FirstWins, Recorded, TypeOK, Embodied
<1>4. ASSUME NEW b, metadata' = metadata, body' = Recorded(r, b) PROVE Embodied(r)'
  BY <1>1, <1>4 DEF Recorded, TypeOK, Embodied
<1>5. pc[r] \in Evaluating => metadata[r] = NoVerdict
  BY <1>1 DEF Way
<1>6. CASE ExcludedPath(r) \/ Preflight(r) \/ ResolveCarrier(r)
  <2>1. metadata'[r] = metadata[r] \/ metadata'[r] \in {Clean, Failed, Plain("ActivityBanned")}
    BY <1>1, <1>6 DEF ExcludedPath, Preflight, ResolveCarrier, Return, FirstWins, TypeOK
  <2>2. body' = body
    BY <1>6 DEF ExcludedPath, Preflight, ResolveCarrier
  <2> QED BY <1>2, <2>1, <2>2 DEF Embodied, Clean, Failed
<1>7. CASE EvaluateGates(r)
  <2>1. body' = Recorded(r, CheckBody(RefusingGate(r)))
    BY <1>7 DEF EvaluateGates
  <2>2. \/ metadata' = metadata
        \/ metadata' = FirstWins(metadata, r, CheckVerdict(Q(r), RefusingGate(r)))
    BY <1>7 DEF EvaluateGates, Return
  <2>3. metadata[r] = NoVerdict
    BY <1>5, <1>7 DEF EvaluateGates, Evaluating
  <2> QED BY <1>3, <1>4, <2>1, <2>2, <2>3, StageBodies
<1>8. CASE BanArm(r)
  <2> DEFINE answer == IF AsksForBan(r) THEN BanAnswer(Q(r).ip) ELSE NoVerdict
  <2>1. body' = Recorded(r, OverrideFor(answer))
    BY <1>8 DEF BanArm
  <2>2. metadata' = metadata \/ metadata' = FirstWins(metadata, r, answer)
    BY <1>8 DEF BanArm, Return
  <2>3. metadata[r] = NoVerdict
    BY <1>5, <1>8 DEF BanArm, Evaluating
  <2>4. answer.kind # "StageForbidden"
    BY DEF BanAnswer, Plain, NoVerdict
  <2> QED BY <1>3, <1>4, <2>1, <2>2, <2>3, <2>4
<1>9. CASE LateRefusal(r)
  <2> DEFINE late == FirstRefusal(Q(r), gate[r], LateOrder)
  <2>1. /\ body' = Recorded(r, CheckBody(late))
        /\ metadata' = FirstWins(metadata, r, CheckVerdict(Q(r), late))
    BY <1>9 DEF LateRefusal, Return
  <2>2. metadata[r] = NoVerdict
    BY <1>5, <1>9 DEF LateRefusal, Evaluating
  <2> QED BY <1>3, <2>1, <2>2, StageBodies
<1>10. CASE StagePass(r)
  <2>1. /\ body' = Recorded(r, FinalBody(r))
        /\ metadata' = FirstWins(metadata, r, FinalVerdict(r))
    BY <1>10 DEF StagePass, Return
  <2>2. metadata[r] = NoVerdict
    BY <1>5, <1>10 DEF StagePass, Evaluating
  <2>3. StageAnswer(r).kind # "StageForbidden"
    BY DEF StageAnswer, TierAnswer, FeedAnswer, RateLimited, Plain, NoVerdict
  <2>4. FinalVerdict(r).kind = "StageForbidden" => FinalBody(r) = "stage"
    BY <2>3, <1>2 DEF FinalVerdict, FinalBody, Clean
  <2> QED BY <1>3, <2>1, <2>2, <2>4
<1>11. CASE Route(r) \/ CheckBlockGuard(r) \/ ReadBody(r) \/ RunHandler(r) \/ Catch(r)
  BY <1>11 DEF Route, CheckBlockGuard, ReadBody, RunHandler, Catch, Embodied
<1>12. CASE ScreenBody(r)
  BY <1>4, <1>12 DEF ScreenBody
<1>13. CASE OnResponse(r) \/ Aside(r)
  BY <1>13 DEF OnResponse, Aside, Embodied
<1>14. CASE Arrive(r)
  BY <1>14 DEF Arrive, Embodied
<1> QED
  BY <1>1, <1>6, <1>7, <1>8, <1>9, <1>10, <1>11, <1>12, <1>13, <1>14, StepOrAside DEF Progress

\* The two renderers agree on the refusals that are faced alike.
LEMMA FacesAgree ==
    ASSUME NEW v \in Slot, NEW b, FacedAlike(v, b), v.kind = "StageForbidden" => b # "none"
    PROVE  /\ Face(VerdictResponse(v, b)) = Face(CatcherResponse(Status(v), v, v, b))
           /\ Status(v) \in CatcherCodes \ {404}
           /\ v.kind # "HttpsRedirect"
<1>1. v \notin {NoVerdict, Clean}
  BY DEF FacedAlike, NoVerdict, Clean, Plain
<1>2. RefusalVerdict(v, v) = v
  BY <1>1 DEF RefusalVerdict
<1>3. Status(v) \in CatcherCodes \ {404} /\ v.kind # "HttpsRedirect"
  BY DEF FacedAlike, Status, CatcherCodes
<1>4. OrElse(b, PlainBody(v)) = CatcherBody(Status(v), v, v, b)
  <2>1. CASE v.kind \in {"Threat", "HeadersBlocked"}
    BY <1>2, <2>1 DEF Status, OrElse, PlainBody, CatcherBody
  <2>2. CASE v.kind \in {"IpBlocked", "Banned", "ActivityBanned", "StageForbidden"}
    <3>1. Status(v) = 403
      BY <2>2 DEF Status
    <3>2. CatcherBody(403, v, v, b) = OrElse(b, ForbiddenMessage(v.kind))
      BY <1>2 DEF CatcherBody
    <3>3. b # "none" \/ PlainBody(v) = ForbiddenMessage(v.kind)
      BY <2>2 DEF PlainBody, ForbiddenMessage
    <3> QED BY <3>1, <3>2, <3>3 DEF OrElse
  <2>3. CASE v.kind = "AuthRequired"
    BY <1>2, <2>3 DEF Status, OrElse, PlainBody, CatcherBody
  <2>4. CASE v.kind \in {"RateLimited", "RedisUnavailable"} /\ b = "none"
    <3>1. CASE v.kind = "RateLimited"
      BY <1>2, <2>4, <3>1 DEF Status, OrElse, PlainBody, CatcherBody
    <3>2. CASE v.kind = "RedisUnavailable"
      <4>1. Status(v) = 503 /\ CatcherBody(503, v, v, b) = UnavailableMessage({v.kind})
        BY <3>2 DEF Status, CatcherBody
      <4>2. UnavailableMessage({v.kind}) = "REDIS_UNAVAILABLE"
        BY <3>2 DEF UnavailableMessage
      <4> QED BY <2>4, <3>2, <4>1, <4>2 DEF OrElse, PlainBody
    <3> QED BY <2>4, <3>1, <3>2
  <2> QED BY <2>1, <2>2, <2>3, <2>4 DEF FacedAlike
<1>5. CatcherRetry(Status(v), v, v) = IF b = "none" /\ v.kind = "RateLimited" THEN v.code ELSE 0
  BY <1>2 DEF FacedAlike, Status, CatcherRetry
<1> QED BY <1>3, <1>4, <1>5 DEF Face, VerdictResponse, CatcherResponse

\* A refused request on an unrouted path gets the face of the refusal ...
LEMMA UnroutedFace ==
    ASSUME Outcomes, NEW r \in Requests, Refused(r), Q(r).kind = "unrouted",
           ~Redirects(r)
    PROVE  resp[r] = IF cfg.processor THEN Modified(VerdictResponse(metadata[r], body[r]))
                     ELSE VerdictResponse(metadata[r], body[r])
<1>1. OutcomeWay(r) /\ pc[r] = "done" /\ metadata[r] \notin {NoVerdict, Clean, Failed}
  BY DEF Outcomes, Refused
<1>2. Handed(r) = NotFound /\ resp[r] = Delivered(r, Handed(r)) /\ cfg.attached
  BY <1>1 DEF OutcomeWay, Settled, Handed
<1> QED BY <1>1, <1>2 DEF Delivered, Rewritten, NotFound

\* ... and so does one on a guarded route, by the catcher of its status.
LEMMA GuardedFace ==
    ASSUME IInv, Outcomes, NEW s \in Requests, Refused(s), BlockGuarded(Q(s)),
           ~Redirects(s), Status(metadata[s]) \in CatcherCodes \ {404},
           Status(metadata[s]) \notin cfg.claimed
    PROVE  LET v == metadata[s]
               caught == CatcherResponse(Status(v), v, v, body[s])
           IN  resp[s] = IF cfg.processor THEN Modified(caught) ELSE caught
<1>1. /\ OutcomeWay(s) /\ Way(s) /\ pc[s] = "done"
      /\ metadata[s] \notin {NoVerdict, Clean, Failed}
  BY DEF Outcomes, Refused, IInv
<1>2. cfg.attached /\ ~preflight[s] /\ Q(s).kind # "unrouted"
  BY <1>1 DEF OutcomeWay, BlockGuarded
<1>3. ~ran[s]
  BY <1>1 DEF Way, LetThrough, Guarded
<1>4. Caught(s) /\ Handed(s) = ErrorResponse(s, err[s]) /\ resp[s] = Delivered(s, Handed(s))
  BY <1>1, <1>2, <1>3 DEF OutcomeWay, Settled, Handed
<1>5. enforced[s] = metadata[s] /\ err[s] = Status(metadata[s])
  BY <1>1, <1>2, <1>4 DEF Caught
<1>6. Handed(s) = CatcherResponse(Status(metadata[s]), metadata[s], metadata[s], body[s])
  BY <1>2, <1>4, <1>5 DEF ErrorResponse
<1>7. Handed(s).status # 404
  BY <1>6 DEF CatcherResponse
<1> QED BY <1>2, <1>4, <1>6, <1>7 DEF Delivered, Rewritten

\* Every stage that answered has left its body.
Bodied == \A r \in Requests : Embodied(r)

LEMMA InitBodied == Init => Bodied
BY DEF Init, Bodied, Embodied, NoVerdict

LEMMA NextBodied == IInv /\ Bodied /\ [Next]_vars => Bodied'
BY NextKeepsEmbodied DEF Bodied

LEMMA BodiedShield == IInv /\ Outcomes /\ Bodied => ShieldIsFaithful
<1> SUFFICES ASSUME IInv, Outcomes, Bodied, NEW r \in Requests, NEW s \in Requests,
                    Refused(r), Q(r).kind = "unrouted",
                    Refused(s), BlockGuarded(Q(s)),
                    metadata[r] = metadata[s], body[r] = body[s],
                    FacedAlike(metadata[r], body[r]),
                    Status(metadata[r]) \notin cfg.claimed
             PROVE  Face(resp[r]) = Face(resp[s])
  BY DEF ShieldIsFaithful
<1> DEFINE v == metadata[r]
           plain == VerdictResponse(v, body[r])
           caught == CatcherResponse(Status(v), v, v, body[r])
<1>1. v \in Slot /\ Embodied(r)
  BY DEF IInv, TypeOK, Bodied
<1>2. /\ Face(plain) = Face(caught)
      /\ Status(v) \in CatcherCodes \ {404}
      /\ v.kind # "HttpsRedirect"
  BY <1>1, FacesAgree DEF Embodied
<1>3. ~Redirects(r) /\ ~Redirects(s)
  BY <1>2 DEF Redirects
<1>4. resp[r] = IF cfg.processor THEN Modified(plain) ELSE plain
  BY <1>3, UnroutedFace
<1>5. resp[s] = IF cfg.processor THEN Modified(caught) ELSE caught
  BY <1>2, <1>3, GuardedFace
<1>6. Face(Modified(plain)) = Face(Modified(caught))
  BY <1>2 DEF Face, Modified, VerdictResponse, CatcherResponse
<1> QED BY <1>2, <1>4, <1>5, <1>6

\* A refusal tells nothing of whether its path is routed: on an unrouted path
\* it has the status, the body and the Retry-After it has behind a guard.
THEOREM ShieldKept == Spec => []ShieldIsFaithful
<1>1. Spec => []Bodied
  BY InitBodied, NextBodied, AlwaysIInv, PTL DEF Spec
<1> QED BY <1>1, BodiedShield, AlwaysOutcome, PTL DEF OutcomeInv

----------------------------------------------------------------------------
(* Bodies and verdicts.                                                    *)

\* The recorded body is one of the refusal's; none is recorded before evaluate
\* has come to its verdict.
BodyWay(r) ==
    /\ pc[r] \in Evaluating \cup {"idle"} => body[r] = "none"
    /\ body[r] \in BodiesOf(RefusalVerdict(metadata[r], enforced[r]))

\* Every answer of evaluate comes with a body of its own.
LEMMA AnswersEmbodied ==
    ASSUME NEW r \in Requests, NEW q, NEW c, NEW ip, NEW g
    PROVE  /\ CheckBody(c) \in BodiesOf(CheckVerdict(q, c))
           /\ OverrideFor(BanAnswer(ip)) \in BodiesOf(BanAnswer(ip))
           /\ OverrideFor(FeedAnswer(ip, g)) \in BodiesOf(FeedAnswer(ip, g))
           /\ OverrideFor(StageAnswer(r)) \in BodiesOf(StageAnswer(r))
           /\ "none" \in BodiesOf(NoVerdict) \cap BodiesOf(Clean) \cap BodiesOf(Failed)
<1>1. /\ \A kind : Plain(kind).kind = kind
      /\ RateLimited(Window).kind = "RateLimited"
      /\ NoVerdict.kind = "none" /\ Clean.kind = "Clean" /\ Failed.kind = "Failed"
  BY DEF Plain, RateLimited, NoVerdict, Clean, Failed
<1>2. "none" \in BodiesOf(NoVerdict) \cap BodiesOf(Clean) \cap BodiesOf(Failed)
  BY <1>1 DEF BodiesOf
<1>3. \A v : v.kind \in {"Threat", "Banned", "ActivityBanned", "RateLimited",
                         "RedisUnavailable"} => OverrideFor(v) \in BodiesOf(v)
  BY DEF BodiesOf
<1>4. OverrideFor(NoVerdict) = "none"
  BY DEF OverrideFor
<1>5. /\ OverrideFor(BanAnswer(ip)) \in BodiesOf(BanAnswer(ip))
      /\ \A i, h : OverrideFor(FeedAnswer(i, h)) \in BodiesOf(FeedAnswer(i, h))
  BY <1>1, <1>2, <1>3, <1>4 DEF BanAnswer, FeedAnswer
<1>6. OverrideFor(StageAnswer(r)) \in BodiesOf(StageAnswer(r))
  BY <1>1, <1>2, <1>3, <1>4, <1>5 DEF StageAnswer, TierAnswer
<1>7. CheckBody(c) \in BodiesOf(CheckVerdict(q, c))
  <2>1. \A code : StageBlock(code).kind \in {"HeadersBlocked", "AuthRequired", "StageForbidden",
                                             "EmergencyBlocked", "CustomBlock"}
    BY <1>1 DEF StageBlock, CustomBlock
  <2>2. \A code : "stage" \in BodiesOf(StageBlock(code))
    BY <2>1 DEF BodiesOf
  <2>3. CASE c \in {"none", "ip_invalid", "cloud_invalid", "agent_invalid", "scan_panic"}
    BY <1>2, <2>3 DEF CheckBody, CheckVerdict
  <2>4. CASE c \in {"https_stage", "https_route"}
    BY <1>1, <2>4 DEF CheckBody, CheckVerdict, BodiesOf
  <2>5. CASE c = "ip_global"
    <3>1. CheckVerdict(q, c) = Plain("IpBlocked") /\ Status(Plain("IpBlocked")) = 403
      BY <1>1, <2>5 DEF CheckVerdict, Status
    <3>2. CheckBody(c) = OverrideFor(Plain("IpBlocked"))
      BY <1>1, <2>5, <3>1 DEF CheckBody, OverrideFor
    <3> QED BY <1>1, <3>1, <3>2 DEF BodiesOf
  <2>6. CASE c \notin {"none", "ip_invalid", "cloud_invalid", "agent_invalid", "scan_panic",
                       "https_stage", "https_route", "ip_global"}
    <3>1. CheckBody(c) = "stage"
      BY <2>6 DEF CheckBody
    <3>2. \E code : CheckVerdict(q, c) = StageBlock(code)
      BY <2>6 DEF CheckVerdict
    <3> QED BY <2>2, <3>1, <3>2
  <2> QED BY <2>3, <2>4, <2>5, <2>6
<1> QED BY <1>2, <1>5, <1>6, <1>7

\* The bodies of a verdict are the configuration's.
LEMMA BodiesStable ==
    ASSUME cfg' = cfg
    PROVE  \A v : BodiesOf(v)' = BodiesOf(v)
BY DEF BodiesOf, OverrideFor

\* The end of evaluate, too, answers with a body of its own.
LEMMA FinalEmbodied ==
    ASSUME NEW r \in Requests
    PROVE  FinalBody(r) \in BodiesOf(FinalVerdict(r))
<1>1. Plain("Threat").kind = "Threat"
  BY DEF Plain
<1>2. OrElse(OverrideFor(Plain("Threat")), "BLOCKED") \in BodiesOf(Plain("Threat"))
  BY <1>1 DEF BodiesOf, OrElse
<1>3. CheckBody("custom_request") = "stage"
  BY DEF CheckBody
<1>4. "stage" \in BodiesOf(CheckVerdict(Q(r), "custom_request"))
  BY <1>3, AnswersEmbodied
<1> QED BY <1>2, <1>4, AnswersEmbodied DEF FinalBody, FinalVerdict

\* A step of evaluate leaves a body with the verdict it leaves.
LEMMA EvaluationEmbodies ==
    ASSUME IInv, NEW r \in Requests, OutcomeWay(r), BodyWay(r),
           pc[r] \in Evaluating, cfg' = cfg, enforced' = enforced,
           NEW v, NEW b, b \in BodiesOf(v),
           body' = Recorded(r, b),
           \/ pc'[r] = "routing" /\ metadata' = FirstWins(metadata, r, v)
           \/ pc'[r] \in Evaluating /\ metadata' = metadata /\ b = "none"
    PROVE  BodyWay(r)'
<1>1. TypeOK /\ metadata[r] = NoVerdict /\ enforced[r] = NoVerdict /\ body[r] = "none"
  BY DEF IInv, Way, OutcomeWay, BodyWay, Evaluating
<1>2. body'[r] = b
  BY <1>1 DEF Recorded, TypeOK
<1>3. CASE pc'[r] = "routing" /\ metadata' = FirstWins(metadata, r, v)
  <2>1. metadata'[r] = v
    BY <1>1, <1>3 DEF FirstWins, TypeOK
  <2>2. RefusalVerdict(v, NoVerdict) = IF v \in {NoVerdict, Clean} THEN NoVerdict ELSE v
    BY VerdictTypes DEF RefusalVerdict
  <2>3. BodiesOf(Clean) = {"none"} /\ "none" \in BodiesOf(NoVerdict)
    BY AnswersEmbodied DEF BodiesOf, Clean, Plain
  <2>4. b \in BodiesOf(RefusalVerdict(v, NoVerdict))
    BY <2>2, <2>3
  <2> QED BY <1>1, <1>2, <1>3, <2>1, <2>4, BodiesStable DEF BodyWay, Evaluating
<1>4. CASE pc'[r] \in Evaluating /\ metadata' = metadata /\ b = "none"
  BY <1>1, <1>2, <1>4, BodiesStable DEF BodyWay
<1> QED BY <1>3, <1>4

LEMMA ChecksKeepBody ==
    ASSUME IInv, NEW r \in Requests, OutcomeWay(r), BodyWay(r),
           EvaluateGates(r) \/ BanArm(r) \/ LateRefusal(r) \/ StagePass(r)
    PROVE  BodyWay(r)'
<1> USE DEF environment, history
<1>1. TypeOK /\ pc[r] \in Evaluating /\ cfg' = cfg /\ enforced' = enforced
  BY DEF IInv, Evaluating, EvaluateGates, BanArm, LateRefusal, StagePass
<1>2. CASE EvaluateGates(r)
  <2> DEFINE c == RefusingGate(r)
  <2>1. body' = Recorded(r, CheckBody(c))
    BY <1>2 DEF EvaluateGates
  <2>2. \/ pc'[r] = "routing" /\ metadata' = FirstWins(metadata, r, CheckVerdict(Q(r), c))
        \/ pc'[r] = "bans" /\ metadata' = metadata /\ CheckBody(c) = "none"
    BY <1>1, <1>2 DEF EvaluateGates, Return, Goto, TypeOK, CheckBody
  <2> QED BY <1>1, <2>1, <2>2, AnswersEmbodied, EvaluationEmbodies DEF Evaluating
<1>3. CASE BanArm(r)
  <2> DEFINE answer == IF AsksForBan(r) THEN BanAnswer(Q(r).ip) ELSE NoVerdict
  <2>1. body' = Recorded(r, OverrideFor(answer))
    BY <1>3 DEF BanArm
  <2>2. \/ pc'[r] = "routing" /\ metadata' = FirstWins(metadata, r, answer)
        \/ pc'[r] = "tiers" /\ metadata' = metadata /\ OverrideFor(answer) = "none"
    BY <1>1, <1>3 DEF BanArm, Return, Goto, TypeOK, OverrideFor
  <2>3. OverrideFor(answer) \in BodiesOf(answer)
    BY AnswersEmbodied DEF OverrideFor
  <2> QED BY <1>1, <2>1, <2>2, <2>3, EvaluationEmbodies DEF Evaluating
<1>4. CASE LateRefusal(r)
  <2> DEFINE late == FirstRefusal(Q(r), gate[r], LateOrder)
  <2>1. /\ body' = Recorded(r, CheckBody(late))
        /\ pc'[r] = "routing"
        /\ metadata' = FirstWins(metadata, r, CheckVerdict(Q(r), late))
    BY <1>1, <1>4 DEF LateRefusal, Return, Goto, TypeOK
  <2> QED BY <1>1, <2>1, AnswersEmbodied, EvaluationEmbodies
<1>5. CASE StagePass(r)
  <2>1. /\ body' = Recorded(r, FinalBody(r))
        /\ pc'[r] = "routing"
        /\ metadata' = FirstWins(metadata, r, FinalVerdict(r))
    BY <1>1, <1>5 DEF StagePass, Return, Goto, TypeOK
  <2> QED BY <1>1, <2>1, FinalEmbodied, EvaluationEmbodies
<1> QED BY <1>2, <1>3, <1>4, <1>5

\* The guards add a verdict only where evaluate left none, and the body phase
\* its body only with that verdict.
LEMMA GuardsKeepBody ==
    ASSUME IInv, NEW r \in Requests, OutcomeWay(r), BodyWay(r),
           CheckBlockGuard(r) \/ ReadBody(r) \/ ScreenBody(r)
    PROVE  BodyWay(r)'
<1> USE DEF environment, history
<1>1. /\ TypeOK /\ cfg' = cfg /\ metadata' = metadata /\ enforced[r] = NoVerdict
      /\ pc[r] \in {"block_guard", "read", "screen"}
      /\ pc'[r] \notin Evaluating \cup {"idle"}
  BY DEF IInv, TypeOK, OutcomeWay, Evaluating, CheckBlockGuard, ReadBody, ScreenBody, GuardError,
     Goto
<1>2. body[r] \in BodiesOf(RefusalVerdict(metadata[r], NoVerdict))
  BY <1>1 DEF BodyWay
<1>3. SUFFICES body'[r] \in BodiesOf(RefusalVerdict(metadata[r], enforced'[r]))
  BY <1>1, BodiesStable DEF BodyWay
<1>4. CASE metadata[r] \notin {NoVerdict, Clean}
  <2>1. \A e : RefusalVerdict(metadata[r], e) = metadata[r]
    BY <1>4 DEF RefusalVerdict
  <2>2. body'[r] = body[r]
    BY <1>1, <1>4 DEF CheckBlockGuard, ReadBody, ScreenBody, Enforces, StashedVerdict, Recorded,
       TypeOK
  <2> QED BY <1>2, <2>1, <2>2
<1>5. CASE metadata[r] \in {NoVerdict, Clean}
  <2>1. \A e : e # Clean => RefusalVerdict(metadata[r], e) = e
    BY <1>5 DEF RefusalVerdict
  <2>2. body[r] = "none"
    BY <1>2, <2>1, VerdictTypes DEF BodiesOf, NoVerdict
  <2>3. CASE CheckBlockGuard(r) \/ ReadBody(r)
    <3>1. enforced'[r] \in {NoVerdict, Failed} /\ body' = body
      BY <1>1, <1>5, <2>3 DEF CheckBlockGuard, ReadBody, FirstWins, TypeOK
    <3> QED BY <2>1, <2>2, <3>1, VerdictTypes, AnswersEmbodied
  <2>4. CASE ScreenBody(r)
    <3>1. /\ body'[r] = IF Enforces(r) THEN FindingBody(r) ELSE "none"
          /\ enforced'[r] = IF ScreenVerdict(r) = Clean THEN NoVerdict ELSE ScreenVerdict(r)
      BY <1>1, <2>2, <2>4 DEF ScreenBody, Recorded, FirstWins, TypeOK
    <3>2. StashedVerdict(r) = Clean
      BY <1>5 DEF StashedVerdict
    <3>3. CASE ~Enforces(r)
      <4>1. ScreenVerdict(r) \in {Clean, Failed}
        BY <3>2, <3>3 DEF ScreenVerdict, Enforces
      <4> QED BY <2>1, <3>1, <3>3, <4>1, VerdictTypes, AnswersEmbodied
    <3>4. CASE Enforces(r)
      <4> DEFINE fed == FeedAnswer(Q(r).ip, gate[r])
      <4>1. ScreenVerdict(r) = FindingVerdict(r) /\ body'[r] = OverrideFor(fed)
        BY <3>1, <3>2, <3>4 DEF ScreenVerdict, Enforces, FindingBody
      <4>2. CASE fed # NoVerdict
        <5>1. ScreenVerdict(r) = fed /\ fed # Clean
          BY <4>1, <4>2, <1>1, RefusalsAreNotClean, QType DEF FindingVerdict
        <5> QED BY <2>1, <3>1, <4>1, <5>1, AnswersEmbodied
      <4>3. CASE fed = NoVerdict
        <5>1. body'[r] = "none"
          BY <4>1, <4>3 DEF OverrideFor
        <5>2. enforced'[r] \in {NoVerdict, Plain("Threat")} /\ Plain("Threat") # Clean
          BY <3>1, <4>1, <4>3 DEF FindingVerdict, Plain, Clean
        <5>3. "none" \in BodiesOf(Plain("Threat"))
          BY DEF BodiesOf, Plain
        <5> QED BY <2>1, <5>1, <5>2, <5>3, VerdictTypes, AnswersEmbodied
      <4> QED BY <4>2, <4>3
    <3> QED BY <3>3, <3>4
  <2> QED BY <2>3, <2>4
<1> QED BY <1>4, <1>5

LEMMA NextKeepsBody ==
    ASSUME IInv, [Next]_vars, NEW r \in Requests, OutcomeWay(r), BodyWay(r)
    PROVE  BodyWay(r)'
<1> USE DEF environment, history
<1>1. TypeOK
  BY DEF IInv
<1>2. CASE ExcludedPath(r) \/ Preflight(r) \/ ResolveCarrier(r)
  <2>1. /\ cfg' = cfg /\ enforced' = enforced /\ body' = body /\ pc[r] = "preamble"
        /\ metadata[r] = NoVerdict /\ enforced[r] = NoVerdict /\ body[r] = "none"
    BY <1>2, VerdictTypes DEF IInv, Way, OutcomeWay, BodyWay, Evaluating, ExcludedPath, Preflight,
       ResolveCarrier
  <2>2. metadata'[r] \in {NoVerdict, Clean, Failed, Plain("ActivityBanned")}
    BY <1>1, <1>2, <2>1 DEF ExcludedPath, Preflight, ResolveCarrier, Return, FirstWins, TypeOK
  <2>3. \A v \in {NoVerdict, Clean, Failed, Plain("ActivityBanned")} :
           "none" \in BodiesOf(RefusalVerdict(v, NoVerdict))
    <3>1. "none" \in BodiesOf(Plain("ActivityBanned"))
      BY DEF BodiesOf, Plain
    <3> QED BY <3>1, VerdictTypes, AnswersEmbodied DEF RefusalVerdict
  <2> QED BY <2>1, <2>2, <2>3, BodiesStable DEF BodyWay
<1>3. CASE Route(r) \/ RunHandler(r) \/ Catch(r) \/ OnResponse(r)
  <2>1. /\ cfg' = cfg /\ enforced' = enforced /\ body' = body /\ metadata' = metadata
        /\ pc'[r] \notin Evaluating \cup {"idle"}
    BY <1>1, <1>3 DEF Route, RunHandler, Catch, OnResponse, Finish, Goto, Evaluating, TypeOK
  <2> QED BY <2>1, BodiesStable DEF BodyWay
<1>4. CASE Aside(r)
  BY <1>4, BodiesStable DEF Aside, Same, BodyWay
<1>5. CASE Arrive(r)
  <2>1. cfg' = cfg /\ enforced' = enforced /\ body' = body /\ metadata' = metadata /\ pc[r] = "idle"
    BY <1>5 DEF Arrive
  <2> QED BY <2>1, BodiesStable DEF BodyWay
<1> QED BY <1>1, <1>2, <1>3, <1>4, <1>5, ChecksKeepBody, GuardsKeepBody, StepOrAside DEF Progress

Bodies == \A r \in Requests : BodyWay(r)

LEMMA InitBodies == Init => Bodies
<1>1. RefusalVerdict(NoVerdict, NoVerdict) = NoVerdict /\ "none" \in BodiesOf(NoVerdict)
  BY VerdictTypes DEF RefusalVerdict, BodiesOf, NoVerdict
<1> QED BY <1>1 DEF Init, Bodies, BodyWay

LEMMA NextBodies == IInv /\ OutcomeInv /\ Bodies /\ [Next]_vars => Bodies'
BY NextKeepsBody DEF OutcomeInv, Outcomes, Bodies

\* The body a refusal is answered with is its own, whichever phase refused: the
\* phase that let the request through has left none, and the one that came too
\* late has replaced none.
THEOREM BodiesRide == Spec => []BodyRidesItsRefusal
<1>1. Bodies => BodyRidesItsRefusal
  BY DEF Bodies, BodyWay, BodyRidesItsRefusal
<1>2. Spec => []Bodies
  BY InitBodies, NextBodies, AlwaysOutcome, PTL DEF Spec
<1> QED BY <1>1, <1>2, PTL

============================================================================
