-------------------------- MODULE AccountingProofs --------------------------
(***************************************************************************)
(* The counters account for the requests: the usage rules' observations,   *)
(* the violations of an address and the hits of its windows, for any       *)
(* number of requests, addresses and configurations.                       *)
(*                                                                         *)
(* A counter is compared with the cardinality of a set of requests.  Each  *)
(* step moves at most one request into the set and the counter by one, so  *)
(* the induction carries the finiteness of the set along; the constants    *)
(* need not be finite.                                                     *)
(***************************************************************************)
EXTENDS RefusalProofs, FiniteSetTheorems

----------------------------------------------------------------------------
(* One element more.                                                       *)

\* A counter that counted A counts B, when x alone may have joined and the
\* counter moved exactly if it did.
LEMMA Tally ==
    ASSUME NEW A, NEW B, NEW x, NEW m, NEW n,
           IsFiniteSet(A), m = Cardinality(A),
           A \ {x} = B \ {x},
           \/ n = m /\ (x \in A <=> x \in B)
           \/ n = m + 1 /\ x \notin A /\ x \in B
    PROVE  IsFiniteSet(B) /\ n = Cardinality(B)
<1>1. CASE n = m /\ (x \in A <=> x \in B)
  <2>1. A = B
    BY <1>1
  <2> QED BY <1>1, <2>1
<1>2. CASE n = m + 1 /\ x \notin A /\ x \in B
  <2>1. B = A \cup {x}
    BY <1>2
  <2> QED BY <1>2, <2>1, FS_AddElement
<1> QED BY <1>1, <1>2

\* The entries of a log of times that a window of some width up to t counts.
LogWindow(log, t, width) == {i \in DOMAIN log : t < log[i] + width}

\* An appended entry is counted in the windows that reach back to it, and only
\* there.
LEMMA LogAppended ==
    ASSUME NEW log \in Seq(Times), NEW at \in Times, NEW t, NEW width
    PROVE  /\ IsFiniteSet(LogWindow(log, t, width))
           /\ t < at + width =>
                 Cardinality(LogWindow(Append(log, at), t, width))
                     = Cardinality(LogWindow(log, t, width)) + 1
           /\ ~(t < at + width) =>
                 LogWindow(Append(log, at), t, width) = LogWindow(log, t, width)
<1> DEFINE last == Len(log) + 1
<1>1. /\ DOMAIN log = 1..Len(log) /\ Len(log) \in Nat
      /\ DOMAIN Append(log, at) = DOMAIN log \cup {last}
      /\ Append(log, at)[last] = at
      /\ \A k \in DOMAIN log : Append(log, at)[k] = log[k]
  OBVIOUS
<1>2. IsFiniteSet(LogWindow(log, t, width))
  <2>1. IsFiniteSet(DOMAIN log) /\ LogWindow(log, t, width) \in SUBSET DOMAIN log
    BY <1>1, FS_Interval DEF LogWindow
  <2> QED BY <2>1, FS_Subset
<1>3. ASSUME t < at + width
      PROVE  Cardinality(LogWindow(Append(log, at), t, width))
                 = Cardinality(LogWindow(log, t, width)) + 1
  <2>1. LogWindow(Append(log, at), t, width) = LogWindow(log, t, width) \cup {last}
    BY <1>1, <1>3 DEF LogWindow
  <2>2. last \notin LogWindow(log, t, width)
    BY <1>1 DEF LogWindow
  <2> QED BY <1>2, <2>1, <2>2, FS_AddElement
<1>4. ASSUME ~(t < at + width)
      PROVE  LogWindow(Append(log, at), t, width) = LogWindow(log, t, width)
  BY <1>1, <1>4 DEF LogWindow
<1> QED BY <1>2, <1>3, <1>4

----------------------------------------------------------------------------
(* The usage rules' observations.                                          *)

\* The log of a client at an endpoint holds an entry for each of its requests
\* the rules were shown, whatever the window.
LogHolds(e, c, t) ==
    /\ IsFiniteSet(ShownTo(e, c, t))
    /\ Cardinality(InWindow(usage[<<e, c>>], t)) = Cardinality(ShownTo(e, c, t))

UsageInv == \A e \in Endpoints, c \in Clients, t \in Times : LogHolds(e, c, t)

\* A request is shown on the way past the preamble, and stays shown.
LEMMA ShownStable ==
    ASSUME NEW r \in Requests, cfg' = cfg, req'[r] = req[r], shown'[r] = shown[r],
           pc'[r] \in {"idle", "preamble"} <=> pc[r] \in {"idle", "preamble"}
    PROVE  \A e, c, t : (r \in ShownTo(e, c, t))' <=> r \in ShownTo(e, c, t)
<1>1. Q(r)' = Q(r)
  BY DEF Q
<1>2. Screened(r)' <=> Screened(r)
  BY <1>1 DEF Screened, AnswersPreflight
<1>3. Observed(r)' <=> Observed(r)
  BY <1>1, <1>2 DEF Observed
<1> QED BY <1>1, <1>3 DEF ShownTo

\* The preamble shows the rules the request, if they are to be shown it at all,
\* and logs it for its own endpoint and address and no other.
LEMMA ResolveShows ==
    ASSUME IInv, NEW r \in Requests, ResolveCarrier(r)
    PROVE  /\ ~Observed(r)
           /\ Q(r)' = Q(r)
           /\ Observed(r)' <=> Observes(r) /\ ~Q(r).badRates
           /\ Observed(r)' => shown'[r] = now
           /\ \A key \in Endpoints \X Clients :
                 usage'[key] = IF Observed(r)' /\ key = UsageKey(r)
                               THEN Append(usage[key], now) ELSE usage[key]
<1>1. /\ TypeOK /\ pc[r] = "preamble" /\ cfg.attached /\ cfg' = cfg /\ Q(r)' = Q(r)
      /\ Screened(r)
  BY DEF IInv, Way, ResolveCarrier, Evaluating, environment, Q, Screened
<1>2. pc'[r] \notin {"idle", "preamble"}
  BY <1>1 DEF ResolveCarrier, Return, Goto, TypeOK
<1>3. Screened(r)'
  BY <1>1 DEF Screened, AnswersPreflight
<1>4. ~Observed(r)
  BY <1>1 DEF Observed
<1>5. Observed(r)' <=> Observes(r) /\ ~Q(r).badRates
  BY <1>1, <1>2, <1>3 DEF Observed, Observes
<1>6. Observes(r) /\ ~Q(r).badRates => shown'[r] = now
  BY <1>1 DEF ResolveCarrier, TypeOK
<1>7. ASSUME NEW key \in Endpoints \X Clients
      PROVE  usage'[key] = IF Observes(r) /\ ~Q(r).badRates /\ key = UsageKey(r)
                           THEN Append(usage[key], now) ELSE usage[key]
  <2>1. usage \in [Endpoints \X Clients -> Seq(Times)]
    BY <1>1 DEF TypeOK
  <2>2. CASE Observes(r) /\ ~Q(r).badRates
    <3>1. usage' = [usage EXCEPT ![UsageKey(r)] = Append(@, now)]
      BY <2>2 DEF ResolveCarrier
    <3> HIDE DEF Observes
    <3> QED BY <2>1, <2>2, <3>1
  <2>3. CASE ~(Observes(r) /\ ~Q(r).badRates)
    <3>1. usage' = usage
      BY <2>3 DEF ResolveCarrier
    <3> QED BY <2>3, <3>1
  <2> QED BY <2>2, <2>3
<1> QED BY <1>1, <1>4, <1>5, <1>6, <1>7

\* What a log counts and the requests it counts move together.
ShownTogether(r, e, c, t) ==
    LET m == Cardinality(InWindow(usage[<<e, c>>], t))
        n == Cardinality(InWindow(usage'[<<e, c>>], t))
    IN  \/ n = m /\ ((r \in ShownTo(e, c, t))' <=> r \in ShownTo(e, c, t))
        \/ n = m + 1 /\ r \notin ShownTo(e, c, t) /\ (r \in ShownTo(e, c, t))'

LEMMA ResolveCounts ==
    ASSUME IInv, NEW r \in Requests, ResolveCarrier(r),
           NEW e \in Endpoints, NEW c \in Clients, NEW t \in Times
    PROVE  ShownTogether(r, e, c, t)
<1> DEFINE log == usage[<<e, c>>]
           mine == Observed(r)' /\ <<e, c>> = UsageKey(r)
<1>1. log \in Seq(Times) /\ now \in Times /\ <<e, c>> \in Endpoints \X Clients
  BY DEF IInv, TypeOK, StageTypeOK
<1>2. \A l, u : InWindow(l, u) = LogWindow(l, u, UsageWindow)
  BY DEF InWindow, LogWindow
<1>3. r \notin ShownTo(e, c, t)
  BY ResolveShows DEF ShownTo
<1>4. (r \in ShownTo(e, c, t))' <=> mine /\ t < now + UsageWindow
  BY ResolveShows DEF ShownTo, UsageKey
<1>5. usage'[<<e, c>>] = IF mine THEN Append(log, now) ELSE log
  BY <1>1, ResolveShows
<1> HIDE DEF log, mine
<1>6. CASE mine /\ t < now + UsageWindow
  BY <1>1, <1>2, <1>3, <1>4, <1>5, <1>6, LogAppended DEF ShownTogether, log
<1>7. CASE mine /\ ~(t < now + UsageWindow)
  BY <1>1, <1>2, <1>3, <1>4, <1>5, <1>7, LogAppended DEF ShownTogether, log
<1>8. CASE ~mine
  BY <1>3, <1>4, <1>5, <1>8 DEF ShownTogether, log
<1> QED BY <1>6, <1>7, <1>8

\* No other step of the request changes what the rules have been shown of it.
LEMMA OthersShow ==
    ASSUME IInv, NEW r \in Requests, Arrive(r) \/ Progress(r), ~ResolveCarrier(r)
    PROVE  /\ usage' = usage
           /\ \A e, c, t : (r \in ShownTo(e, c, t))' <=> r \in ShownTo(e, c, t)
<1> USE DEF environment, stores, history
<1>1. TypeOK
  BY DEF IInv
<1>2. CASE Arrive(r)
  <2>1. pc[r] = "idle" /\ cfg' = cfg /\ usage' = usage /\ (pc'[r] = "preamble" \/ ~cfg.attached)
    BY <1>1, <1>2 DEF Arrive, Goto, TypeOK
  <2> QED BY <2>1 DEF Observed, ShownTo
<1>3. CASE ExcludedPath(r) \/ Preflight(r)
  <2>1. cfg' = cfg /\ Q(r)' = Q(r) /\ usage' = usage /\ ~Screened(r)
    BY <1>3 DEF ExcludedPath, Preflight, Q, Screened
  <2>2. ~Screened(r)'
    BY <2>1 DEF Screened, AnswersPreflight
  <2> QED BY <2>1, <2>2 DEF Observed, ShownTo
<1>4. CASE EvaluateGates(r) \/ BanArm(r) \/ LateRefusal(r) \/ StagePass(r)
  <2>1. /\ cfg' = cfg /\ req' = req /\ usage' = usage /\ shown' = shown
        /\ pc[r] \in {"gates", "bans", "tiers"} /\ pc'[r] \in {"bans", "tiers", "routing"}
    BY <1>1, <1>4 DEF EvaluateGates, BanArm, LateRefusal, StagePass, Return, Goto, TypeOK
  <2> QED BY <2>1, ShownStable
<1>5. CASE Route(r) \/ CheckBlockGuard(r) \/ ReadBody(r) \/ RunHandler(r) \/ Catch(r)
  <2>1. /\ cfg' = cfg /\ req' = req /\ usage' = usage /\ shown' = shown
        /\ pc[r] \notin {"idle", "preamble"}
    BY <1>5 DEF Route, CheckBlockGuard, ReadBody, RunHandler, Catch
  <2>2. pc'[r] \notin {"idle", "preamble"}
    BY <1>1, <1>5 DEF Route, CheckBlockGuard, ReadBody, RunHandler, Catch, GuardError, Goto, TypeOK
  <2> QED BY <2>1, <2>2, ShownStable
<1>6. CASE ScreenBody(r) \/ OnResponse(r)
  <2>1. /\ cfg' = cfg /\ req' = req /\ usage' = usage /\ shown' = shown
        /\ pc[r] \notin {"idle", "preamble"}
    BY <1>6 DEF ScreenBody, OnResponse
  <2>2. pc'[r] \notin {"idle", "preamble"}
    BY <1>1, <1>6 DEF ScreenBody, OnResponse, Finish, GuardError, Goto, TypeOK
  <2> QED BY <2>1, <2>2, ShownStable
<1> QED BY <1>2, <1>3, <1>4, <1>5, <1>6 DEF Progress

LEMMA AsideShown ==
    ASSUME NEW s \in Requests, Aside(s)
    PROVE  \A e, c, t : (s \in ShownTo(e, c, t))' <=> s \in ShownTo(e, c, t)
BY ShownStable DEF Aside, Same

\* A step that is no request's leaves the logs accounted for.
LEMMA UsageStays ==
    ASSUME UsageInv, usage' = usage, \A s \in Requests : Aside(s)
    PROVE  UsageInv'
<1>1. ASSUME NEW e, NEW c, NEW t PROVE ShownTo(e, c, t)' = ShownTo(e, c, t)
  BY AsideShown DEF ShownTo
<1> QED BY <1>1 DEF UsageInv, LogHolds

LEMMA NextUsage ==
    ASSUME IInv, UsageInv, [Next]_vars
    PROVE  UsageInv'
<1>1. TypeOK
  BY DEF IInv
<1>2. CASE EnvironmentStep
  <2>1. usage' = usage
    BY <1>2 DEF EnvironmentStep, Tick, StoreFlips, Reset, OperatorBan, OperatorUnban, vars, stores
  <2> QED BY <1>1, <1>2, <2>1, EnvironmentAside, UsageStays
<1>3. ASSUME NEW r \in Requests, Arrive(r) \/ Progress(r) PROVE UsageInv'
  <2> SUFFICES ASSUME NEW e \in Endpoints, NEW c \in Clients, NEW t \in Times
               PROVE  LogHolds(e, c, t)'
    BY DEF UsageInv
  <2> DEFINE A == ShownTo(e, c, t)
             m == Cardinality(InWindow(usage[<<e, c>>], t))
             n == Cardinality(InWindow(usage'[<<e, c>>], t))
  <2>1. \A s \in Requests \ {r} : s \in A' <=> s \in A
    BY <1>1, <1>3, OthersAside, AsideShown
  <2>2. A \ {r} = A' \ {r}
    BY <2>1 DEF ShownTo
  <2>3. \/ n = m /\ (r \in A <=> r \in A')
        \/ n = m + 1 /\ r \notin A /\ r \in A'
    <3>1. CASE ResolveCarrier(r)
      BY <3>1, ResolveCounts DEF ShownTogether
    <3>2. CASE ~ResolveCarrier(r)
      BY <1>3, <3>2, OthersShow
    <3> QED BY <3>1, <3>2
  <2>4. IsFiniteSet(A) /\ m = Cardinality(A)
    BY DEF UsageInv, LogHolds
  <2> HIDE DEF A, m, n
  <2>5. IsFiniteSet(A') /\ n = Cardinality(A')
    BY <2>2, <2>3, <2>4, Tally
  <2> QED BY <2>5 DEF LogHolds, A, n, InWindow
<1> QED BY <1>2, <1>3, StepCases

LEMMA InitUsage == Init => UsageInv
<1> SUFFICES ASSUME Init, NEW e \in Endpoints, NEW c \in Clients, NEW t \in Times
             PROVE  LogHolds(e, c, t)
  BY DEF UsageInv
<1>1. ShownTo(e, c, t) = {}
  BY DEF Init, Observed, ShownTo
<1>2. usage[<<e, c>>] = <<>> /\ InWindow(<<>>, t) = {}
  BY DEF Init, InWindow
<1> QED BY <1>1, <1>2, FS_EmptySet DEF LogHolds

LEMMA AlwaysUsage == Spec => []UsageInv
BY InitUsage, NextUsage, AlwaysIInv, PTL DEF Spec

\* The usage rules see every screened request once, and count it for its own
\* endpoint and address in every window that reaches back to it; connections
\* without an address share a bucket.
THEOREM UsageIsAccounted == Spec => []UsageAccounted
<1>1. UsageInv => UsageAccounted
  BY DEF UsageInv, LogHolds, UsageAccounted
<1> QED BY <1>1, AlwaysUsage, PTL

\* The request that leaves the preamble is barred for what its log then counts.
LEMMA BarEarned ==
    ASSUME IInv, Outcomes, UsageInv', [Next]_vars, NEW r \in Requests,
           pc[r] = "preamble", pc'[r] # "preamble"
    PROVE  barred'[r] <=> /\ Observed(r)'
                          /\ ~cfg.processorPassive
                          /\ Cardinality(ShownTo(Q(r).endpoint, Q(r).ip, now)') > UsageThreshold
<1> USE DEF environment, history
<1>1. TypeOK /\ ~barred[r] /\ ~Aside(r) /\ ~Arrive(r)
  BY DEF IInv, Outcomes, OutcomeWay, Aside, Arrive
<1>2. ExcludedPath(r) \/ Preflight(r) \/ ResolveCarrier(r)
  BY <1>1, StepOrAside
  DEF Progress, EvaluateGates, BanArm, LateRefusal, StagePass, Route, CheckBlockGuard, ReadBody,
      ScreenBody, RunHandler, Catch, OnResponse
<1>3. CASE ExcludedPath(r) \/ Preflight(r)
  <2>1. cfg' = cfg /\ Q(r)' = Q(r) /\ barred' = barred /\ ~Screened(r)
    BY <1>3 DEF ExcludedPath, Preflight, Q, Screened
  <2>2. ~Observed(r)'
    BY <2>1 DEF Observed, Screened, AnswersPreflight
  <2> QED BY <1>1, <2>1, <2>2
<1>4. CASE ResolveCarrier(r)
  <2> DEFINE e == Q(r).endpoint
             c == Q(r).ip
             before == Cardinality(InWindow(usage[<<e, c>>], now))
             after == Cardinality(InWindow(usage'[<<e, c>>], now))
  <2>1. barred'[r] <=> ~Q(r).badRates /\ UsageBans(r)
    BY <1>1, <1>4 DEF ResolveCarrier, TypeOK
  <2>2. /\ e \in Endpoints /\ c \in Clients /\ <<e, c>> \in Endpoints \X Clients
        /\ now \in Times /\ now \in Nat /\ now' = now
        /\ usage[<<e, c>>] \in Seq(Times)
    <3>1. Q(r) \in Request
      BY <1>1, QType
    <3>2. e \in Endpoints /\ c \in Clients
      BY <3>1 DEF Request, Clients
    <3> QED BY <1>1, <1>4, <3>2 DEF ResolveCarrier, TypeOK, StageTypeOK, Times
  <2>3. Q(r)' = Q(r) /\ (Observed(r)' <=> Observes(r) /\ ~Q(r).badRates)
    BY <1>4, ResolveShows
  <2>4. ASSUME Observed(r)' PROVE after = before + 1
    <3>1. usage'[<<e, c>>] = Append(usage[<<e, c>>], now)
      BY <1>4, <2>2, <2>4, ResolveShows DEF UsageKey
    <3>2. now < now + UsageWindow
      BY <2>2, PipelineAssumption
    <3>3. \A l : InWindow(l, now) = LogWindow(l, now, UsageWindow)
      BY DEF InWindow, LogWindow
    <3> QED BY <2>2, <3>1, <3>2, <3>3, LogAppended
  <2>5. Cardinality(ShownTo(Q(r).endpoint, Q(r).ip, now)') = after
    <3>1. LogHolds(e, c, now)'
      BY <2>2, <2>3 DEF UsageInv
    <3> QED BY <2>2, <2>3, <3>1 DEF LogHolds, InWindow
  <2>6. UsageBans(r) <=> Observes(r) /\ ~cfg.processorPassive /\ before + 1 > UsageThreshold
    BY DEF UsageBans, Observations, UsageKey
  <2> HIDE DEF before, after
  <2> QED BY <2>1, <2>3, <2>4, <2>5, <2>6
<1> QED BY <1>2, <1>3, <1>4

\* A client is barred exactly when its own requests to the endpoint it asks for,
\* within the window, are one more than the rule allows, for any number of
\* clients and endpoints and however their requests interleave.
THEOREM BarsAreEarned == Spec => UsageBarsAreEarned
<1> DEFINE Bars ==
        \A r \in Requests :
            pc[r] = "preamble" /\ pc'[r] # "preamble" =>
                (barred'[r] <=>
                    /\ Observed(r)'
                    /\ ~cfg.processorPassive
                    /\ Cardinality(ShownTo(Q(r).endpoint, Q(r).ip, now)') > UsageThreshold)
<1>1. IInv /\ Outcomes /\ UsageInv /\ [Next]_vars => [Bars]_vars
  BY NextUsage, BarEarned
<1> QED BY <1>1, AlwaysUsage, AlwaysOutcome, PTL DEF Spec, OutcomeInv, UsageBarsAreEarned

----------------------------------------------------------------------------
(* What the gate's decision tells of an address.                           *)

\* The decision stands in the slot from the gate on, and says of a request that
\* the stage or the body scan gets to whether its address is spared.
GateTells(r) ==
    /\ pc[r] \in {"idle", "preamble", "gates"} => gate[r] = "none"
    /\ pc[r] \in {"bans", "tiers"} \/ metadata[r] = Clean =>
          (gate[r] = "whitelisted" <=> Spared(r))

GateInv == \A r \in Requests : GateTells(r)

LEMMA SparedStable ==
    ASSUME NEW r \in Requests, cfg' = cfg, Q(r)' = Q(r)
    PROVE  Spared(r)' <=> Spared(r)
<1>1. Screened(r)' <=> Screened(r)
  BY DEF Screened, AnswersPreflight
<1>2. GlobalGateRuns(Q(r))' <=> GlobalGateRuns(Q(r))
  BY DEF GlobalGateRuns, Bypassed
<1> QED BY <1>1, <1>2 DEF Spared

LEMMA GateKept ==
    ASSUME NEW r \in Requests, GateTells(r), Same(r),
           pc'[r] \in {"idle", "preamble", "gates"} => pc[r] \in {"idle", "preamble", "gates"},
           pc'[r] \in {"bans", "tiers"} \/ metadata'[r] = Clean =>
               pc[r] \in {"bans", "tiers"} \/ metadata[r] = Clean
    PROVE  GateTells(r)'
<1>1. Q(r)' = Q(r) /\ cfg' = cfg
  BY DEF Same, Q
<1> QED BY <1>1, SparedStable DEF GateTells, Same

\* The steps up to the gate: none of them passes the request.
LEMMA EarlyGate ==
    ASSUME IInv, NEW r \in Requests, GateTells(r),
           \/ Arrive(r) \/ ExcludedPath(r) \/ Preflight(r) \/ ResolveCarrier(r)
           \/ EvaluateGates(r)
    PROVE  GateTells(r)'
<1> USE DEF environment, stores, history
<1>1. /\ TypeOK /\ pc[r] \in {"idle", "preamble", "gates"} /\ gate[r] = "none"
      /\ metadata[r] = NoVerdict /\ NoVerdict # Clean
  BY VerdictTypes DEF IInv, Way, Evaluating, GateTells, Arrive, ExcludedPath, Preflight,
     ResolveCarrier, EvaluateGates
<1>2. CASE Arrive(r)
  <2>1. gate' = gate /\ metadata' = metadata /\ pc'[r] \in {"preamble", "routing"}
    BY <1>1, <1>2 DEF Arrive, Goto, TypeOK
  <2> QED BY <1>1, <2>1 DEF GateTells
<1>3. CASE ExcludedPath(r) \/ Preflight(r)
  <2>1. /\ cfg' = cfg /\ Q(r)' = Q(r) /\ gate' = gate /\ ~Screened(r)
    BY <1>3 DEF ExcludedPath, Preflight, Q, Screened
  <2>2. ~Spared(r)'
    BY <2>1, SparedStable DEF Spared
  <2> QED BY <1>1, <2>1, <2>2 DEF GateTells
<1>4. CASE ResolveCarrier(r)
  <2>1. gate' = gate
    BY <1>4 DEF ResolveCarrier
  <2>2. \/ metadata'[r] = NoVerdict /\ pc'[r] = "gates"
        \/ pc'[r] = "routing" /\ metadata'[r] \in {Failed, Plain("ActivityBanned")}
    BY <1>1, <1>4 DEF ResolveCarrier, Return, Goto, FirstWins, TypeOK
  <2>3. Failed # Clean /\ Plain("ActivityBanned") # Clean
    BY VerdictTypes DEF Plain, Clean
  <2> QED BY <1>1, <2>1, <2>2, <2>3 DEF GateTells
<1>5. CASE EvaluateGates(r)
  <2>1. /\ cfg' = cfg /\ Q(r)' = Q(r) /\ gate'[r] = GateAfter(r) /\ Screened(r)
    BY <1>1, <1>5 DEF EvaluateGates, Q, TypeOK, IInv, Way
  <2>2. CASE RefusingGate(r) # "none"
    <3>1. pc'[r] = "routing" /\ metadata'[r] = CheckVerdict(Q(r), RefusingGate(r))
      BY <1>1, <1>5, <2>2 DEF EvaluateGates, Return, Goto, FirstWins, TypeOK
    <3>2. metadata'[r] # Clean
      BY <1>1, <3>1, RefusalsAreNotClean, QType
    <3> QED BY <3>1, <3>2 DEF GateTells
  <2>3. CASE RefusingGate(r) = "none"
    <3>1. FirstRefusal(Q(r), "none", RouteIpOrder) = "none"
      BY <2>3 DEF RefusingGate
    <3>2. GateAfter(r) = "whitelisted" <=> Spared(r)
      BY <2>1, <3>1 DEF GateAfter, Spared
    <3>3. pc'[r] = "bans"
      BY <1>1, <1>5, <2>3 DEF EvaluateGates, Goto, TypeOK
    <3> QED BY <2>1, <3>2, <3>3, SparedStable DEF GateTells
  <2> QED BY <2>2, <2>3
<1> QED BY <1>2, <1>3, <1>4, <1>5

\* Past the gate the slot stays, and only the stage pass passes a request.
LEMMA LateGate ==
    ASSUME IInv, NEW r \in Requests, GateTells(r),
           \/ BanArm(r) \/ LateRefusal(r) \/ StagePass(r) \/ Route(r) \/ CheckBlockGuard(r)
           \/ ReadBody(r) \/ ScreenBody(r) \/ RunHandler(r) \/ Catch(r) \/ OnResponse(r)
    PROVE  GateTells(r)'
<1> USE DEF environment, stores, history
<1>1. TypeOK /\ Same(r)
  BY DEF IInv, Same, BanArm, LateRefusal, StagePass, Route, CheckBlockGuard, ReadBody,
     ScreenBody, RunHandler, Catch, OnResponse
<1>2. CASE BanArm(r) \/ LateRefusal(r) \/ StagePass(r)
  <2>1. pc[r] \in {"bans", "tiers"} /\ pc'[r] \in {"tiers", "routing"}
    BY <1>1, <1>2 DEF BanArm, LateRefusal, StagePass, Return, Goto, TypeOK
  <2> QED BY <1>1, <2>1, GateKept
<1>3. CASE Route(r) \/ CheckBlockGuard(r) \/ ReadBody(r) \/ RunHandler(r) \/ Catch(r)
  <2>1. metadata' = metadata
    BY <1>3 DEF Route, CheckBlockGuard, ReadBody, RunHandler, Catch
  <2>2. pc'[r] \notin {"idle", "preamble", "gates", "bans", "tiers"}
    BY <1>1, <1>3 DEF Route, CheckBlockGuard, ReadBody, RunHandler, Catch, GuardError, Goto, TypeOK
  <2> QED BY <1>1, <2>1, <2>2, GateKept
<1>4. CASE ScreenBody(r) \/ OnResponse(r)
  <2>1. metadata' = metadata
    BY <1>4 DEF ScreenBody, OnResponse
  <2>2. pc'[r] \notin {"idle", "preamble", "gates", "bans", "tiers"}
    BY <1>1, <1>4 DEF ScreenBody, OnResponse, Finish, GuardError, Goto, TypeOK
  <2> QED BY <1>1, <2>1, <2>2, GateKept
<1> QED BY <1>2, <1>3, <1>4

LEMMA NextGate ==
    ASSUME IInv, GateInv, [Next]_vars
    PROVE  GateInv'
<1> SUFFICES ASSUME NEW r \in Requests PROVE GateTells(r)'
  BY DEF GateInv
<1>1. TypeOK /\ GateTells(r)
  BY DEF IInv, GateInv
<1>2. CASE Aside(r)
  BY <1>1, <1>2, GateKept DEF Aside
<1>3. CASE Arrive(r) \/ Progress(r)
  BY <1>1, <1>3, EarlyGate, LateGate DEF Progress
<1> QED BY <1>1, <1>2, <1>3, StepOrAside

LEMMA InitGate == Init => GateInv
BY VerdictTypes DEF Init, GateInv, GateTells

LEMMA AlwaysGate == Spec => []GateInv
BY InitGate, NextGate, AlwaysIInv, PTL DEF Spec

----------------------------------------------------------------------------
(* The detection counter.                                                  *)

\* The usage rule bars nobody before the carrier is resolved, and a request
\* it bars is refused there and then.
NotYetBarred(r) == pc[r] \in Evaluating \cup {"idle"} => ~barred[r]

DetectionInv ==
    /\ \A r \in Requests : NotYetBarred(r)
    /\ ~cfg.passive =>
          \A ip \in Ips :
              IsFiniteSet(Fed(ip)) /\ counts[ip]["detection"] = Cardinality(Fed(ip))

\* What stands for a detection, in the metadata or in the enforced slot.
DetectionKinds == {"Threat", "ActivityBanned"}

\* No check and no live ban is a detection.
LEMMA ChecksDetectNothing ==
    ASSUME NEW q, NEW c, NEW ip
    PROVE  /\ CheckVerdict(q, c).kind \notin DetectionKinds
           /\ BanAnswer(ip).kind \notin DetectionKinds
<1> USE DEF DetectionKinds, Plain, NoVerdict
<1>1. \A code : StageBlock(code).kind \notin DetectionKinds
  BY DEF StageBlock, CustomBlock
<1>2. Failed.kind \notin DetectionKinds
  BY DEF Failed
<1>3. CheckVerdict(q, c).kind \notin DetectionKinds
  BY <1>1, <1>2 DEF CheckVerdict
<1> QED BY <1>3 DEF BanAnswer

\* A step that leaves a request's slots alone leaves it counted as it was.
LEMMA FedStable ==
    ASSUME NEW r \in Requests, Same(r), metadata'[r] = metadata[r],
           barred'[r] = barred[r], FedByBody(r)' <=> FedByBody(r)
    PROVE  \A ip : (r \in Fed(ip))' <=> r \in Fed(ip)
<1>1. Q(r)' = Q(r)
  BY DEF Same, Q
<1>2. Finding(Q(r))' <=> Finding(Q(r))
  BY <1>1 DEF Finding, MetadataScanned, Bypassed, Same
<1>3. StagePassRuns(r)' <=> StagePassRuns(r)
  BY <1>1 DEF StagePassRuns, Bypassed
<1>4. FedByMetadata(r)' <=> FedByMetadata(r)
  BY <1>2, <1>3 DEF FedByMetadata
<1> QED BY <1>1, <1>4, SparedStable DEF Fed, Same

\* A request that is not refused for a detection does not count.
LEMMA NotFed ==
    ASSUME NEW r \in Requests,
           metadata[r].kind \notin DetectionKinds \/ barred[r],
           metadata[r] # Clean \/ enforced[r].kind \notin DetectionKinds
    PROVE  \A ip : r \notin Fed(ip)
BY DEF Fed, FedByMetadata, FedByBody, DetectionKinds

LEMMA NotFedNext ==
    ASSUME NEW r \in Requests,
           metadata'[r].kind \notin DetectionKinds \/ barred'[r],
           metadata'[r] # Clean \/ enforced'[r].kind \notin DetectionKinds
    PROVE  \A ip : ~(r \in Fed(ip))'
BY DEF Fed, FedByMetadata, FedByBody, DetectionKinds

\* A request that is still evaluated is not counted.
LEMMA EvaluatingNotFed ==
    ASSUME NEW r \in Requests, OutcomeWay(r), Way(r), pc[r] \in Evaluating \cup {"idle"}
    PROVE  /\ metadata[r] = NoVerdict /\ enforced[r] = NoVerdict
           /\ NoVerdict.kind \notin DetectionKinds /\ Clean.kind \notin DetectionKinds
           /\ \A ip : r \notin Fed(ip)
<1>1. metadata[r] = NoVerdict /\ enforced[r] = NoVerdict
  BY DEF OutcomeWay, Way, Evaluating
<1>2. NoVerdict.kind \notin DetectionKinds /\ Clean.kind \notin DetectionKinds
  BY DEF NoVerdict, Clean, Plain, DetectionKinds
<1> QED BY <1>1, <1>2, NotFed

\* The steps that neither feed nor refuse for a detection.
Uncounted(r) ==
    counts' = counts /\ \A ip : (r \in Fed(ip))' <=> r \in Fed(ip)

LEMMA EarlyUncounted ==
    ASSUME IInv, Outcomes, NEW r \in Requests, NotYetBarred(r),
           \/ Arrive(r) \/ ExcludedPath(r) \/ Preflight(r) \/ ResolveCarrier(r)
           \/ EvaluateGates(r) \/ BanArm(r) \/ LateRefusal(r)
    PROVE  Uncounted(r) /\ NotYetBarred(r)'
<1> USE DEF environment, stores, history
<1>1. /\ TypeOK /\ OutcomeWay(r) /\ Way(r) /\ pc[r] \in Evaluating \cup {"idle"}
      /\ ~barred[r]
  BY DEF IInv, Outcomes, NotYetBarred, Evaluating, Arrive, ExcludedPath, Preflight,
     ResolveCarrier, EvaluateGates, BanArm, LateRefusal
<1>2. enforced' = enforced /\ counts' = counts
  BY DEF Arrive, ExcludedPath, Preflight, ResolveCarrier, EvaluateGates, BanArm, LateRefusal
<1>3. /\ metadata[r] = NoVerdict /\ enforced[r] = NoVerdict
      /\ NoVerdict.kind \notin DetectionKinds /\ Clean.kind \notin DetectionKinds
      /\ \A ip : r \notin Fed(ip)
  BY <1>1, EvaluatingNotFed
<1>4. ASSUME metadata'[r].kind \notin DetectionKinds \/ barred'[r]
      PROVE  Uncounted(r)
  <2>1. \A ip : ~(r \in Fed(ip))'
    BY <1>2, <1>3, <1>4, NotFedNext
  <2> QED BY <1>2, <1>3, <2>1 DEF Uncounted
<1>5. CASE Arrive(r)
  <2>1. metadata' = metadata /\ barred' = barred
    BY <1>5 DEF Arrive
  <2> QED BY <1>1, <1>3, <1>4, <2>1 DEF NotYetBarred
<1>6. CASE ExcludedPath(r) \/ Preflight(r)
  <2>1. metadata'[r] = Clean /\ barred' = barred
    BY <1>1, <1>3, <1>6 DEF ExcludedPath, Preflight, Return, FirstWins, TypeOK
  <2> QED BY <1>1, <1>3, <1>4, <2>1 DEF NotYetBarred
<1>7. CASE ResolveCarrier(r)
  <2>1. \/ metadata'[r] = Failed /\ barred' = barred
        \/ barred'[r] /\ pc'[r] = "routing"
        \/ metadata' = metadata /\ ~barred'[r]
    BY <1>1, <1>3, <1>7 DEF ResolveCarrier, Return, Goto, FirstWins, TypeOK
  <2>2. Failed.kind \notin DetectionKinds
    BY DEF Failed, Plain, DetectionKinds
  <2> QED BY <1>1, <1>3, <1>4, <2>1, <2>2 DEF NotYetBarred, Evaluating
<1>8. CASE EvaluateGates(r) \/ BanArm(r) \/ LateRefusal(r)
  <2>1. barred' = barred
    BY <1>8 DEF EvaluateGates, BanArm, LateRefusal
  <2>2. \/ metadata'[r] = NoVerdict
        \/ \E c : metadata'[r] = CheckVerdict(Q(r), c)
        \/ metadata'[r] = BanAnswer(Q(r).ip)
    <3>1. CASE EvaluateGates(r)
      BY <1>1, <1>3, <3>1 DEF EvaluateGates, Return, FirstWins, TypeOK
    <3>2. CASE BanArm(r)
      BY <1>1, <1>3, <3>2 DEF BanArm, Return, FirstWins, TypeOK
    <3>3. CASE LateRefusal(r)
      BY <1>1, <1>3, <3>3 DEF LateRefusal, Return, FirstWins, TypeOK
    <3> QED BY <1>8, <3>1, <3>2, <3>3
  <2>3. metadata'[r].kind \notin DetectionKinds
    BY <1>3, <2>2, ChecksDetectNothing
  <2> QED BY <1>1, <1>4, <2>1, <2>3 DEF NotYetBarred
<1> QED BY <1>5, <1>6, <1>7, <1>8

\* Neither do the guards but the body scan, the handler, a catcher or
\* on_response: an enforced verdict of BlockGuard repeats the metadata's.
LEMMA LateUncounted ==
    ASSUME IInv, Outcomes, NEW r \in Requests, NotYetBarred(r),
           \/ Route(r) \/ CheckBlockGuard(r) \/ ReadBody(r)
           \/ RunHandler(r) \/ Catch(r) \/ OnResponse(r)
    PROVE  Uncounted(r) /\ NotYetBarred(r)'
<1> USE DEF environment, stores, history
<1>1. TypeOK /\ pc[r] \notin Evaluating \cup {"idle"}
  BY DEF IInv, Evaluating, Route, CheckBlockGuard, ReadBody, RunHandler, Catch, OnResponse
<1>2. /\ Same(r) /\ metadata' = metadata /\ barred' = barred /\ counts' = counts
  BY DEF Same, Route, CheckBlockGuard, ReadBody, RunHandler, Catch, OnResponse
<1>3. pc'[r] \notin Evaluating \cup {"idle"}
  BY <1>1 DEF Evaluating, Route, CheckBlockGuard, ReadBody, RunHandler, Catch, OnResponse,
     Finish, GuardError, Goto, TypeOK
<1>4. NotYetBarred(r)'
  BY <1>3 DEF NotYetBarred
<1>5. ASSUME FedByBody(r)' <=> FedByBody(r) PROVE Uncounted(r)
  BY <1>2, <1>5, FedStable DEF Uncounted
<1>6. CASE enforced' = enforced \/ metadata[r] # Clean
  <2>1. FedByBody(r)' <=> FedByBody(r)
    BY <1>2, <1>6 DEF FedByBody
  <2> QED BY <1>4, <1>5, <2>1
<1>7. CASE ReadBody(r)
  <2>1. enforced' \in {enforced, FirstWins(enforced, r, Failed)} /\ enforced[r] = NoVerdict
    BY <1>7 DEF ReadBody, Outcomes, OutcomeWay
  <2>2. enforced'[r] \in {NoVerdict, Failed}
    BY <1>1, <2>1 DEF FirstWins, TypeOK
  <2>3. ~FedByBody(r) /\ ~FedByBody(r)'
    BY <2>1, <2>2 DEF FedByBody, Failed, NoVerdict, Plain
  <2> QED BY <1>4, <1>5, <2>3
<1>8. enforced' = enforced \/ metadata[r] # Clean \/ ReadBody(r)
  BY DEF Route, CheckBlockGuard, RunHandler, Catch, OnResponse
<1> QED BY <1>6, <1>7, <1>8

\* A feed counts a violation of the address and, outside passive mode, refuses
\* for it.
LEMMA FeedCountsOne ==
    ASSUME TypeOK, NEW ip, NEW g, NEW a \in Ips
    PROVE  /\ FeedCounts(ip, g)[a]["detection"] =
                 IF Counted(ip, g) /\ a = ip
                 THEN counts[a]["detection"] + 1 ELSE counts[a]["detection"]
           /\ ~cfg.passive /\ Counted(ip, g) => FeedAnswer(ip, g).kind \in DetectionKinds
           /\ ~Counted(ip, g) => FeedAnswer(ip, g) = NoVerdict
<1>1. counts \in [Ips -> [Categories -> Nat]] /\ "detection" \in Categories
  BY DEF TypeOK, StageTypeOK, Categories
<1>2. FeedCounts(ip, g)[a]["detection"] =
         IF Counted(ip, g) /\ a = ip
         THEN counts[a]["detection"] + 1 ELSE counts[a]["detection"]
  BY <1>1 DEF FeedCounts, Counted, CountsAfter
<1> QED BY <1>2 DEF FeedAnswer, DetectionKinds, Plain

\* The counter of an address and its counted requests move together.
MoveTogether(r, ip) ==
    \/ /\ counts'[ip]["detection"] = counts[ip]["detection"]
       /\ (r \in Fed(ip))' <=> r \in Fed(ip)
    \/ /\ counts'[ip]["detection"] = counts[ip]["detection"] + 1
       /\ r \notin Fed(ip) /\ (r \in Fed(ip))'

\* The metadata finding is fed where no tier refused, and then refused for;
\* where the feed does not count, no address has the request to its account.
LEMMA StagePassCounts ==
    ASSUME IInv, Outcomes, NEW r \in Requests, GateTells(r), NotYetBarred(r), ~cfg.passive,
           StagePass(r), NEW ip \in Ips
    PROVE  MoveTogether(r, ip)
<1> DEFINE g == gate[r]
           feeds == /\ StagePassRuns(r) /\ Finding(Q(r))
                    /\ ~TierRefuses(Q(r).ip, g) /\ Counted(Q(r).ip, g)
<1>1. /\ TypeOK /\ OutcomeWay(r) /\ Way(r) /\ pc[r] \in Evaluating \cup {"idle"}
      /\ ~barred[r]
  BY DEF IInv, Outcomes, NotYetBarred, Evaluating, StagePass
<1>2. /\ metadata[r] = NoVerdict /\ enforced[r] = NoVerdict
      /\ NoVerdict.kind \notin DetectionKinds
      /\ \A i : r \notin Fed(i)
  BY <1>1, EvaluatingNotFed
<1>3. Same(r) /\ enforced' = enforced /\ barred' = barred
  BY DEF StagePass, Same, environment
<1>4. metadata'[r] = FinalVerdict(r)
  BY <1>1, <1>2 DEF StagePass, Return, FirstWins, TypeOK
<1>5. /\ Q(r)' = Q(r) /\ (Finding(Q(r))' <=> Finding(Q(r)))
      /\ (StagePassRuns(r)' <=> StagePassRuns(r)) /\ gate'[r] = gate[r]
  BY <1>3 DEF Same, Q, Finding, MetadataScanned, Bypassed, StagePassRuns
<1>6. (r \in Fed(ip))' <=> /\ Q(r).ip = ip /\ g # "whitelisted"
                           /\ FinalVerdict(r).kind \in DetectionKinds
                           /\ Finding(Q(r)) /\ StagePassRuns(r)
  <2>1. ~FedByBody(r)'
    BY <1>2, <1>3 DEF FedByBody, DetectionKinds
  <2>2. FedByMetadata(r)' <=> /\ FinalVerdict(r).kind \in DetectionKinds
                              /\ Finding(Q(r)) /\ StagePassRuns(r)
    BY <1>1, <1>3, <1>4, <1>5 DEF FedByMetadata, DetectionKinds
  <2>3. Spared(r)' <=> g = "whitelisted"
    BY <1>3, <1>5, SparedStable DEF GateTells, StagePass, Same
  <2> QED BY <1>5, <2>1, <2>2, <2>3 DEF Fed
<1>7. feeds => FinalVerdict(r).kind \in DetectionKinds
  <2> SUFFICES ASSUME feeds PROVE FinalVerdict(r).kind \in DetectionKinds
    OBVIOUS
  <2>1. StageAnswer(r) = FeedAnswer(Q(r).ip, g)
    BY DEF StageAnswer, TierAnswer, TierRefuses
  <2>2. FeedAnswer(Q(r).ip, g).kind \in DetectionKinds
    BY <1>1, FeedCountsOne
  <2> QED BY <1>2, <2>1, <2>2 DEF FinalVerdict
<1>8. StagePassRuns(r) /\ TierRefuses(Q(r).ip, g) => FinalVerdict(r).kind \notin DetectionKinds
  <2> SUFFICES ASSUME StagePassRuns(r), TierRefuses(Q(r).ip, g)
               PROVE  FinalVerdict(r).kind \notin DetectionKinds
    OBVIOUS
  <2>1. StageAnswer(r) \in {Plain("RedisUnavailable"), RateLimited(Window)}
    BY DEF StageAnswer, TierAnswer, TierRefuses
  <2> QED BY <2>1 DEF FinalVerdict, Plain, RateLimited, NoVerdict, DetectionKinds
<1>9. (r \in Fed(ip))' <=> feeds /\ ip = Q(r).ip
  BY <1>6, <1>7, <1>8 DEF Counted
<1>10. counts'[ip]["detection"] =
          IF feeds /\ ip = Q(r).ip
          THEN counts[ip]["detection"] + 1 ELSE counts[ip]["detection"]
  <2>1. counts \in [Ips -> [Categories -> Nat]] /\ Categories = {"detection", "rate_limit"}
    BY <1>1 DEF TypeOK, StageTypeOK, Categories
  <2>2. CASE ~StagePassRuns(r)
    BY <2>2 DEF StagePass
  <2>3. CASE StagePassRuns(r) /\ Throttled(Q(r).ip, g)
    <3>1. counts' \in {counts, CountsAfter(Q(r).ip, "rate_limit")}
      BY <2>3 DEF StagePass, TierCounts
    <3>2. CountsAfter(Q(r).ip, "rate_limit")[ip]["detection"] = counts[ip]["detection"]
      BY <2>1 DEF CountsAfter
    <3> QED BY <2>3, <3>1, <3>2 DEF TierRefuses
  <2>4. CASE StagePassRuns(r) /\ ~Throttled(Q(r).ip, g)
    <3>1. counts' = IF Finding(Q(r)) /\ ~TierRefuses(Q(r).ip, g)
                    THEN FeedCounts(Q(r).ip, g) ELSE counts
      BY <2>4 DEF StagePass, TierCounts
    <3>2. FeedCounts(Q(r).ip, g)[ip]["detection"] =
             IF Counted(Q(r).ip, g) /\ ip = Q(r).ip
             THEN counts[ip]["detection"] + 1 ELSE counts[ip]["detection"]
      BY <1>1, FeedCountsOne
    <3> QED BY <2>4, <3>1, <3>2
  <2> QED BY <2>2, <2>3, <2>4
<1> QED BY <1>2, <1>9, <1>10 DEF MoveTogether

\* The body finding is fed for a request the metadata phase let through, and
\* then enforced.
LEMMA ScreenBodyCounts ==
    ASSUME IInv, Outcomes, NEW r \in Requests, GateTells(r), NotYetBarred(r), ~cfg.passive,
           ScreenBody(r), NEW ip \in Ips
    PROVE  MoveTogether(r, ip)
<1> DEFINE g == gate[r]
           feeds == Enforces(r) /\ Counted(Q(r).ip, g)
<1>1. /\ TypeOK /\ pc[r] = "screen" /\ enforced[r] = NoVerdict /\ metadata[r] # NoVerdict
  BY DEF IInv, Outcomes, OutcomeWay, Way, Buffered, Evaluating, ScreenBody
<1>2. Same(r) /\ metadata' = metadata /\ barred' = barred
  BY DEF ScreenBody, Same, environment
<1>3. enforced'[r] = IF ScreenVerdict(r) = Clean THEN NoVerdict ELSE ScreenVerdict(r)
  BY <1>1 DEF ScreenBody, FirstWins, TypeOK
<1>4. NoVerdict.kind \notin DetectionKinds /\ Clean.kind \notin DetectionKinds
      /\ Failed.kind \notin DetectionKinds
  BY DEF NoVerdict, Clean, Failed, Plain, DetectionKinds
<1>5. counts'[ip]["detection"] =
          IF feeds /\ ip = Q(r).ip
          THEN counts[ip]["detection"] + 1 ELSE counts[ip]["detection"]
  BY <1>1, FeedCountsOne DEF ScreenBody
<1>6. StashedVerdict(r) = metadata[r]
  BY <1>1 DEF StashedVerdict
<1>7. CASE metadata[r] # Clean
  <2>1. ~feeds
    BY <1>6, <1>7 DEF Enforces
  <2>2. FedByBody(r)' <=> FedByBody(r)
    BY <1>2, <1>7 DEF FedByBody
  <2>3. (r \in Fed(ip))' <=> r \in Fed(ip)
    BY <1>2, <2>2, FedStable
  <2> QED BY <1>5, <2>1, <2>3 DEF MoveTogether
<1>8. CASE metadata[r] = Clean
  <2>1. r \notin Fed(ip)
    BY <1>1, <1>4, <1>8, NotFed
  <2>2. (r \in Fed(ip))' <=> /\ Q(r).ip = ip /\ g # "whitelisted"
                             /\ enforced'[r].kind \in DetectionKinds
    <3>1. ~FedByMetadata(r)'
      BY <1>2, <1>4, <1>8 DEF FedByMetadata, DetectionKinds
    <3>2. FedByBody(r)' <=> enforced'[r].kind \in DetectionKinds
      BY <1>2, <1>8 DEF FedByBody, DetectionKinds
    <3>3. Q(r)' = Q(r) /\ cfg' = cfg
      BY <1>2 DEF Same, Q
    <3>4. Spared(r)' <=> g = "whitelisted"
      BY <1>8, <3>3, SparedStable DEF GateTells
    <3> QED BY <3>1, <3>2, <3>3, <3>4 DEF Fed
  <2>3. ~Enforces(r) => enforced'[r].kind \notin DetectionKinds
    <3>1. ~Enforces(r) => ScreenVerdict(r) \in {Clean, Failed}
      BY <1>6, <1>8 DEF Enforces, ScreenVerdict
    <3> QED BY <1>3, <1>4, <3>1
  <2>4. feeds => enforced'[r].kind \in DetectionKinds
    <3> SUFFICES ASSUME feeds PROVE enforced'[r].kind \in DetectionKinds
      OBVIOUS
    <3>1. FeedAnswer(Q(r).ip, g).kind \in DetectionKinds
      BY <1>1, FeedCountsOne
    <3>2. ScreenVerdict(r) = FeedAnswer(Q(r).ip, g)
      BY <1>4, <1>6, <1>8, <3>1 DEF Enforces, ScreenVerdict, FindingVerdict
    <3> QED BY <1>3, <1>4, <3>1, <3>2
  <2>5. (r \in Fed(ip))' <=> feeds /\ ip = Q(r).ip
    BY <2>2, <2>3, <2>4 DEF Counted
  <2> QED BY <1>5, <2>1, <2>5 DEF MoveTogether
<1> QED BY <1>7, <1>8

\* The configuration is the one the fairing was built with.
LEMMA ConfigurationStays ==
    ASSUME [Next]_vars
    PROVE  cfg' = cfg
<1> USE DEF environment
<1>1. CASE EnvironmentStep
  BY <1>1 DEF EnvironmentStep, Tick, StoreFlips, Reset, OperatorBan, OperatorUnban, vars
<1>2. CASE \E r \in Requests : Arrive(r) \/ Progress(r)
  BY <1>2 DEF Progress, Arrive, ExcludedPath, Preflight, ResolveCarrier, EvaluateGates,
     BanArm, LateRefusal, StagePass, Route, CheckBlockGuard, ReadBody, ScreenBody,
     RunHandler, Catch, OnResponse
<1> QED BY <1>1, <1>2, StepCases

LEMMA AsideFed ==
    ASSUME NEW s \in Requests, Aside(s)
    PROVE  /\ NotYetBarred(s) => NotYetBarred(s)'
           /\ \A ip : (s \in Fed(ip))' <=> s \in Fed(ip)
<1>1. FedByBody(s)' <=> FedByBody(s)
  BY DEF Aside, FedByBody
<1>2. NotYetBarred(s) => NotYetBarred(s)'
  BY DEF Aside, NotYetBarred
<1> QED BY <1>1, <1>2, FedStable DEF Aside

\* A step that is no request's leaves the violations accounted for.
LEMMA DetectionStays ==
    ASSUME DetectionInv, cfg' = cfg, counts' = counts, \A s \in Requests : Aside(s)
    PROVE  DetectionInv'
<1>1. ASSUME NEW ip PROVE Fed(ip)' = Fed(ip)
  BY AsideFed DEF Fed
<1> QED BY <1>1, AsideFed DEF DetectionInv

LEMMA NextDetection ==
    ASSUME IInv, Outcomes, GateInv, DetectionInv, [Next]_vars
    PROVE  DetectionInv'
<1>1. TypeOK /\ cfg' = cfg /\ \A s \in Requests : NotYetBarred(s) /\ GateTells(s)
  BY ConfigurationStays DEF IInv, DetectionInv, GateInv
<1>2. CASE EnvironmentStep
  <2>1. counts' = counts
    BY <1>2 DEF EnvironmentStep, Tick, StoreFlips, Reset, OperatorBan, OperatorUnban, vars, stores
  <2> QED BY <1>1, <1>2, <2>1, EnvironmentAside, DetectionStays
<1>3. ASSUME NEW r \in Requests, Arrive(r) \/ Progress(r) PROVE DetectionInv'
  <2>1. \A s \in Requests \ {r} : Aside(s)
    BY <1>1, <1>3, OthersAside
  <2>2. NotYetBarred(r)' /\ (~cfg.passive => \A ip \in Ips : MoveTogether(r, ip))
    <3>1. Uncounted(r) => \A ip \in Ips : MoveTogether(r, ip)
      BY DEF Uncounted, MoveTogether
    <3>2. CASE StagePass(r)
      <4>1. NotYetBarred(r)'
        BY <1>1, <3>2 DEF StagePass, Return, Goto, NotYetBarred, Evaluating, TypeOK
      <4> QED BY <1>1, <3>2, <4>1, StagePassCounts
    <3>3. CASE ScreenBody(r)
      <4>1. NotYetBarred(r)'
        BY <1>1, <3>3 DEF ScreenBody, GuardError, Goto, NotYetBarred, Evaluating, TypeOK
      <4> QED BY <1>1, <3>3, <4>1, ScreenBodyCounts
    <3> QED BY <1>1, <1>3, <3>1, <3>2, <3>3, EarlyUncounted, LateUncounted DEF Progress
  <2>3. ASSUME ~cfg.passive, NEW ip \in Ips
        PROVE  IsFiniteSet(Fed(ip)') /\ counts'[ip]["detection"] = Cardinality(Fed(ip)')
    <3>1. \A s \in Requests \ {r} : (s \in Fed(ip))' <=> s \in Fed(ip)
      BY <2>1, AsideFed
    <3>2. Fed(ip) \ {r} = Fed(ip)' \ {r}
      BY <3>1 DEF Fed
    <3>3. MoveTogether(r, ip)
      BY <2>2, <2>3
    <3>4. IsFiniteSet(Fed(ip)) /\ counts[ip]["detection"] = Cardinality(Fed(ip))
      BY <2>3 DEF DetectionInv
    <3>5. \/ /\ counts'[ip]["detection"] = counts[ip]["detection"]
             /\ r \in Fed(ip)' <=> r \in Fed(ip)
          \/ /\ counts'[ip]["detection"] = counts[ip]["detection"] + 1
             /\ r \notin Fed(ip) /\ r \in Fed(ip)'
      BY <3>3 DEF MoveTogether
    <3> DEFINE m == counts[ip]["detection"]
               n == counts'[ip]["detection"]
    <3>6. /\ m = Cardinality(Fed(ip))
          /\ \/ n = m /\ (r \in Fed(ip) <=> r \in Fed(ip)')
             \/ n = m + 1 /\ r \notin Fed(ip) /\ r \in Fed(ip)'
      BY <3>4, <3>5
    <3> HIDE DEF m, n
    <3>7. IsFiniteSet(Fed(ip)') /\ n = Cardinality(Fed(ip)')
      BY <3>2, <3>4, <3>6, Tally
    <3> QED BY <3>7 DEF n
  <2> QED BY <1>1, <2>1, <2>2, <2>3, AsideFed DEF DetectionInv
<1> QED BY <1>2, <1>3, StepCases

LEMMA InitDetection == Init => DetectionInv
<1> SUFFICES ASSUME Init PROVE DetectionInv
  OBVIOUS
<1>1. \A ip \in Ips : Fed(ip) = {} /\ counts[ip]["detection"] = 0
  BY DEF Init, StageInit, Fed, FedByMetadata, FedByBody, NoVerdict, Categories
<1>2. \A r \in Requests : NotYetBarred(r)
  BY DEF Init, NotYetBarred
<1> QED BY <1>1, <1>2, FS_EmptySet DEF DetectionInv

LEMMA AlwaysDetection == Spec => []DetectionInv
BY InitDetection, NextDetection, AlwaysIInv, AlwaysOutcome, AlwaysGate, PTL DEF Spec, OutcomeInv

\* Outside passive mode the detection counter of an address is the number of
\* its requests refused for a detected threat, in the metadata or in the body
\* phase: no request counts twice, and none of a client the gate whitelists.
THEOREM ViolationsAreAccounted == Spec => []ViolationsAccounted
<1>1. DetectionInv => ViolationsAccounted
  BY DEF DetectionInv, ViolationsAccounted
<1> QED BY <1>1, AlwaysDetection, PTL

----------------------------------------------------------------------------
(* The detection counter in passive mode.                                  *)

PassiveInv ==
    cfg.passive =>
        \A ip \in Ips :
            /\ IsFiniteSet(CountedByMetadata(ip)) /\ IsFiniteSet(CountedByBody(ip))
            /\ counts[ip]["detection"] =
                  Cardinality(CountedByMetadata(ip)) + Cardinality(CountedByBody(ip))

\* What each phase counted of a request stays counted.
LEMMA CountedStable ==
    ASSUME NEW r \in Requests, Same(r)
    PROVE  /\ metadata'[r] = metadata[r] /\ barred'[r] = barred[r] =>
                 \A ip : (r \in CountedByMetadata(ip))' <=> r \in CountedByMetadata(ip)
           /\ (DataGuarded(Q(r)) =>
                    (pc'[r] = "handler" \/ ran'[r] <=> pc[r] = "handler" \/ ran[r])) =>
                 \A ip : (r \in CountedByBody(ip))' <=> r \in CountedByBody(ip)
<1>1. Q(r)' = Q(r) /\ (Screened(r)' <=> Screened(r)) /\ (StagePassRuns(r)' <=> StagePassRuns(r))
  BY SameStable
<1>2. Finding(Q(r))' <=> Finding(Q(r))
  BY <1>1 DEF Finding, MetadataScanned, Bypassed, Same
<1>3. (DataGuarded(Q(r))' <=> DataGuarded(Q(r))) /\ (Spared(r)' <=> Spared(r))
  BY <1>1, SparedStable DEF DataGuarded, Same
<1>4. \A c : Refuses(Q(r), gate[r], c)' <=> Refuses(Q(r), gate[r], c)
  BY RefusesStable DEF Same
<1>5. barred'[r] = barred[r] => (ReachesStagePass(r)' <=> ReachesStagePass(r))
  BY <1>1, <1>4 DEF ReachesStagePass, Same
<1>6. ASSUME metadata'[r] = metadata[r], barred'[r] = barred[r], NEW ip
      PROVE  (r \in CountedByMetadata(ip))' <=> r \in CountedByMetadata(ip)
  BY <1>1, <1>2, <1>3, <1>5, <1>6 DEF CountedByMetadata
<1>7. ASSUME DataGuarded(Q(r)) =>
                 (pc'[r] = "handler" \/ ran'[r] <=> pc[r] = "handler" \/ ran[r]),
             NEW ip
      PROVE  (r \in CountedByBody(ip))' <=> r \in CountedByBody(ip)
  BY <1>1, <1>3, <1>7 DEF CountedByBody, Same
<1> QED BY <1>6, <1>7

\* Before routing neither phase has counted the request.
LEMMA NotCountedYet ==
    ASSUME NEW r \in Requests, Way(r), pc[r] \in Evaluating \cup {"idle"}
    PROVE  /\ metadata[r] = NoVerdict /\ ~ran[r]
           /\ \A ip : r \notin CountedByMetadata(ip) /\ r \notin CountedByBody(ip)
<1>1. metadata[r] = NoVerdict /\ ~ran[r] /\ pc[r] # "handler"
  BY DEF Way, Evaluating
<1> QED BY <1>1 DEF CountedByMetadata, CountedByBody

\* The counter of an address and what the phases counted move together.
CountsMove(r, ip) ==
    LET byMetadata == (r \in CountedByMetadata(ip))' <=> r \in CountedByMetadata(ip)
        byBody == (r \in CountedByBody(ip))' <=> r \in CountedByBody(ip)
        one == counts'[ip]["detection"] = counts[ip]["detection"] + 1
    IN  \/ counts'[ip]["detection"] = counts[ip]["detection"] /\ byMetadata /\ byBody
        \/ /\ one /\ byBody
           /\ r \notin CountedByMetadata(ip) /\ (r \in CountedByMetadata(ip))'
        \/ /\ one /\ byMetadata
           /\ r \notin CountedByBody(ip) /\ (r \in CountedByBody(ip))'

\* The lists hold every check but the custom request check.
LEMMA OrdersLeaveOne ==
    /\ ChecksOf(RouteIpOrder) \cup ChecksOf(GateOrder) \cup ChecksOf(LateOrder)
           = Checks \ {"custom_request"}
    /\ ChecksOf(RouteIpOrder) \subseteq {"ip_invalid", "ip_route", "country_route", "ip_global"}
<1>1. "custom_request" \notin ChecksOf(RouteIpOrder) \cup ChecksOf(GateOrder) \cup ChecksOf(LateOrder)
  BY DEF ChecksOf, RouteIpOrder, GateOrder, LateOrder
<1>2. ChecksOf(RouteIpOrder) \subseteq {"ip_invalid", "ip_route", "country_route", "ip_global"}
  BY DEF ChecksOf, RouteIpOrder
<1> QED BY <1>1, <1>2 DEF Checks

\* A request the gates refuse does not get to the stage pass.
LEMMA GatesRefuse ==
    ASSUME TypeOK, NEW r \in Requests, EvaluateGates(r), metadata[r] = NoVerdict
    PROVE  metadata'[r] = NoVerdict \/ ~ReachesStagePass(r)'
<1>1. /\ cfg' = cfg /\ req' = req /\ gate'[r] = GateAfter(r)
  BY DEF EvaluateGates, environment, TypeOK
<1>2. CASE RefusingGate(r) = "none"
  BY <1>2 DEF EvaluateGates
<1>3. CASE FirstRefusal(Q(r), "none", RouteIpOrder) # "none"
  <2>1. PICK c \in ChecksOf(RouteIpOrder) : Refuses(Q(r), "none", c)
    BY <1>3, FirstOfSome, OrderTypes
  <2>2. GateAfter(r) = "none"
    BY <1>3 DEF GateAfter
  <2>3. Refuses(Q(r), gate[r], c)'
    BY <1>1, <2>1, <2>2, RefusesStable
  <2> QED BY <2>1, <2>3, OrdersLeaveOne DEF ReachesStagePass
<1>4. CASE /\ FirstRefusal(Q(r), "none", RouteIpOrder) = "none"
           /\ RefusingGate(r) # "none"
  <2>1. PICK c \in ChecksOf(GateOrder) : Refuses(Q(r), GateAfter(r), c)
    BY <1>4, FirstOfSome, OrderTypes DEF RefusingGate
  <2>2. Refuses(Q(r), gate[r], c)'
    BY <1>1, <2>1, RefusesStable
  <2> QED BY <2>1, <2>2, OrdersLeaveOne DEF ReachesStagePass
<1> QED BY <1>2, <1>3, <1>4

\* The request is refused, or lets the screening behind it uncounted.
LEMMA EarlyCountsNothing ==
    ASSUME IInv, NEW r \in Requests, cfg.passive, NEW ip \in Ips,
           \/ Arrive(r) \/ ExcludedPath(r) \/ Preflight(r) \/ ResolveCarrier(r)
           \/ EvaluateGates(r) \/ BanArm(r) \/ LateRefusal(r)
    PROVE  CountsMove(r, ip)
<1> USE DEF environment, stores, history
<1>1. TypeOK /\ Way(r) /\ pc[r] \in Evaluating \cup {"idle"} /\ NoVerdict # Clean
  BY VerdictTypes
  DEF IInv, Evaluating, Arrive, ExcludedPath, Preflight, ResolveCarrier, EvaluateGates,
      BanArm, LateRefusal
<1>2. /\ metadata[r] = NoVerdict /\ ~ran[r]
      /\ r \notin CountedByMetadata(ip) /\ r \notin CountedByBody(ip)
  BY <1>1, NotCountedYet
<1>3. counts' = counts /\ ran' = ran
  BY DEF Arrive, ExcludedPath, Preflight, ResolveCarrier, EvaluateGates, BanArm, LateRefusal
<1>4. pc'[r] # "handler"
  BY <1>1
  DEF Arrive, ExcludedPath, Preflight, ResolveCarrier, EvaluateGates, BanArm, LateRefusal,
      Return, Goto, TypeOK
<1>5. ~(r \in CountedByBody(ip))'
  BY <1>2, <1>3, <1>4 DEF CountedByBody
<1>6. metadata'[r] = NoVerdict \/ ~ReachesStagePass(r)'
  <2>1. CASE Arrive(r)
    BY <1>2, <2>1 DEF Arrive
  <2>2. CASE ExcludedPath(r) \/ Preflight(r)
    <3>1. cfg' = cfg /\ Q(r)' = Q(r) /\ ~Screened(r)
      BY <2>2 DEF ExcludedPath, Preflight, Q, Screened
    <3> QED BY <3>1 DEF Screened, AnswersPreflight, ReachesStagePass
  <2>3. CASE ResolveCarrier(r)
    <3>1. Q(r)' = Q(r)
      BY <2>3 DEF ResolveCarrier, Q
    <3>2. metadata'[r] = NoVerdict \/ Q(r).badRates \/ barred'[r]
      BY <1>1, <1>2, <2>3 DEF ResolveCarrier, TypeOK
    <3> QED BY <3>1, <3>2 DEF ReachesStagePass
  <2>4. CASE EvaluateGates(r)
    BY <1>1, <1>2, <2>4, GatesRefuse
  <2>5. CASE LateRefusal(r)
    <3>1. PICK c \in ChecksOf(LateOrder) : Refuses(Q(r), gate[r], c)
      BY <2>5, FirstOfSome, OrderTypes DEF LateRefusal
    <3>2. Refuses(Q(r), gate[r], c)'
      BY <2>5, <3>1, RefusesStable DEF LateRefusal
    <3> QED BY <3>1, <3>2, OrdersLeaveOne DEF ReachesStagePass
  <2>6. CASE BanArm(r)
    BY <1>1, <1>2, <2>6, PassiveStage DEF BanArm
  <2> QED BY <2>1, <2>2, <2>3, <2>4, <2>5, <2>6
<1>7. ~(r \in CountedByMetadata(ip))'
  BY <1>6 DEF CountedByMetadata
<1> QED BY <1>2, <1>3, <1>5, <1>7 DEF CountsMove

\* The handler behind a data guard runs for a request the guard counted, if it
\* had to; no other step past the evaluation touches what is counted.
LEMMA LateCountsNothing ==
    ASSUME IInv, NEW r \in Requests, NEW ip \in Ips,
           \/ Route(r) \/ CheckBlockGuard(r) \/ ReadBody(r)
           \/ RunHandler(r) \/ Catch(r) \/ OnResponse(r)
    PROVE  CountsMove(r, ip)
<1> USE DEF environment, stores, history
<1>1. TypeOK /\ Way(r)
  BY DEF IInv
<1>2. Same(r) /\ metadata' = metadata /\ barred' = barred /\ counts' = counts
  BY DEF Same, Route, CheckBlockGuard, ReadBody, RunHandler, Catch, OnResponse
<1>3. DataGuarded(Q(r)) =>
         (pc'[r] = "handler" \/ ran'[r] <=> pc[r] = "handler" \/ ran[r])
  <2>1. CASE Route(r) \/ CheckBlockGuard(r)
    BY <1>1, <2>1 DEF Route, CheckBlockGuard, DataGuarded, GuardError, Goto, TypeOK
  <2>2. CASE ReadBody(r) \/ RunHandler(r) \/ Catch(r)
    BY <1>1, <2>2 DEF ReadBody, RunHandler, Catch, GuardError, Goto, TypeOK
  <2>3. CASE OnResponse(r)
    BY <1>1, <2>3 DEF OnResponse, Finish, Goto, TypeOK
  <2> QED BY <2>1, <2>2, <2>3
<1> QED BY <1>2, <1>3, CountedStable DEF CountsMove

\* The stage pass counts the finding of the request that reaches it.
LEMMA StagePassCountsPassive ==
    ASSUME IInv, NEW r \in Requests, GateTells(r), NotYetBarred(r), cfg.passive, StagePass(r),
           NEW ip \in Ips
    PROVE  CountsMove(r, ip)
<1> DEFINE feeds == StagePassRuns(r) /\ Finding(Q(r)) /\ Counted(Q(r).ip, gate[r])
<1>1. /\ TypeOK /\ Way(r) /\ pc[r] = "tiers" /\ cfg.attached /\ Screened(r)
      /\ ~Q(r).badRates /\ GatesPassed(r) /\ ~barred[r]
  BY DEF IInv, Way, Evaluating, NotYetBarred, StagePass
<1>2. /\ metadata[r] = NoVerdict /\ ~ran[r]
      /\ r \notin CountedByMetadata(ip) /\ r \notin CountedByBody(ip)
  BY <1>1, NotCountedYet DEF Evaluating
<1>3. Same(r) /\ ran' = ran /\ barred' = barred /\ pc'[r] = "routing"
  BY <1>1 DEF StagePass, Same, environment, Return, Goto, TypeOK
<1>4. metadata'[r] # NoVerdict /\ ReachesStagePass(r)'
  <2>1. metadata'[r] = FinalVerdict(r) /\ FinalVerdict(r) # NoVerdict
    BY <1>1, <1>2, VerdictsAreLeft, QType DEF StagePass, Return, FirstWins, TypeOK
  <2>2. \A c \in ChecksOf(LateOrder) : ~Refuses(Q(r), gate[r], c)
    BY FirstOfNone, OrderTypes DEF StagePass
  <2>3. \A c \in Checks \ {"custom_request"} : ~Refuses(Q(r), gate[r], c)
    BY <1>1, <2>2, OrdersLeaveOne DEF GatesPassed
  <2>4. \A c : Refuses(Q(r), gate[r], c)' <=> Refuses(Q(r), gate[r], c)
    BY <1>3, RefusesStable DEF Same
  <2>5. Q(r)' = Q(r) /\ Screened(r)' /\ cfg' = cfg
    BY <1>1, <1>3, SameStable DEF Same
  <2>6. ReachesStagePass(r)'
    BY <1>1, <1>3, <2>3, <2>4, <2>5 DEF ReachesStagePass
  <2> QED BY <2>1, <2>6
<1>5. ~(r \in CountedByBody(ip))'
  BY <1>2, <1>3 DEF CountedByBody
<1>6. (r \in CountedByMetadata(ip))' <=> feeds /\ ip = Q(r).ip
  <2>1. /\ Q(r)' = Q(r) /\ (Screened(r)' <=> Screened(r))
        /\ (StagePassRuns(r)' <=> StagePassRuns(r))
    BY <1>3, SameStable
  <2>2. Finding(Q(r))' <=> Finding(Q(r))
    BY <1>3, <2>1 DEF Finding, MetadataScanned, Bypassed, Same
  <2>3. Spared(r)' <=> gate[r] = "whitelisted"
    BY <1>1, <1>3, <2>1, SparedStable DEF GateTells, Same
  <2> QED BY <1>4, <2>1, <2>2, <2>3 DEF CountedByMetadata, Counted
<1>7. counts'[ip]["detection"] =
          IF feeds /\ ip = Q(r).ip
          THEN counts[ip]["detection"] + 1 ELSE counts[ip]["detection"]
  <2>1. ~TierRefuses(Q(r).ip, gate[r]) /\ ~Throttled(Q(r).ip, gate[r])
    <3>1. cfg.store = "memory"
      BY <1>1, PipelineAssumption DEF TypeOK
    <3> QED BY <3>1 DEF TierRefuses, Throttled, StoreFails
  <2>2. counts' = IF StagePassRuns(r) /\ Finding(Q(r))
                  THEN FeedCounts(Q(r).ip, gate[r]) ELSE counts
    BY <2>1 DEF StagePass, TierCounts
  <2> QED BY <1>1, <2>2, FeedCountsOne
<1> QED BY <1>2, <1>5, <1>6, <1>7 DEF CountsMove

\* The data guard counts it again where it scans the same views, and the body's
\* own finding; it counts nothing for a request it stops.
LEMMA ScreenBodyCountsPassive ==
    ASSUME IInv, NEW r \in Requests, GateTells(r), cfg.passive, ScreenBody(r), NEW ip \in Ips
    PROVE  CountsMove(r, ip)
<1> DEFINE g == gate[r]
           feeds == Enforces(r) /\ Counted(Q(r).ip, g)
<1>1. /\ TypeOK /\ Way(r) /\ pc[r] = "screen" /\ ~ran[r] /\ DataGuarded(Q(r))
      /\ metadata[r] # NoVerdict
  BY DEF IInv, Way, Buffered, Evaluating, ScreenBody
<1>2. Same(r) /\ metadata' = metadata /\ barred' = barred /\ ran' = ran
  BY DEF ScreenBody, Same, environment
<1>3. pc'[r] = IF ScreenVerdict(r) = Clean THEN "handler" ELSE "catch"
  BY <1>1 DEF ScreenBody, GuardError, Goto, TypeOK
<1>4. (r \in CountedByMetadata(ip))' <=> r \in CountedByMetadata(ip)
  BY <1>2, CountedStable
<1>5. r \notin CountedByBody(ip)
  BY <1>1 DEF CountedByBody
<1>6. counts'[ip]["detection"] =
          IF feeds /\ ip = Q(r).ip
          THEN counts[ip]["detection"] + 1 ELSE counts[ip]["detection"]
  BY <1>1, FeedCountsOne DEF ScreenBody
<1>7. (r \in CountedByBody(ip))' <=> /\ Q(r).ip = ip /\ g # "whitelisted"
                                     /\ ScreenVerdict(r) = Clean
                                     /\ BodyScanned(Q(r)) /\ ScanFlags(Q(r))
  <2>1. Q(r)' = Q(r) /\ gate'[r] = g /\ ~ran'[r] /\ cfg' = cfg
    BY <1>1, <1>2 DEF Same, Q
  <2>2. DataGuarded(Q(r))'
    BY <1>1, <2>1 DEF DataGuarded
  <2>3. ScreenVerdict(r) = Clean => metadata[r] = Clean
    BY <1>1 DEF ScreenVerdict, StashedVerdict
  <2>4. ScreenVerdict(r) = Clean => (Spared(r)' <=> g = "whitelisted")
    BY <2>1, <2>3, SparedStable DEF GateTells
  <2> QED BY <1>3, <2>1, <2>2, <2>4 DEF CountedByBody, BodyScanned, ScanFlags
<1>8. Enforces(r) <=> ScreenVerdict(r) = Clean /\ BodyScanned(Q(r)) /\ ScanFlags(Q(r))
  <2>1. Enforces(r) => ScreenVerdict(r) = Clean
    <3>1. FeedAnswer(Q(r).ip, g) = NoVerdict
      BY <1>1, PassiveStage
    <3> QED BY <3>1 DEF Enforces, ScreenVerdict, FindingVerdict
  <2>2. Failed # Clean
    BY VerdictTypes
  <2>3. ScreenVerdict(r) = Clean /\ BodyScanned(Q(r)) =>
           StashedVerdict(r) = Clean /\ ~ScanPanics(Q(r))
    BY <2>2 DEF ScreenVerdict
  <2> QED BY <2>1, <2>3 DEF Enforces
<1>9. (r \in CountedByBody(ip))' <=> feeds /\ ip = Q(r).ip
  BY <1>7, <1>8 DEF Counted
<1> QED BY <1>4, <1>5, <1>6, <1>9 DEF CountsMove

\* A request that makes no step stays counted by the phases that counted it.
LEMMA AsideCounted ==
    ASSUME NEW s \in Requests, Aside(s)
    PROVE  \A ip : /\ (s \in CountedByMetadata(ip))' <=> s \in CountedByMetadata(ip)
                   /\ (s \in CountedByBody(ip))' <=> s \in CountedByBody(ip)
BY CountedStable DEF Aside

LEMMA PassiveStays ==
    ASSUME PassiveInv, cfg' = cfg, counts' = counts, \A s \in Requests : Aside(s)
    PROVE  PassiveInv'
<1>1. ASSUME NEW ip
      PROVE  /\ CountedByMetadata(ip)' = CountedByMetadata(ip)
             /\ CountedByBody(ip)' = CountedByBody(ip)
  BY AsideCounted DEF CountedByMetadata, CountedByBody
<1> QED BY <1>1 DEF PassiveInv

LEMMA NextPassive ==
    ASSUME IInv, GateInv, \A s \in Requests : NotYetBarred(s), PassiveInv, [Next]_vars
    PROVE  PassiveInv'
<1>1. TypeOK /\ cfg' = cfg /\ \A s \in Requests : NotYetBarred(s) /\ GateTells(s)
  BY ConfigurationStays DEF IInv, GateInv
<1>2. CASE EnvironmentStep
  <2>1. counts' = counts
    BY <1>2 DEF EnvironmentStep, Tick, StoreFlips, Reset, OperatorBan, OperatorUnban, vars, stores
  <2> QED BY <1>1, <1>2, <2>1, EnvironmentAside, PassiveStays
<1>3. ASSUME NEW r \in Requests, Arrive(r) \/ Progress(r), cfg.passive, NEW ip \in Ips
      PROVE  /\ IsFiniteSet(CountedByMetadata(ip)') /\ IsFiniteSet(CountedByBody(ip)')
             /\ counts'[ip]["detection"] =
                   Cardinality(CountedByMetadata(ip)') + Cardinality(CountedByBody(ip)')
  <2> DEFINE M == CountedByMetadata(ip)
             B == CountedByBody(ip)
             c == counts[ip]["detection"]
             d == counts'[ip]["detection"]
  <2>1. \A s \in Requests \ {r} : Aside(s)
    BY <1>1, <1>3, OthersAside
  <2>2. M \ {r} = M' \ {r} /\ B \ {r} = B' \ {r}
    <3>1. \A s \in Requests \ {r} : (s \in M' <=> s \in M) /\ (s \in B' <=> s \in B)
      BY <2>1, AsideCounted
    <3> QED BY <3>1 DEF CountedByMetadata, CountedByBody
  <2>3. IsFiniteSet(M) /\ IsFiniteSet(B) /\ c = Cardinality(M) + Cardinality(B)
    BY <1>3 DEF PassiveInv
  <2>4. CountsMove(r, ip)
    BY <1>1, <1>3, EarlyCountsNothing, LateCountsNothing, StagePassCountsPassive,
       ScreenBodyCountsPassive DEF Progress
  <2>5. \/ d = c /\ (r \in M' <=> r \in M) /\ (r \in B' <=> r \in B)
        \/ d = c + 1 /\ (r \in B' <=> r \in B) /\ r \notin M /\ r \in M'
        \/ d = c + 1 /\ (r \in M' <=> r \in M) /\ r \notin B /\ r \in B'
    BY <2>4 DEF CountsMove
  <2>6. Cardinality(M) \in Nat /\ Cardinality(B) \in Nat
    BY <2>3, FS_CardinalityType
  <2> HIDE DEF M, B, c, d
  <2>7. ASSUME NEW A, NEW C, IsFiniteSet(A), A \ {r} = C \ {r}
        PROVE  /\ (r \in A <=> r \in C) => C = A
               /\ r \notin A /\ r \in C =>
                     IsFiniteSet(C) /\ Cardinality(C) = Cardinality(A) + 1
    BY <2>7, Tally
  <2>8. IsFiniteSet(M') /\ IsFiniteSet(B') /\ d = Cardinality(M') + Cardinality(B')
    BY <2>2, <2>3, <2>5, <2>6, <2>7
  <2> QED BY <2>8 DEF M, B, d
<1> QED BY <1>1, <1>2, <1>3, StepCases DEF PassiveInv

LEMMA InitPassive == Init => PassiveInv
<1> SUFFICES ASSUME Init, NEW ip \in Ips
             PROVE  /\ IsFiniteSet(CountedByMetadata(ip)) /\ IsFiniteSet(CountedByBody(ip))
                    /\ counts[ip]["detection"] =
                          Cardinality(CountedByMetadata(ip)) + Cardinality(CountedByBody(ip))
  BY DEF PassiveInv
<1>1. CountedByMetadata(ip) = {} /\ CountedByBody(ip) = {}
  BY VerdictTypes DEF Init, CountedByMetadata, CountedByBody
<1>2. counts[ip]["detection"] = 0
  BY DEF Init, StageInit, Categories
<1> QED BY <1>1, <1>2, FS_EmptySet

\* In passive mode the counter of an address is the findings of its requests that
\* reached the stage pass and of those the data guard let through, each counted
\* once by the phase: a request stopped before a phase has added nothing there.
THEOREM PassiveIsAccounted == Spec => []PassiveCountsPerPhase
<1>1. PassiveInv => PassiveCountsPerPhase
  BY DEF PassiveInv, PassiveCountsPerPhase
<1>2. DetectionInv => \A s \in Requests : NotYetBarred(s)
  BY DEF DetectionInv
<1>3. IInv /\ GateInv /\ DetectionInv /\ PassiveInv /\ [Next]_vars => PassiveInv'
  BY <1>2, NextPassive
<1> QED BY <1>1, <1>3, InitPassive, AlwaysIInv, AlwaysGate, AlwaysDetection, PTL DEF Spec

----------------------------------------------------------------------------
(* The bans follow the counters.                                           *)

\* What a step does to the bans, and what it must have counted for it.
BansFollow(ip) == (bans'[ip] > bans[ip] => Earned(ip)) /\ BansAtOnce(ip)

\* A step that counts no violation and bans nobody.
LEMMA NothingEarned ==
    ASSUME TypeOK, NEW ip \in Ips, counts'[ip] = counts[ip], ~(bans'[ip] > bans[ip])
    PROVE  BansFollow(ip)
<1>1. \A c \in Categories : counts[ip][c] \in Nat
  BY DEF TypeOK, StageTypeOK
<1> QED BY <1>1 DEF BansFollow, BansAtOnce, ReachesThreshold

\* One more violation of a category, and the ban if it reaches the threshold:
\* the counter and the ban are of one address and move together.
LEMMA CrossingEarns ==
    ASSUME TypeOK, NEW i \in Ips, NEW c \in Categories, NEW ip \in Ips, cfg.banning,
           counts' = CountsAfter(i, c),
           bans' = IF Crosses(i, c) THEN BanUntil(i) ELSE bans
    PROVE  BansFollow(ip)
<1>1. /\ counts \in [Ips -> [Categories -> Nat]] /\ bans \in [Ips -> Nat]
      /\ now \in Nat /\ BanFor \in Nat /\ Threshold \in Nat
  BY StageAssumption DEF TypeOK, StageTypeOK, Times
<1>2. /\ counts'[i][c] = counts[i][c] + 1
      /\ \A d \in Categories : ip # i \/ d # c => counts'[ip][d] = counts[ip][d]
  BY <1>1 DEF CountsAfter
<1>3. \A d \in Categories : ReachesThreshold(ip, d) => ip = i /\ d = c
  BY <1>1, <1>2 DEF ReachesThreshold
<1>4. CASE ip = i /\ Crosses(i, c)
  <2>1. bans'[ip] = now + BanFor
    BY <1>1, <1>4 DEF BanUntil
  <2>2. ~cfg.passive /\ cfg.banning /\ ReachesThreshold(ip, c)
    BY <1>1, <1>2, <1>4 DEF Crosses, ReachesThreshold
  <2> QED BY <2>1, <2>2 DEF BansFollow, Earned, BansAtOnce
<1>5. CASE ~(ip = i /\ Crosses(i, c))
  <2>1. bans'[ip] = bans[ip] /\ ~(bans'[ip] > bans[ip])
    BY <1>1, <1>5 DEF BanUntil
  <2>2. ASSUME NEW d \in Categories, ~cfg.passive, ReachesThreshold(ip, d) PROVE FALSE
    BY <1>1, <1>2, <1>3, <1>5, <2>2 DEF Crosses, ReachesThreshold
  <2> QED BY <2>1, <2>2 DEF BansFollow, BansAtOnce
<1> QED BY <1>4, <1>5

\* Without the auto-ban a violation may be counted, and calls for nothing.
LEMMA NoBanCalledFor ==
    ASSUME TypeOK, NEW ip \in Ips, bans' = bans, ~cfg.banning \/ cfg.passive
    PROVE  BansFollow(ip)
<1>1. ~(bans'[ip] > bans[ip])
  BY DEF TypeOK, StageTypeOK
<1> QED BY <1>1 DEF BansFollow, BansAtOnce

LEMMA FeedEarns ==
    ASSUME TypeOK, NEW i, NEW g, NEW ip \in Ips,
           counts' = FeedCounts(i, g), bans' = FeedBans(i, g)
    PROVE  BansFollow(ip)
<1>1. CASE ~Counted(i, g)
  <2>1. counts' = counts /\ bans' = bans
    BY <1>1 DEF FeedCounts, FeedBans
  <2>2. ~(bans'[ip] > bans[ip])
    BY <2>1 DEF TypeOK, StageTypeOK
  <2> QED BY <2>1, <2>2, NothingEarned
<1>2. CASE Counted(i, g) /\ ~cfg.banning
  BY <1>2, NoBanCalledFor DEF FeedBans, Crosses
<1>3. CASE Counted(i, g) /\ cfg.banning
  BY <1>3, CrossingEarns DEF FeedCounts, FeedBans, Counted, Categories
<1> QED BY <1>1, <1>2, <1>3

\* The tiers ban for a rate-limit violation, or for a detection they let pass.
LEMMA TiersEarn ==
    ASSUME TypeOK, NEW i, NEW g, NEW finding, NEW ip \in Ips,
           counts' = TierCounts(i, g, finding), bans' = TierBans(i, g, finding)
    PROVE  BansFollow(ip)
<1>1. ASSUME counts' = counts, bans' = bans PROVE BansFollow(ip)
  <2>1. ~(bans'[ip] > bans[ip])
    BY <1>1 DEF TypeOK, StageTypeOK
  <2> QED BY <1>1, <2>1, NothingEarned
<1>2. CASE Throttled(i, g)
  <2>1. i \in Ips /\ "rate_limit" \in Categories
    BY <1>2 DEF Throttled, OverLimit, Records, Throttles, Categories
  <2>2. CASE cfg.rateBan /\ cfg.banning
    BY <1>2, <2>1, <2>2, CrossingEarns DEF TierCounts, TierBans
  <2>3. CASE ~(cfg.rateBan /\ cfg.banning)
    BY <1>1, <1>2, <2>3 DEF TierCounts, TierBans, Crosses
  <2> QED BY <2>2, <2>3
<1>3. CASE ~Throttled(i, g) /\ finding /\ ~TierRefuses(i, g)
  BY <1>3, FeedEarns DEF TierCounts, TierBans
<1>4. CASE ~Throttled(i, g) /\ ~(finding /\ ~TierRefuses(i, g))
  BY <1>1, <1>4 DEF TierCounts, TierBans
<1> QED BY <1>2, <1>3, <1>4

\* A rule of the processor bans the request's own client, in the stage's
\* manager if the two share it.
LEMMA RuleEarns ==
    ASSUME TypeOK, NEW r \in Requests, NEW ip \in Ips, counts' = counts,
           \/ bans' = bans
           \/ bans' = ProcessorBan(Q(r).ip) /\ (cfg.sharedBans => RuleBans(r))
    PROVE  BansFollow(ip)
<1>1. bans \in [Ips -> Nat]
  BY DEF TypeOK, StageTypeOK
<1>2. CASE Q(r).ip = ip /\ cfg.sharedBans /\ bans' = ProcessorBan(Q(r).ip)
  <2>1. bans' = bans \/ Earned(ip)
    BY <1>2 DEF Earned
  <2>2. BansAtOnce(ip)
    BY <1>1 DEF BansAtOnce, ReachesThreshold, TypeOK, StageTypeOK
  <2>3. bans' = bans => ~(bans'[ip] > bans[ip])
    BY <1>1
  <2> QED BY <2>1, <2>2, <2>3 DEF BansFollow
<1>3. CASE ~(Q(r).ip = ip /\ cfg.sharedBans /\ bans' = ProcessorBan(Q(r).ip))
  <2>1. bans'[ip] = bans[ip]
    BY <1>1, <1>3 DEF ProcessorBan, BanUntil
  <2>2. ~(bans'[ip] > bans[ip])
    BY <1>1, <2>1
  <2> QED BY <2>2, NothingEarned
<1> QED BY <1>2, <1>3

\* Each step of a request.
LEMMA RequestBansFollow ==
    ASSUME TypeOK, NEW r \in Requests, pc[r] = "preamble" => ~barred[r],
           Arrive(r) \/ Progress(r), NEW ip \in Ips
    PROVE  BansFollow(ip)
<1> USE DEF environment, stores
<1>1. CASE \/ Arrive(r) \/ ExcludedPath(r) \/ Preflight(r) \/ EvaluateGates(r) \/ BanArm(r)
           \/ LateRefusal(r)
  BY <1>1, RuleEarns DEF Arrive, ExcludedPath, Preflight, EvaluateGates, BanArm, LateRefusal
<1>2. CASE Route(r) \/ CheckBlockGuard(r) \/ ReadBody(r) \/ RunHandler(r) \/ Catch(r)
  BY <1>2, RuleEarns DEF Route, CheckBlockGuard, ReadBody, RunHandler, Catch
<1>3. CASE ResolveCarrier(r)
  <2>1. counts' = counts
    BY <1>3 DEF ResolveCarrier
  <2>2. CASE Q(r).badRates \/ ~UsageBans(r)
    BY <1>3, <2>1, <2>2, RuleEarns DEF ResolveCarrier
  <2>3. CASE ~Q(r).badRates /\ UsageBans(r)
    <3>1. bans' = ProcessorBan(Q(r).ip) /\ barred'[r]
      BY <1>3, <2>3 DEF ResolveCarrier, TypeOK
    <3>2. ~barred[r]
      BY <1>3 DEF ResolveCarrier
    <3>3. cfg.sharedBans => RuleBans(r)
      BY <2>3, <3>1, <3>2 DEF RuleBans, UsageBans, Observes
    <3> QED BY <2>1, <3>1, <3>3, RuleEarns
  <2> QED BY <2>2, <2>3
<1>4. CASE StagePass(r)
  <2>1. CASE StagePassRuns(r)
    BY <1>4, <2>1, TiersEarn DEF StagePass
  <2>2. CASE ~StagePassRuns(r)
    BY <1>4, <2>2, RuleEarns DEF StagePass
  <2> QED BY <2>1, <2>2
<1>5. CASE ScreenBody(r)
  <2>1. CASE Enforces(r)
    BY <1>5, <2>1, FeedEarns DEF ScreenBody
  <2>2. CASE ~Enforces(r)
    BY <1>5, <2>2, RuleEarns DEF ScreenBody
  <2> QED BY <2>1, <2>2
<1>6. CASE OnResponse(r)
  <2>1. counts' = counts /\ pc[r] = "respond" /\ pc'[r] = "done"
    BY <1>6 DEF OnResponse, Finish, Goto, TypeOK
  <2>2. \/ bans' = bans
        \/ bans' = ProcessorBan(Q(r).ip) /\ ReturnBans(Shielded(r)) /\ cfg.processor
    BY <1>6 DEF OnResponse
  <2>3. ReturnBans(Shielded(r)) /\ cfg.processor => (cfg.sharedBans => RuleBans(r))
    BY <2>1 DEF ReturnBans, RuleBans
  <2> QED BY <2>1, <2>2, <2>3, RuleEarns
<1> QED BY <1>1, <1>2, <1>3, <1>4, <1>5, <1>6 DEF Progress

LEMMA NextBansFollow ==
    ASSUME TypeOK, Outcomes, [Next]_vars, NEW ip \in Ips
    PROVE  BansFollow(ip)
<1>1. bans \in [Ips -> Nat] /\ now \in Nat /\ BanFor \in Nat
  BY StageAssumption DEF TypeOK, StageTypeOK, Times
<1>2. CASE \E i \in Ips : OperatorBan(i)
  <2>1. Earned(ip)
    BY <1>2 DEF OperatorBan, Earned, localVars
  <2>2. BansAtOnce(ip)
    BY <1>2 DEF OperatorBan, BansAtOnce, ReachesThreshold, TypeOK, StageTypeOK
  <2> QED BY <2>1, <2>2 DEF BansFollow
<1>3. CASE EnvironmentStep /\ ~\E i \in Ips : OperatorBan(i)
  <2>1. counts' = counts
    BY <1>3 DEF EnvironmentStep, Tick, StoreFlips, Reset, OperatorUnban, vars, stores
  <2>2. ~(bans'[ip] > bans[ip])
    BY <1>1, <1>3 DEF EnvironmentStep, Tick, StoreFlips, Reset, OperatorUnban, vars, stores
  <2> QED BY <2>1, <2>2, NothingEarned
<1>4. \A r \in Requests : pc[r] = "preamble" => ~barred[r]
  BY DEF Outcomes, OutcomeWay
<1> QED BY <1>2, <1>3, <1>4, StepCases, RequestBansFollow

\* An address is banned only in the step in which its own violation or usage
\* counter, its own answer or the operator calls for it, and the violation
\* that reaches the threshold never leaves its ban outstanding; a processor
\* with a ban manager of its own bans nobody in the stage's.
THEOREM BansFollowCounters == Spec => BansAreEarned
<1>1. IInv /\ Outcomes /\ [Next]_vars =>
         [\A ip \in Ips : (bans'[ip] > bans[ip] => Earned(ip)) /\ BansAtOnce(ip)]_vars
  BY NextBansFollow DEF IInv, BansFollow
<1> QED BY <1>1, AlwaysIInv, AlwaysOutcome, PTL DEF Spec, OutcomeInv, BansAreEarned

----------------------------------------------------------------------------
(* The windows.                                                            *)

\* The hits of a log that a window up to t counts.
StillCounted(log, t) == LogWindow(log, t, Window)

LEMMA HitAppended ==
    ASSUME NEW log \in Seq(Times), NEW at \in Times, NEW t
    PROVE  /\ IsFiniteSet(StillCounted(log, t))
           /\ t < at + Window =>
                 Cardinality(StillCounted(Append(log, at), t))
                     = Cardinality(StillCounted(log, t)) + 1
           /\ ~(t < at + Window) => StillCounted(Append(log, at), t) = StillCounted(log, t)
BY LogAppended DEF StillCounted

\* The requests of an address whose hit a backend holds ...
SpentOf(ip, b) == {r \in Requests : Q(r).ip = ip /\ spent[r].store = b}

\* ... those whose hit a window up to t still counts ...
FreshOf(ip, b, t) == {r \in SpentOf(ip, b) : t < spent[r].at + Window}

\* ... and the entries of the backend that it counts.
EntriesOf(ip, b, t) == StillCounted(windows[b][ip], t)

\* A backend holds an entry at least for each hit a request recorded there:
\* what a check compares with the limit is never less than what was admitted.
HitsHeld(ip, b) ==
    /\ IsFiniteSet(SpentOf(ip, b))
    /\ \A t \in Times : Cardinality(FreshOf(ip, b, t)) <= Cardinality(EntriesOf(ip, b, t))

LimitKept(ip, b) ==
    ~cfg.passive => \A t \in 0..now : Cardinality(Admitted(ip, b, t)) <= Limit

WindowInv ==
    /\ \A r \in Requests :
          /\ pc[r] \in Evaluating \cup {"idle"} => spent[r] = NoHit
          /\ spent[r].at <= now
    /\ \A ip \in Ips, b \in Backends : HitsHeld(ip, b) /\ LimitKept(ip, b)

LEMMA EntriesFinite ==
    ASSUME TypeOK, NEW ip \in Ips, NEW b \in Backends, NEW t
    PROVE  IsFiniteSet(EntriesOf(ip, b, t)) /\ Cardinality(EntriesOf(ip, b, t)) \in Nat
<1>1. windows[b][ip] \in Seq(Times) /\ now \in Times
  BY DEF TypeOK, StageTypeOK
<1> QED BY <1>1, HitAppended, FS_CardinalityType DEF EntriesOf

\* What the limit bounds is among what the windows still count.
LEMMA AdmittedIsFresh ==
    ASSUME NEW ip, NEW b, NEW t, IsFiniteSet(SpentOf(ip, b))
    PROVE  /\ IsFiniteSet(FreshOf(ip, b, t)) /\ IsFiniteSet(Admitted(ip, b, t))
           /\ Cardinality(FreshOf(ip, b, t)) \in Nat
           /\ Cardinality(Admitted(ip, b, t)) \in Nat
           /\ Cardinality(Admitted(ip, b, t)) <= Cardinality(FreshOf(ip, b, t))
<1>1. FreshOf(ip, b, t) \in SUBSET SpentOf(ip, b)
  BY DEF FreshOf
<1>2. Admitted(ip, b, t) \in SUBSET FreshOf(ip, b, t)
  BY DEF Admitted, FreshOf, SpentOf
<1>3. IsFiniteSet(FreshOf(ip, b, t))
  BY <1>1, FS_Subset
<1>4. /\ IsFiniteSet(Admitted(ip, b, t))
      /\ Cardinality(Admitted(ip, b, t)) <= Cardinality(FreshOf(ip, b, t))
  BY <1>2, <1>3, FS_Subset
<1> QED BY <1>3, <1>4, FS_CardinalityType

\* A request that has spent nothing is in none of the sets.
LEMMA UnspentIsNowhere ==
    ASSUME NEW r, spent[r] = NoHit, NEW ip, NEW b \in Backends
    PROVE  r \notin SpentOf(ip, b) /\ \A t : r \notin Admitted(ip, b, t)
BY DEF SpentOf, Admitted, NoHit, Backends

\* Steps that record no hit and forget none: the clock at most goes on.
LEMMA WindowsStay ==
    ASSUME TypeOK, WindowInv, cfg' = cfg, windows' = windows, spent' = spent,
           now' \in {now, now + 1},
           \A s \in Requests :
               \/ spent[s] = NoHit
               \/ Q(s)' = Q(s) /\ metadata'[s] = metadata[s],
           NEW ip \in Ips, NEW b \in Backends
    PROVE  HitsHeld(ip, b)' /\ LimitKept(ip, b)'
<1>1. now \in Nat /\ now' \in Nat /\ HitsHeld(ip, b) /\ LimitKept(ip, b)
  BY StageAssumption DEF TypeOK, StageTypeOK, Times, WindowInv
<1>2. SpentOf(ip, b)' = SpentOf(ip, b)
  BY DEF SpentOf, NoHit, Backends
<1>3. \A t : FreshOf(ip, b, t)' = FreshOf(ip, b, t)
  BY <1>2 DEF FreshOf
<1>4. \A t : EntriesOf(ip, b, t)' = EntriesOf(ip, b, t)
  BY DEF EntriesOf, StillCounted, LogWindow
<1>5. HitsHeld(ip, b)'
  BY <1>1, <1>2, <1>3, <1>4 DEF HitsHeld
<1>6. \A t : Admitted(ip, b, t)' = Admitted(ip, b, t)
  BY DEF Admitted, NoHit, Backends
<1>7. ASSUME ~cfg.passive, NEW t \in 0..now' PROVE Cardinality(Admitted(ip, b, t)) <= Limit
  <2>1. CASE t \in 0..now
    BY <1>1, <1>7, <2>1 DEF LimitKept
  <2>2. CASE t = now + 1
    <3>1. now \in 0..now /\ IsFiniteSet(SpentOf(ip, b))
      BY <1>1 DEF HitsHeld
    <3>2. Cardinality(Admitted(ip, b, now)) <= Limit
      BY <1>1, <1>7, <3>1 DEF LimitKept
    <3>3. \A s \in Requests : spent[s].at <= now /\ spent[s].at \in Nat
      BY StageAssumption DEF WindowInv, TypeOK, Times
    <3>4. Admitted(ip, b, t) \in SUBSET Admitted(ip, b, now)
      BY <1>1, <2>2, <3>3, StageAssumption DEF Admitted
    <3>5. Cardinality(Admitted(ip, b, t)) <= Cardinality(Admitted(ip, b, now))
      BY <3>1, <3>4, AdmittedIsFresh, FS_Subset
    <3>6. /\ Cardinality(Admitted(ip, b, t)) \in Nat
          /\ Cardinality(Admitted(ip, b, now)) \in Nat
      BY <3>1, AdmittedIsFresh
    <3> QED BY <3>2, <3>5, <3>6, StageAssumption
  <2> QED BY <1>1, <1>7, <2>1, <2>2
<1> QED BY <1>5, <1>6, <1>7 DEF LimitKept

\* A hit is appended to the log of its address and backend, and to no other.
LEMMA EntryAppended ==
    ASSUME TypeOK, NEW i \in Ips, NEW b \in Backends, b = Backend, windows' = WindowsAfter(i)
    PROVE  /\ \A ip \in Ips, c \in Backends :
                 ip # i \/ c # b => \A t : EntriesOf(ip, c, t)' = EntriesOf(ip, c, t)
           /\ \A t : t < now + Window =>
                 Cardinality(EntriesOf(i, b, t)') = Cardinality(EntriesOf(i, b, t)) + 1
           /\ \A t : ~(t < now + Window) => EntriesOf(i, b, t)' = EntriesOf(i, b, t)
<1>1. windows \in [Backends -> [Ips -> Seq(Times)]] /\ now \in Times
  BY DEF TypeOK, StageTypeOK
<1>2. /\ windows[b][i] \in Seq(Times) /\ windows'[b][i] = Append(windows[b][i], now)
      /\ \A ip \in Ips, c \in Backends : ip # i \/ c # b => windows'[c][ip] = windows[c][ip]
  BY <1>1 DEF WindowsAfter
<1>3. \A ip \in Ips, c \in Backends :
         ip # i \/ c # b => \A t : EntriesOf(ip, c, t)' = EntriesOf(ip, c, t)
  BY <1>2 DEF EntriesOf, StillCounted, LogWindow
<1> QED BY <1>1, <1>2, <1>3, HitAppended DEF EntriesOf

\* A hit the stage pass records counts against the limit if the request is
\* let through, and then was compared with every hit that is still fresh.
LEMMA HitRecorded ==
    ASSUME IInv, WindowInv, NEW r \in Requests, StagePass(r), windows' # windows,
           NEW ip \in Ips, NEW b \in Backends
    PROVE  HitsHeld(ip, b)' /\ LimitKept(ip, b)'
<1> DEFINE i == Q(r).ip
<1>1. /\ TypeOK /\ pc[r] = "tiers" /\ spent[r] = NoHit
      /\ HitsHeld(ip, b) /\ LimitKept(ip, b)
  BY DEF IInv, WindowInv, StagePass, Evaluating
<1>2. /\ cfg' = cfg /\ now' = now /\ Q(r)' = Q(r) /\ req' = req
      /\ \A s \in Requests \ {r} : metadata'[s] = metadata[s] /\ spent'[s] = spent[s]
      /\ spent'[r] = [store |-> Backend, at |-> now]
  BY <1>1 DEF StagePass, TrackHit, Return, FirstWins, environment, Q, TypeOK
<1>3. StagePassRuns(r) /\ Records(i, gate[r]) /\ windows' = WindowsAfter(i) /\ i \in Ips
  BY DEF StagePass, TierWindows, Records, Throttles
<1>4. now \in Nat /\ now \in Times /\ Window \in Nat \ {0} /\ Limit \in Nat
  BY <1>1, StageAssumption DEF TypeOK, StageTypeOK, Times
<1>5. r \notin SpentOf(ip, b) /\ \A t : r \notin FreshOf(ip, b, t) /\ r \notin Admitted(ip, b, t)
  BY <1>1, UnspentIsNowhere DEF FreshOf
<1>6. CASE ip # i \/ b # Backend
  <2>1. SpentOf(ip, b)' = SpentOf(ip, b)
    BY <1>2, <1>5, <1>6 DEF SpentOf, Q
  <2>2. \A t : FreshOf(ip, b, t)' = FreshOf(ip, b, t)
    BY <1>2, <1>5, <2>1 DEF FreshOf, SpentOf
  <2>3. \A t : EntriesOf(ip, b, t)' = EntriesOf(ip, b, t)
    BY <1>1, <1>3, <1>6, EntryAppended DEF Backend, Backends
  <2>4. \A t : Admitted(ip, b, t)' = Admitted(ip, b, t)
    BY <1>2, <1>5, <1>6 DEF Admitted, Q
  <2> QED BY <1>1, <1>2, <2>1, <2>2, <2>3, <2>4 DEF HitsHeld, LimitKept
<1>7. CASE ip = i /\ b = Backend
  <2>1. SpentOf(ip, b)' = SpentOf(ip, b) \cup {r}
    BY <1>2, <1>7 DEF SpentOf, Q
  <2>2. ASSUME NEW t
        PROVE  FreshOf(ip, b, t)' = IF t < now + Window
                                    THEN FreshOf(ip, b, t) \cup {r} ELSE FreshOf(ip, b, t)
    BY <1>2, <1>5, <2>1 DEF FreshOf, SpentOf
  <2>3. IsFiniteSet(SpentOf(ip, b)) /\ IsFiniteSet(SpentOf(ip, b)')
    BY <1>1, <2>1, FS_AddElement DEF HitsHeld
  <2>4. ASSUME NEW t \in Times
        PROVE  Cardinality(FreshOf(ip, b, t)') <= Cardinality(EntriesOf(ip, b, t)')
    <3>1. /\ Cardinality(FreshOf(ip, b, t)) <= Cardinality(EntriesOf(ip, b, t))
          /\ IsFiniteSet(FreshOf(ip, b, t)) /\ IsFiniteSet(EntriesOf(ip, b, t))
          /\ Cardinality(FreshOf(ip, b, t)) \in Nat /\ Cardinality(EntriesOf(ip, b, t)) \in Nat
      BY <1>1, <2>3, AdmittedIsFresh, EntriesFinite DEF HitsHeld
    <3>2. CASE t < now + Window
      <4>1. Cardinality(FreshOf(ip, b, t)') = Cardinality(FreshOf(ip, b, t)) + 1
        BY <1>5, <2>2, <3>1, <3>2, FS_AddElement
      <4>2. Cardinality(EntriesOf(ip, b, t)') = Cardinality(EntriesOf(ip, b, t)) + 1
        BY <1>1, <1>3, <1>7, <3>2, EntryAppended
      <4> QED BY <3>1, <4>1, <4>2
    <3>3. CASE ~(t < now + Window)
      BY <1>1, <1>3, <1>7, <2>2, <3>1, <3>3, EntryAppended
    <3> QED BY <3>2, <3>3
  <2>5. HitsHeld(ip, b)'
    BY <2>3, <2>4 DEF HitsHeld
  <2>6. ASSUME ~cfg.passive, NEW t \in 0..now
        PROVE  Cardinality(Admitted(ip, b, t)') <= Limit
    <3>1. Cardinality(Admitted(ip, b, t)) <= Limit
      BY <1>1, <2>6 DEF LimitKept
    <3>2. \A s \in Requests \ {r} : s \in Admitted(ip, b, t)' <=> s \in Admitted(ip, b, t)
      BY <1>2 DEF Admitted, Q
    <3>3. CASE r \notin Admitted(ip, b, t)'
      <4>1. Admitted(ip, b, t)' = Admitted(ip, b, t)
        BY <1>5, <3>2, <3>3 DEF Admitted
      <4> QED BY <3>1, <4>1
    <3>4. CASE r \in Admitted(ip, b, t)'
      <4>1. t = now /\ metadata'[r].kind # "RateLimited"
        BY <1>2, <1>4, <2>6, <3>4 DEF Admitted
      <4>2. metadata'[r] = FinalVerdict(r)
        BY <1>1, VerdictTypes DEF StagePass, Return, FirstWins, IInv, Way, Evaluating, TypeOK
      <4>3. ~Throttled(i, gate[r])
        <5> SUFFICES ASSUME Throttled(i, gate[r]) PROVE FALSE
          OBVIOUS
        <5>1. StageAnswer(r) = RateLimited(Window)
          BY <1>3 DEF StageAnswer, TierAnswer, Records
        <5>2. RateLimited(Window).kind = "RateLimited" /\ RateLimited(Window) # NoVerdict
          BY DEF RateLimited, NoVerdict
        <5> QED BY <4>1, <4>2, <5>1, <5>2 DEF FinalVerdict
      <4>4. ~(Hits(b, ip) + 1 > Limit)
        BY <1>3, <1>7, <2>6, <4>3 DEF Throttled, OverLimit
      <4>5. Hits(b, ip) = Cardinality(EntriesOf(ip, b, now))
        BY DEF Hits, EntriesOf, StillCounted, LogWindow
      <4>6. Cardinality(FreshOf(ip, b, now)) <= Cardinality(EntriesOf(ip, b, now))
        BY <1>1, <1>4 DEF HitsHeld
      <4>7. /\ Cardinality(Admitted(ip, b, now)) <= Cardinality(FreshOf(ip, b, now))
            /\ IsFiniteSet(Admitted(ip, b, now))
            /\ Cardinality(FreshOf(ip, b, now)) \in Nat
            /\ Cardinality(Admitted(ip, b, now)) \in Nat
            /\ Cardinality(EntriesOf(ip, b, now)) \in Nat
        BY <1>1, <2>3, AdmittedIsFresh, EntriesFinite
      <4>8. Admitted(ip, b, t)' = Admitted(ip, b, now) \cup {r}
        BY <3>2, <3>4, <4>1 DEF Admitted
      <4>9. Cardinality(Admitted(ip, b, t)') = Cardinality(Admitted(ip, b, now)) + 1
        BY <1>5, <4>7, <4>8, FS_AddElement
      <4> QED BY <1>4, <4>4, <4>5, <4>6, <4>7, <4>9
    <3> QED BY <3>3, <3>4
  <2>7. LimitKept(ip, b)'
    BY <1>2, <2>6 DEF LimitKept
  <2> QED BY <2>5, <2>7
<1> QED BY <1>6, <1>7

\* A reset forgets the memory windows together with the hits they hold.
LEMMA ResetForgets ==
    ASSUME TypeOK, WindowInv, Reset, NEW ip \in Ips, NEW b \in Backends
    PROVE  HitsHeld(ip, b)' /\ LimitKept(ip, b)'
<1>1. /\ cfg' = cfg /\ now' = now /\ req' = req /\ metadata' = metadata
      /\ windows' = [windows EXCEPT !["memory"] = [a \in Ips |-> <<>>]]
      /\ spent' = [r \in Requests |-> IF spent[r].store = "memory" THEN NoHit ELSE spent[r]]
      /\ windows \in [Backends -> [Ips -> Seq(Times)]] /\ now \in Nat /\ Limit \in Nat
      /\ HitsHeld(ip, b) /\ LimitKept(ip, b)
  BY StageAssumption
  DEF Reset, environment, localVars, TypeOK, StageTypeOK, Times, WindowInv
<1>2. CASE b = "memory"
  <2>1. SpentOf(ip, b)' = {} /\ \A t : FreshOf(ip, b, t)' = {} /\ Admitted(ip, b, t)' = {}
    BY <1>1, <1>2 DEF SpentOf, FreshOf, Admitted, NoHit
  <2>2. windows'[b][ip] = <<>>
    BY <1>1, <1>2
  <2>3. \A t : EntriesOf(ip, b, t)' = {}
    BY <2>2 DEF EntriesOf, StillCounted, LogWindow
  <2>4. IsFiniteSet({}) /\ Cardinality({}) = 0
    BY FS_EmptySet
  <2>5. HitsHeld(ip, b)'
    BY <2>1, <2>3, <2>4 DEF HitsHeld
  <2>6. \A t : Cardinality(Admitted(ip, b, t))' = 0
    BY <2>1, <2>4
  <2>7. LimitKept(ip, b)'
    BY <1>1, <2>6 DEF LimitKept
  <2> QED BY <2>5, <2>7
<1>3. CASE b # "memory"
  <2>1. \A r \in Requests : /\ spent'[r].store = b <=> spent[r].store = b
                            /\ spent[r].store = b => spent'[r] = spent[r]
    BY <1>1, <1>3 DEF NoHit, Backends
  <2>2. SpentOf(ip, b)' = SpentOf(ip, b)
    BY <1>1, <2>1 DEF SpentOf, Q
  <2>3. \A t : FreshOf(ip, b, t)' = FreshOf(ip, b, t)
    BY <2>1, <2>2 DEF FreshOf, SpentOf
  <2>4. \A t : Admitted(ip, b, t)' = Admitted(ip, b, t)
    BY <1>1, <2>1 DEF Admitted, Q
  <2>5. windows'[b] = windows[b]
    BY <1>1, <1>3
  <2>6. \A t : EntriesOf(ip, b, t)' = EntriesOf(ip, b, t)
    BY <2>5 DEF EntriesOf, StillCounted, LogWindow
  <2> QED BY <1>1, <2>2, <2>3, <2>4, <2>6 DEF HitsHeld, LimitKept
<1> QED BY <1>2, <1>3

\* Only the stage pass records a hit, at the end of the evaluation.
LEMMA ProgressSpends ==
    ASSUME IInv, NEW r \in Requests, Arrive(r) \/ Progress(r)
    PROVE  /\ now' = now /\ \A s \in Requests \ {r} : spent'[s] = spent[s]
           /\ \/ spent' = spent /\ windows' = windows
              \/ StagePass(r) /\ windows' # windows
           /\ \/ spent'[r] = spent[r] /\ (pc'[r] \in Evaluating \cup {"idle"} =>
                                            pc[r] \in Evaluating \cup {"idle"})
              \/ spent'[r].at = now /\ pc'[r] \notin Evaluating \cup {"idle"}
           /\ \/ pc[r] \in Evaluating \cup {"idle"}
              \/ Q(r)' = Q(r) /\ metadata'[r] = metadata[r]
<1> USE DEF environment, stores, history
<1>1. TypeOK /\ now' = now
  BY ProgressExtends DEF IInv
<1>2. CASE \/ Arrive(r) \/ ExcludedPath(r) \/ Preflight(r) \/ ResolveCarrier(r)
           \/ EvaluateGates(r) \/ BanArm(r) \/ LateRefusal(r)
  <2>1. spent' = spent /\ windows' = windows /\ pc[r] \in Evaluating \cup {"idle"}
    BY <1>2 DEF Arrive, ExcludedPath, Preflight, ResolveCarrier, EvaluateGates, BanArm,
       LateRefusal, Evaluating
  <2> QED BY <1>1, <2>1
<1>3. CASE StagePass(r)
  <2>1. pc[r] = "tiers" /\ pc'[r] = "routing"
    BY <1>1, <1>3 DEF StagePass, Return, Goto, TypeOK
  <2>2. IF windows' # windows
        THEN spent' = [spent EXCEPT ![r] = [store |-> Backend, at |-> now]]
        ELSE spent' = spent
    BY <1>1, <1>3 DEF StagePass, TrackHit, TypeOK
  <2> QED BY <1>1, <1>3, <2>1, <2>2 DEF Evaluating, TypeOK
<1>4. CASE \/ Route(r) \/ CheckBlockGuard(r) \/ ReadBody(r) \/ RunHandler(r) \/ Catch(r)
           \/ OnResponse(r)
  <2>1. spent' = spent /\ windows' = windows /\ req' = req /\ metadata' = metadata
    BY <1>4 DEF Route, CheckBlockGuard, ReadBody, RunHandler, Catch, OnResponse
  <2>2. pc'[r] \notin Evaluating \cup {"idle"}
    BY <1>1, <1>4 DEF Evaluating, Route, CheckBlockGuard, ReadBody, RunHandler, Catch,
       OnResponse, Finish, GuardError, Goto, TypeOK
  <2> QED BY <1>1, <2>1, <2>2 DEF Q
<1>5. CASE ScreenBody(r)
  <2>1. windows' = windows /\ req' = req /\ metadata' = metadata
    BY <1>5 DEF ScreenBody, BodyWindows
  <2>2. spent' = spent
    BY <1>1, <1>5, <2>1 DEF ScreenBody, TrackHit, TypeOK
  <2>3. pc'[r] \notin Evaluating \cup {"idle"}
    BY <1>1, <1>5 DEF ScreenBody, GuardError, Goto, Evaluating, TypeOK
  <2> QED BY <1>1, <2>1, <2>2, <2>3 DEF Q
<1> QED BY <1>2, <1>3, <1>4, <1>5 DEF Progress

LEMMA NextWindow ==
    ASSUME IInv, WindowInv, [Next]_vars
    PROVE  WindowInv'
<1>1. /\ TypeOK /\ cfg' = cfg /\ now \in Nat
      /\ \A s \in Requests :
            /\ pc[s] \in Evaluating \cup {"idle"} => spent[s] = NoHit
            /\ spent[s].at \in Nat /\ spent[s].at <= now
  BY ConfigurationStays, StageAssumption DEF IInv, WindowInv, TypeOK, StageTypeOK, Times
<1>2. CASE Reset
  <2>1. \A s \in Requests : pc'[s] = pc[s] /\ spent'[s] \in {spent[s], NoHit}
    BY <1>2 DEF Reset, localVars
  <2>2. now' = now /\ NoHit.at = 0
    BY <1>2 DEF Reset, environment, NoHit
  <2> QED BY <1>1, <1>2, <2>1, <2>2, ResetForgets DEF WindowInv
<1>3. CASE EnvironmentStep /\ ~Reset
  <2>1. windows' = windows /\ spent' = spent /\ now' \in {now, now + 1}
    BY <1>3
    DEF EnvironmentStep, Tick, StoreFlips, OperatorBan, OperatorUnban, vars, stores,
        environment, history
  <2>2. \A s \in Requests : Aside(s) /\ Q(s)' = Q(s)
    BY <1>1, <1>3, EnvironmentAside, SameStable DEF Aside
  <2>3. \A ip \in Ips, b \in Backends : HitsHeld(ip, b)' /\ LimitKept(ip, b)'
    BY <1>1, <2>1, <2>2, WindowsStay DEF Aside
  <2> QED BY <1>1, <2>1, <2>2, <2>3 DEF WindowInv, Aside
<1>4. ASSUME NEW r \in Requests, Arrive(r) \/ Progress(r) PROVE WindowInv'
  <2>1. \A s \in Requests \ {r} : Aside(s) /\ Q(s)' = Q(s) /\ spent'[s] = spent[s]
    BY <1>1, <1>4, OthersAside, ProgressSpends, SameStable DEF Aside
  <2>2. \A ip \in Ips, b \in Backends : HitsHeld(ip, b)' /\ LimitKept(ip, b)'
    <3>1. CASE StagePass(r) /\ windows' # windows
      BY <3>1, HitRecorded
    <3>2. CASE spent' = spent /\ windows' = windows
      <4>1. now' = now /\ (spent[r] = NoHit \/ (Q(r)' = Q(r) /\ metadata'[r] = metadata[r]))
        BY <1>1, <1>4, ProgressSpends
      <4> QED BY <1>1, <2>1, <3>2, <4>1, WindowsStay DEF Aside
    <3> QED BY <1>4, <3>1, <3>2, ProgressSpends
  <2>3. \A s \in Requests \ {r} :
           /\ pc'[s] \in Evaluating \cup {"idle"} => spent'[s] = NoHit
           /\ spent'[s].at <= now
    BY <1>1, <2>1 DEF Aside
  <2>4. /\ pc'[r] \in Evaluating \cup {"idle"} => spent'[r] = NoHit
        /\ spent'[r].at <= now
    BY <1>1, <1>4, ProgressSpends
  <2>5. now' = now
    BY <1>4, ProgressSpends
  <2> QED BY <2>2, <2>3, <2>4, <2>5 DEF WindowInv
<1> QED BY <1>2, <1>3, <1>4, StepCases

LEMMA InitWindow == Init => WindowInv
<1> SUFFICES ASSUME Init PROVE WindowInv
  OBVIOUS
<1>1. now = 0 /\ \A r \in Requests : spent[r] = NoHit /\ NoHit.at = 0
  BY DEF Init, StageInit, NoHit
<1>2. ASSUME NEW ip \in Ips, NEW b \in Backends
      PROVE  HitsHeld(ip, b) /\ LimitKept(ip, b)
  <2>1. windows[b][ip] = <<>>
    BY DEF Init, StageInit
  <2>2. SpentOf(ip, b) = {} /\ \A t : FreshOf(ip, b, t) = {} /\ Admitted(ip, b, t) = {}
    BY <1>1, UnspentIsNowhere DEF SpentOf, FreshOf, Admitted, NoHit, Backends
  <2>3. \A t : EntriesOf(ip, b, t) = {}
    BY <2>1 DEF EntriesOf, StillCounted, LogWindow
  <2> QED BY <2>2, <2>3, FS_EmptySet, StageAssumption DEF HitsHeld, LimitKept
<1> QED BY <1>1, <1>2 DEF WindowInv

\* No window of any backend admits more than the limit: not when the checks of
\* several requests come between one another's, not when the distributed store
\* comes and goes, and not across a reset, which forgets the memory windows
\* and the hits in them together.
THEOREM LimitIsKept == Spec => []AdmittedWithinLimit
<1>1. WindowInv => AdmittedWithinLimit
  BY DEF WindowInv, LimitKept, AdmittedWithinLimit
<1> QED BY <1>1, InitWindow, NextWindow, AlwaysIInv, PTL DEF Spec

============================================================================
