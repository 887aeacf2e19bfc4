------------------------ MODULE GuardPipelineProofs ------------------------
(***************************************************************************)
(* Theorems of the pipeline for any addresses, requests, configurations    *)
(* and bounds.                                                             *)
(***************************************************************************)
EXTENDS PipelineProperties, TLAPS

----------------------------------------------------------------------------
(* What the operators return.                                              *)

\* The verdicts of the pure checks and of StageBlock are verdicts.
LEMMA VerdictTypes ==
    /\ Clean \in Slot /\ Failed \in Slot /\ NoVerdict \in Slot
    /\ Clean # NoVerdict /\ Failed # NoVerdict /\ Clean # Failed
    /\ \A kind \in Kinds : Plain(kind) \in Slot /\ Plain(kind) # NoVerdict
    /\ \A code \in Nat : StageBlock(code) \in Slot /\ StageBlock(code) # NoVerdict
BY DEF Clean, Failed, NoVerdict, Plain, StageBlock, CustomBlock, Slot, Verdict, Kinds

\* Every verdict has a status.
LEMMA StatusType ==
    ASSUME NEW v \in Slot
    PROVE  Status(v) \in Nat
BY DEF Status, Slot, Verdict, NoVerdict, Kinds, IsStatus

\* Every request has the type its profile declares.
LEMMA QType ==
    ASSUME TypeOK, NEW r \in Requests
    PROVE  Q(r) \in Request
BY PipelineAssumption DEF TypeOK, Q

LEMMA CheckTypes ==
    ASSUME NEW q \in Request, NEW c
    PROVE  /\ CheckVerdict(q, c) \in Slot
           /\ CheckBody(c) \in BlockBodies
<1>1. q.code \in Nat
  BY DEF Request
<1>2. CheckVerdict(q, c) \in Slot
  BY <1>1, VerdictTypes DEF CheckVerdict, Kinds
<1>3. CheckBody(c) \in BlockBodies
  BY DEF CheckBody, BlockBodies
<1> QED BY <1>2, <1>3

LEMMA AnswerTypes ==
    ASSUME NEW ip, NEW g, NEW finding
    PROVE  /\ BanAnswer(ip) \in Slot
           /\ FeedAnswer(ip, g) \in Slot
           /\ TierAnswer(ip, g, finding) \in Slot
<1>1. BanAnswer(ip) \in Slot /\ FeedAnswer(ip, g) \in Slot
  BY VerdictTypes DEF BanAnswer, FeedAnswer, Kinds
<1>2. RateLimited(Window) \in Slot
  BY StageAssumption DEF RateLimited, Slot, Verdict, Kinds
<1>3. TierAnswer(ip, g, finding) \in Slot
  BY <1>1, <1>2, VerdictTypes DEF TierAnswer, Kinds
<1> QED BY <1>1, <1>3

LEMMA BodyTypes ==
    ASSUME NEW v
    PROVE  OverrideFor(v) \in BlockBodies
BY DEF OverrideFor, BlockBodies

\* The stores keep their types.
LEMMA StoreTypes ==
    ASSUME StageTypeOK, NEW ip, NEW g, NEW finding
    PROVE  /\ ip \in Ips => BanUntil(ip) \in [Ips -> Nat]
           /\ FeedCounts(ip, g) \in [Ips -> [Categories -> Nat]]
           /\ FeedBans(ip, g) \in [Ips -> Nat]
           /\ TierCounts(ip, g, finding) \in [Ips -> [Categories -> Nat]]
           /\ TierBans(ip, g, finding) \in [Ips -> Nat]
           /\ TierWindows(ip, g) \in [Backends -> [Ips -> Seq(Times)]]
<1>1. ASSUME ip \in Ips PROVE BanUntil(ip) \in [Ips -> Nat]
  BY <1>1, StageAssumption DEF BanUntil, StageTypeOK, Times
<1>2. ASSUME ip \in Ips, NEW c \in Categories
      PROVE  CountsAfter(ip, c) \in [Ips -> [Categories -> Nat]]
  BY <1>2 DEF CountsAfter, StageTypeOK
<1>3. ASSUME ip \in Ips PROVE WindowsAfter(ip) \in [Backends -> [Ips -> Seq(Times)]]
  <2>1. Backend \in Backends
    BY DEF Backend, Backends
  <2>2. Append(windows[Backend][ip], now) \in Seq(Times)
    BY <1>3, <2>1 DEF StageTypeOK
  <2>3. [windows[Backend] EXCEPT ![ip] = Append(@, now)] \in [Ips -> Seq(Times)]
    BY <2>1, <2>2, <1>3 DEF StageTypeOK
  <2> QED BY <2>1, <2>3 DEF WindowsAfter, StageTypeOK
<1>4. FeedCounts(ip, g) \in [Ips -> [Categories -> Nat]]
  BY <1>2 DEF FeedCounts, Counted, Categories, StageTypeOK
<1>5. FeedBans(ip, g) \in [Ips -> Nat]
  BY <1>1 DEF FeedBans, Counted, StageTypeOK
<1>6. TierCounts(ip, g, finding) \in [Ips -> [Categories -> Nat]]
  BY <1>2, <1>4 DEF TierCounts, Throttled, OverLimit, Records, Throttles, Categories, StageTypeOK
<1>7. TierBans(ip, g, finding) \in [Ips -> Nat]
  BY <1>1, <1>5 DEF TierBans, Throttled, OverLimit, Records, Throttles, StageTypeOK
<1>8. TierWindows(ip, g) \in [Backends -> [Ips -> Seq(Times)]]
  BY <1>3 DEF TierWindows, Records, Throttles, StageTypeOK
<1> QED BY <1>1, <1>4, <1>5, <1>6, <1>7, <1>8

\* The responses have their type.
LEMMA ResponseTypes ==
    ASSUME NEW status \in Nat, NEW m \in Slot, NEW e \in Slot, NEW b \in BlockBodies
    PROVE  /\ CatcherResponse(status, m, e, b) \in Response
           /\ VerdictResponse(m, b) \in Response
<1>1. CatcherBody(status, m, e, b) \in Messages
  BY DEF Messages, CatcherBody, OrElse, ForbiddenMessage, UnavailableMessage, BlockBodies
<1>2. CatcherRetry(status, m, e) \in Nat
  BY DEF CatcherRetry, RefusalVerdict, Slot, Verdict, NoVerdict
<1>3. PlainBody(m) \in Messages
  BY DEF Messages, PlainBody
<1>4. CatcherResponse(status, m, e, b) \in Response
  BY <1>1, <1>2 DEF CatcherResponse, Response, Sources
<1>5. OrElse(b, PlainBody(m)) \in Messages
  BY <1>3 DEF Messages, OrElse, BlockBodies
<1>6. m.code \in Nat
  BY DEF Slot, Verdict, NoVerdict
<1>7. VerdictResponse(m, b) \in Response
  BY <1>5, <1>6, StatusType DEF VerdictResponse, Response, Sources
<1> QED BY <1>4, <1>7

----------------------------------------------------------------------------
(* Type correctness.                                                       *)

LEMMA InitTypeOK == Init => TypeOK
<1> SUFFICES ASSUME Init PROVE TypeOK
  OBVIOUS
<1>1. StageTypeOK
  <2>1. now \in Times
    BY StageAssumption DEF Init, StageInit, Times
  <2>2. windows \in [Backends -> [Ips -> Seq(Times)]]
    BY DEF Init, StageInit
  <2> QED BY <2>1, <2>2 DEF Init, StageInit, StageTypeOK
<1>2. req \in [Requests -> Profiles]
  BY PipelineAssumption DEF Init
<1>3. NoResponse \in Response /\ NoHit \in [store : Backends \cup {"none"}, at : Times]
  BY StageAssumption DEF NoResponse, Response, Messages, Sources, NoHit, Times
<1>4. usage \in [Endpoints \X Clients -> Seq(Times)]
  <2>1. <<>> \in Seq(Times)
    OBVIOUS
  <2> QED BY <2>1 DEF Init
<1>5. shown \in [Requests -> Times]
  BY StageAssumption DEF Init, Times
<1> QED
  BY <1>1, <1>2, <1>3, <1>4, <1>5, VerdictTypes DEF Init, TypeOK, Labels, Gates, BlockBodies, NoCap

\* The slots keep their types.
LEMMA SlotTypes ==
    ASSUME TypeOK, NEW r \in Requests, NEW v \in Slot, NEW b \in BlockBodies
    PROVE  /\ FirstWins(metadata, r, v) \in [Requests -> Slot]
           /\ FirstWins(enforced, r, v) \in [Requests -> Slot]
           /\ Recorded(r, b) \in [Requests -> BlockBodies]
BY DEF TypeOK, FirstWins, Recorded

\* So do they when evaluate returns or a guard answers an error.
LEMMA ReturnTypes ==
    ASSUME TypeOK, NEW r \in Requests, NEW v \in Slot, Return(r, v)
    PROVE  metadata' \in [Requests -> Slot] /\ pc' \in [Requests -> Labels]
BY SlotTypes DEF Return, Goto, TypeOK, Labels

LEMMA GuardErrorTypes ==
    ASSUME TypeOK, NEW r \in Requests, NEW status \in Nat, GuardError(r, status)
    PROVE  err' \in [Requests -> Nat] /\ pc' \in [Requests -> Labels]
BY DEF GuardError, Goto, TypeOK, Labels

LEMMA NextTypeOK == TypeOK /\ [Next]_vars => TypeOK'
<1> SUFFICES ASSUME TypeOK, [Next]_vars PROVE TypeOK'
  OBVIOUS
<1> USE DEF environment, stores, history, Goto
<1>1. ASSUME NEW r \in Requests, Arrive(r) PROVE TypeOK'
  BY <1>1 DEF Arrive, TypeOK, StageTypeOK, Labels
<1>2. ASSUME NEW r \in Requests, ExcludedPath(r) PROVE TypeOK'
  BY <1>2, SlotTypes, VerdictTypes DEF ExcludedPath, Return, TypeOK, StageTypeOK, Labels
<1>3. ASSUME NEW r \in Requests, Preflight(r) PROVE TypeOK'
  BY <1>3, SlotTypes, VerdictTypes DEF Preflight, Return, TypeOK, StageTypeOK, Labels
<1>4. ASSUME NEW r \in Requests, ResolveCarrier(r) PROVE TypeOK'
  <2>1. Q(r).cap \in Int /\ UsageKey(r) \in Endpoints \X Clients
    BY QType DEF Request, UsageKey, Clients
  <2>2. capOf' \in [Requests -> Int]
    BY <1>4, <2>1 DEF ResolveCarrier, TypeOK
  <2>3. usage' \in [Endpoints \X Clients -> Seq(Times)]
    <3>1. Append(usage[UsageKey(r)], now) \in Seq(Times)
      BY <2>1 DEF TypeOK, StageTypeOK
    <3>2. \/ usage' = usage
          \/ usage' = [usage EXCEPT ![UsageKey(r)] = Append(usage[UsageKey(r)], now)]
      BY <1>4 DEF ResolveCarrier
    <3> QED BY <3>1, <3>2, <2>1 DEF TypeOK
  <2>4. bans' \in [Ips -> Nat]
    <3>1. bans' = bans \/ bans' = ProcessorBan(Q(r).ip)
      BY <1>4 DEF ResolveCarrier
    <3>2. ProcessorBan(Q(r).ip) \in [Ips -> Nat]
      BY StoreTypes DEF ProcessorBan, TypeOK, StageTypeOK
    <3> QED BY <3>1, <3>2 DEF TypeOK, StageTypeOK
  <2>5. metadata' \in [Requests -> Slot] /\ pc' \in [Requests -> Labels]
    <3>1. \/ Return(r, Failed)
          \/ Return(r, Plain("ActivityBanned"))
          \/ metadata' = metadata /\ Goto(r, "gates")
      BY <1>4 DEF ResolveCarrier
    <3>2. Plain("ActivityBanned") \in Slot /\ Failed \in Slot
      BY VerdictTypes DEF Kinds
    <3> QED BY <3>1, <3>2, ReturnTypes DEF TypeOK, Labels
  <2>6. barred' \in [Requests -> BOOLEAN]
    BY <1>4 DEF ResolveCarrier, UsageBans, TypeOK
  <2>7. shown' \in [Requests -> Times]
    BY <1>4 DEF ResolveCarrier, TypeOK, StageTypeOK
  <2> QED BY <1>4, <2>2, <2>3, <2>4, <2>5, <2>6, <2>7 DEF ResolveCarrier, TypeOK, StageTypeOK
<1>5. ASSUME NEW r \in Requests, EvaluateGates(r) PROVE TypeOK'
  <2>1. CheckVerdict(Q(r), RefusingGate(r)) \in Slot /\ CheckBody(RefusingGate(r)) \in BlockBodies
    BY QType, CheckTypes
  <2>2. GateAfter(r) \in Gates
    BY QType, ListingAssumption DEF GateAfter, GlobalGateRuns, Request, Gates
  <2>3. metadata' \in [Requests -> Slot] /\ pc' \in [Requests -> Labels]
    <3>1. \/ Return(r, CheckVerdict(Q(r), RefusingGate(r)))
          \/ metadata' = metadata /\ Goto(r, "bans")
      BY <1>5 DEF EvaluateGates
    <3> QED BY <3>1, <2>1, ReturnTypes DEF TypeOK, Labels
  <2> QED BY <1>5, <2>1, <2>2, <2>3, SlotTypes DEF EvaluateGates, TypeOK, StageTypeOK
<1>6. ASSUME NEW r \in Requests, BanArm(r) PROVE TypeOK'
  <2> DEFINE answer == IF AsksForBan(r) THEN BanAnswer(Q(r).ip) ELSE NoVerdict
  <2>1. answer \in Slot /\ OverrideFor(answer) \in BlockBodies
    BY AnswerTypes, BodyTypes, VerdictTypes
  <2>2. metadata' \in [Requests -> Slot] /\ pc' \in [Requests -> Labels]
    <3>1. Return(r, answer) \/ (metadata' = metadata /\ Goto(r, "tiers"))
      BY <1>6 DEF BanArm
    <3> QED BY <3>1, <2>1, ReturnTypes DEF TypeOK, Labels
  <2> QED BY <1>6, <2>1, <2>2, SlotTypes DEF BanArm, TypeOK, StageTypeOK
<1>7. ASSUME NEW r \in Requests, LateRefusal(r) PROVE TypeOK'
  <2> DEFINE late == FirstRefusal(Q(r), gate[r], LateOrder)
  <2>1. CheckVerdict(Q(r), late) \in Slot /\ CheckBody(late) \in BlockBodies
    BY QType, CheckTypes
  <2>2. metadata' \in [Requests -> Slot] /\ pc' \in [Requests -> Labels]
    BY <1>7, <2>1, SlotTypes DEF LateRefusal, Return, TypeOK, Labels
  <2> QED BY <1>7, <2>1, <2>2, SlotTypes DEF LateRefusal, TypeOK, StageTypeOK
<1>8. ASSUME NEW r \in Requests, StagePass(r) PROVE TypeOK'
  <2>1. FinalVerdict(r) \in Slot
    BY AnswerTypes, CheckTypes, QType, VerdictTypes DEF FinalVerdict, StageAnswer, Kinds
  <2>2. FinalBody(r) \in BlockBodies
    BY BodyTypes DEF FinalBody, OrElse, BlockBodies
  <2>3. metadata' \in [Requests -> Slot] /\ pc' \in [Requests -> Labels]
    BY <1>8, <2>1, SlotTypes DEF StagePass, Return, TypeOK, Labels
  <2>4. /\ windows' \in [Backends -> [Ips -> Seq(Times)]]
        /\ counts' \in [Ips -> [Categories -> Nat]]
        /\ bans' \in [Ips -> Nat]
    BY <1>8, StoreTypes DEF StagePass, TypeOK, StageTypeOK
  <2>5. /\ hits' \in [Requests -> Nat]
        /\ spent' \in [Requests -> [store : Backends \cup {"none"}, at : Times]]
    BY <1>8 DEF StagePass, TrackHit, Backend, Backends, TypeOK, StageTypeOK
  <2> QED BY <1>8, <2>2, <2>3, <2>4, <2>5, SlotTypes DEF StagePass, TypeOK, StageTypeOK
<1>9. ASSUME NEW r \in Requests, Route(r) PROVE TypeOK'
  <2>1. NotFound \in Response
    BY DEF NotFound, Response, Messages, Sources
  <2>2. resp' \in [Requests -> Response]
    BY <1>9, <2>1 DEF Route, TypeOK
  <2>3. pc' \in [Requests -> Labels]
    BY <1>9 DEF Route, TypeOK, Labels
  <2> QED BY <1>9, <2>2, <2>3 DEF Route, TypeOK, StageTypeOK
<1>10. ASSUME NEW r \in Requests, CheckBlockGuard(r) PROVE TypeOK'
  <2> DEFINE v == IF metadata[r] = NoVerdict THEN Failed ELSE metadata[r]
  <2>1. v \in Slot
    BY VerdictTypes DEF TypeOK
  <2>2. Status(v) \in Nat
    BY <2>1, StatusType
  <2>3. \/ enforced' = enforced /\ err' = err /\ (Goto(r, "read") \/ Goto(r, "handler"))
        \/ enforced' = FirstWins(enforced, r, v) /\ GuardError(r, Status(v))
    BY <1>10 DEF CheckBlockGuard
  <2>4. enforced' \in [Requests -> Slot]
    <3>1. FirstWins(enforced, r, v) \in [Requests -> Slot]
      BY <2>1, SlotTypes DEF BlockBodies
    <3> QED BY <2>3, <3>1 DEF TypeOK
  <2>5. err' \in [Requests -> Nat] /\ pc' \in [Requests -> Labels]
    BY <2>2, <2>3, GuardErrorTypes DEF TypeOK, Labels
  <2> QED BY <1>10, <2>4, <2>5 DEF CheckBlockGuard, TypeOK, StageTypeOK
<1>11. ASSUME NEW r \in Requests, ReadBody(r) PROVE TypeOK'
  <2>1. \/ enforced' = enforced /\ (GuardError(r, 500) \/ GuardError(r, 413))
        \/ enforced' = FirstWins(enforced, r, Failed) /\ GuardError(r, 500)
        \/ enforced' = enforced /\ err' = err /\ Goto(r, "screen")
    BY <1>11 DEF ReadBody
  <2>2. enforced' \in [Requests -> Slot]
    BY <2>1, SlotTypes, VerdictTypes DEF TypeOK
  <2>3. err' \in [Requests -> Nat] /\ pc' \in [Requests -> Labels]
    <3>1. ASSUME NEW status \in {413, 500}, GuardError(r, status)
          PROVE  err' \in [Requests -> Nat] /\ pc' \in [Requests -> Labels]
      BY <3>1, GuardErrorTypes
    <3>2. CASE err' = err /\ Goto(r, "screen")
      BY <3>2 DEF TypeOK, Labels
    <3> QED BY <2>1, <3>1, <3>2
  <2> QED BY <1>11, <2>2, <2>3 DEF ReadBody, TypeOK, StageTypeOK
<1>12. ASSUME NEW r \in Requests, ScreenBody(r) PROVE TypeOK'
  <2>1. ScreenVerdict(r) \in Slot
    BY AnswerTypes, VerdictTypes DEF ScreenVerdict, StashedVerdict, FindingVerdict, Kinds, TypeOK
  <2>2. Status(ScreenVerdict(r)) \in Nat
    BY <2>1, StatusType
  <2>3. body' \in [Requests -> BlockBodies]
    <3>1. FindingBody(r) \in BlockBodies /\ "none" \in BlockBodies
      BY BodyTypes DEF FindingBody, BlockBodies
    <3>2. body' = Recorded(r, FindingBody(r)) \/ body' = Recorded(r, "none")
      BY <1>12 DEF ScreenBody
    <3> QED BY <3>1, <3>2, SlotTypes, VerdictTypes
  <2>4. enforced' \in [Requests -> Slot] /\ err' \in [Requests -> Nat] /\ pc' \in [Requests -> Labels]
    <3>1. \/ enforced' = enforced /\ err' = err /\ Goto(r, "handler")
          \/ /\ enforced' = FirstWins(enforced, r, ScreenVerdict(r))
             /\ GuardError(r, Status(ScreenVerdict(r)))
      BY <1>12 DEF ScreenBody
    <3>2. enforced' \in [Requests -> Slot]
      BY <3>1, <2>1, SlotTypes DEF TypeOK, BlockBodies
    <3> QED BY <3>1, <3>2, <2>2, GuardErrorTypes DEF TypeOK, Labels
  <2>5. counts' \in [Ips -> [Categories -> Nat]] /\ bans' \in [Ips -> Nat]
    BY <1>12, StoreTypes DEF ScreenBody, TypeOK, StageTypeOK
  <2>6. windows' = windows
    BY <1>12 DEF ScreenBody, BodyWindows
  <2>7. hits' = hits /\ spent' = spent
    BY <1>12, <2>6 DEF ScreenBody, TrackHit, TypeOK
  <2> QED BY <1>12, <2>3, <2>4, <2>5, <2>6, <2>7 DEF ScreenBody, TypeOK, StageTypeOK
<1>13. ASSUME NEW r \in Requests, RunHandler(r) PROVE TypeOK'
  <2>1. [status |-> Q(r).reply, body |-> "handler", retry |-> 0, by |-> "handler"] \in Response
    BY QType DEF Request, Response, Messages, Sources
  <2> QED BY <1>13, <2>1 DEF RunHandler, TypeOK, StageTypeOK, Labels
<1>14. ASSUME NEW r \in Requests, Catch(r) PROVE TypeOK'
  <2>1. ErrorResponse(r, err[r]) \in Response
    BY ResponseTypes DEF ErrorResponse, Response, Messages, Sources, TypeOK
  <2> QED BY <1>14, <2>1 DEF Catch, TypeOK, StageTypeOK, Labels
<1>15. ASSUME NEW r \in Requests, OnResponse(r) PROVE TypeOK'
  <2>1. Shielded(r) \in Response
    BY ResponseTypes DEF Shielded, TypeOK
  <2>2. Modified(Shielded(r)) \in Response
    BY <2>1 DEF Modified, Response
  <2>3. RedirectResponse \in Response
    BY DEF RedirectResponse, Response, Messages, Sources
  <2>4. \A status \in {200, 400} : PreflightResponse(status) \in Response
    BY DEF PreflightResponse, Response, Messages, Sources
  <2>5. resp' \in [Requests -> Response] /\ pc' \in [Requests -> Labels]
    <3>1. PICK response \in Response : Finish(r, response)
      BY <1>15, <2>1, <2>2, <2>3, <2>4 DEF OnResponse, TypeOK
    <3> QED BY <3>1 DEF Finish, TypeOK, Labels
  <2>6. bans' \in [Ips -> Nat]
    <3>1. bans' = bans \/ bans' = ProcessorBan(Q(r).ip)
      BY <1>15 DEF OnResponse
    <3>2. ProcessorBan(Q(r).ip) \in [Ips -> Nat]
      BY StoreTypes DEF ProcessorBan, TypeOK, StageTypeOK
    <3> QED BY <3>1, <3>2 DEF TypeOK, StageTypeOK
  <2>7. event' \in [Requests -> BOOLEAN]
    <3>1. cfg.bus \in BOOLEAN
      BY PipelineAssumption DEF TypeOK, Config
    <3> QED BY <1>15, <3>1 DEF OnResponse, Forwarded, TypeOK
  <2> QED BY <1>15, <2>5, <2>6, <2>7 DEF OnResponse, TypeOK, StageTypeOK
<1>16. CASE Tick
  BY <1>16, StageAssumption DEF Tick, TrackBans, TypeOK, StageTypeOK, Times, localVars, InFlight
<1>17. CASE StoreFlips
  BY <1>17 DEF StoreFlips, TypeOK, StageTypeOK, localVars
<1>18. ASSUME NEW ip \in Ips, OperatorBan(ip) PROVE TypeOK'
  BY <1>18, StoreTypes DEF OperatorBan, TypeOK, StageTypeOK, localVars
<1>19. ASSUME NEW ip \in Ips, OperatorUnban(ip) PROVE TypeOK'
  BY <1>19 DEF OperatorUnban, TrackBans, TypeOK, StageTypeOK, localVars, InFlight
<1>20. CASE Reset
  <2>1. windows' \in [Backends -> [Ips -> Seq(Times)]]
    <3>1. [ip \in Ips |-> <<>>] \in [Ips -> Seq(Times)]
      OBVIOUS
    <3> QED BY <1>20, <3>1 DEF Reset, TypeOK, StageTypeOK
  <2>2. spent' \in [Requests -> [store : Backends \cup {"none"}, at : Times]]
    BY <1>20, StageAssumption DEF Reset, NoHit, Times, TypeOK
  <2> QED BY <1>20, <2>1, <2>2 DEF Reset, TypeOK, StageTypeOK, localVars
<1>21. CASE UNCHANGED vars
  BY <1>21 DEF vars, localVars, TypeOK, StageTypeOK
<1> QED
  BY <1>1, <1>2, <1>3, <1>4, <1>5, <1>6, <1>7, <1>8, <1>9, <1>10, <1>11, <1>12,
     <1>13, <1>14, <1>15, <1>16, <1>17, <1>18, <1>19, <1>20, <1>21
  DEF Next, Progress, Terminating

\* Every variable of the pipeline keeps to its type.
THEOREM TypeCorrect == Spec => []TypeOK
BY InitTypeOK, NextTypeOK, PTL DEF Spec

============================================================================
