--------------------------- MODULE PromiseProofs ---------------------------
(***************************************************************************)
(* The pipeline implements the guard's promise, for any number of          *)
(* requests, addresses and configurations: its initial states are the      *)
(* promise's and each of its steps is a step of the promise or none.       *)
(***************************************************************************)
EXTENDS MediationProofs

\* The promise's variables, as the pipeline keeps them.
Phase == [r \in Requests |-> PhaseOf(r)]
Client == [r \in Requests |-> IF pc[r] = "idle" THEN NoIp ELSE Q(r).ip]
Banned == {ip \in Ips : LiveBan(ip)}

----------------------------------------------------------------------------
(* What a step shows of itself.                                            *)

\* The step is request r's: nobody else's place moves.
StepOf(r) ==
    /\ pc' = [pc EXCEPT ![r] = pc'[r]]
    /\ \A s \in Requests \ {r} : ran'[s] = ran[s]

LEMMA PhaseOfStep ==
    ASSUME TypeOK, NEW r \in Requests, StepOf(r)
    PROVE  Phase' = [Phase EXCEPT ![r] = PhaseOf(r)']
<1>1. ASSUME NEW s \in Requests, s # r PROVE PhaseOf(s)' = PhaseOf(s)
  BY <1>1 DEF StepOf, PhaseOf, TypeOK
<1> QED BY <1>1 DEF Phase

LEMMA ClientOfStep ==
    ASSUME TypeOK, NEW r \in Requests, StepOf(r), req' = req,
           pc[r] # "idle", pc'[r] # "idle"
    PROVE  Client' = Client /\ Client[r] = Q(r).ip
<1>1. ASSUME NEW s \in Requests PROVE (pc'[s] = "idle") <=> (pc[s] = "idle")
  BY DEF StepOf, TypeOK
<1>2. ASSUME NEW s \in Requests PROVE Q(s)' = Q(s)
  BY DEF Q
<1> QED BY <1>1, <1>2 DEF Client

\* A ban by the manager adds its address and no other; what ran on runs on.
LEMMA BannedByBan ==
    ASSUME TypeOK, NEW ip \in Ips, now' = now, bans' = BanUntil(ip)
    PROVE  Banned' = Banned \cup {ip}
<1>1. now \in Nat /\ bans \in [Ips -> Nat] /\ BanFor \in Nat \ {0}
  BY StageAssumption DEF TypeOK, StageTypeOK, Times
<1>2. bans'[ip] = now + BanFor /\ \A a \in Ips \ {ip} : bans'[a] = bans[a]
  BY <1>1 DEF BanUntil
<1>3. LiveBan(ip)'
  BY <1>1, <1>2 DEF LiveBan
<1>4. ASSUME NEW a \in Ips, a # ip PROVE LiveBan(a)' <=> LiveBan(a)
  BY <1>2, <1>4 DEF LiveBan
<1> QED BY <1>3, <1>4 DEF Banned

LEMMA BannedStays ==
    ASSUME now' = now, bans' = bans
    PROVE  Banned' = Banned
BY DEF Banned, LiveBan

\* What the step does for r's own client.
OwnBans(r) == bans' = bans \/ (Q(r).ip \in Ips /\ bans' = BanUntil(Q(r).ip))

\* The moves a request's step may make.
Moves(r) ==
    \/ PhaseOf(r) = "screening" /\ PhaseOf(r)' = "screening"
    \/ PhaseOf(r) = "screening" /\ PhaseOf(r)' = "admitted" /\ bans' = bans
    \/ PhaseOf(r) = "screening" /\ PhaseOf(r)' = "refused"
    \/ PhaseOf(r) = "admitted" /\ PhaseOf(r)' = "served" /\ bans' = bans
    \/ PhaseOf(r) \in {"served", "refused"} /\ PhaseOf(r)' = "answered"

\* A charge is the first one, and the request is still being screened.
Charges(r) ==
    \/ hits' = hits
    \/ /\ hits' = [hits EXCEPT ![r] = 1]
       /\ PhaseOf(r) = "screening" /\ PhaseOf(r)' = "screening"

LEMMA RequestStep ==
    ASSUME TypeOK, NEW r \in Requests, StepOf(r), req' = req, now' = now,
           pc[r] # "idle", pc'[r] # "idle", OwnBans(r), Moves(r), Charges(r)
    PROVE  Promise!Next
<1>1. Phase' = [Phase EXCEPT ![r] = PhaseOf(r)'] /\ Phase[r] = PhaseOf(r)
  BY PhaseOfStep DEF Phase
<1>2. Client' = Client /\ Client[r] = Q(r).ip
  BY ClientOfStep
<1>3. Banned' \in {Banned, Banned \cup ({Client[r]} \cap Ips)}
  BY <1>2, BannedByBan, BannedStays DEF OwnBans
<1>4. Promise!OwnBan(r)
  BY <1>3 DEF Promise!OwnBan, Banned, Client
<1>5. bans' = bans => Banned' = Banned
  BY BannedStays
<1>6. ASSUME NEW from, NEW to, PhaseOf(r) = from, PhaseOf(r)' = to
      PROVE  Promise!Move(r, from, to)
  BY <1>1, <1>2, <1>6 DEF Promise!Move, Phase, Client
<1>7. CASE PhaseOf(r) = "screening" /\ PhaseOf(r)' = "screening"
  <2>1. Phase' = Phase
    BY <1>1, <1>7 DEF Phase
  <2>2. hits' \in {hits, [hits EXCEPT ![r] = 1]}
    BY DEF Charges
  <2>3. Promise!Screen(r)
    BY <1>1, <1>2, <1>4, <1>7, <2>1, <2>2 DEF Promise!Screen, Phase, Client
  <2> QED BY <2>3 DEF Promise!Next
<1>8. CASE PhaseOf(r) # "screening" \/ PhaseOf(r)' # "screening"
  <2>1. hits' = hits
    BY <1>8 DEF Charges
  <2>2. CASE PhaseOf(r) = "screening" /\ PhaseOf(r)' = "admitted" /\ bans' = bans
    <3>1. Promise!Admit(r)
      BY <1>5, <1>6, <2>1, <2>2 DEF Promise!Admit, Banned
    <3> QED BY <3>1 DEF Promise!Next, Promise!Settle
  <2>3. CASE PhaseOf(r) = "screening" /\ PhaseOf(r)' = "refused"
    <3>1. Promise!Refuse(r)
      BY <1>4, <1>6, <2>1, <2>3 DEF Promise!Refuse
    <3> QED BY <3>1 DEF Promise!Next, Promise!Settle
  <2>4. CASE PhaseOf(r) = "admitted" /\ PhaseOf(r)' = "served" /\ bans' = bans
    <3>1. Promise!Serve(r)
      BY <1>5, <1>6, <2>1, <2>4 DEF Promise!Serve, Banned
    <3> QED BY <3>1 DEF Promise!Next
  <2>5. CASE PhaseOf(r) \in {"served", "refused"} /\ PhaseOf(r)' = "answered"
    <3>1. \E from \in {"served", "refused"} : Promise!Move(r, from, "answered")
      BY <1>6, <2>5
    <3>2. Promise!Answer(r)
      BY <1>4, <2>1, <3>1 DEF Promise!Answer
    <3> QED BY <3>2 DEF Promise!Next
  <2> QED BY <1>8, <2>2, <2>3, <2>4, <2>5 DEF Moves
<1> QED BY <1>7, <1>8


----------------------------------------------------------------------------
(* The steps of a request.                                                 *)

\* What the stages do to the bans is for the request's own client.
LEMMA StageBansOwn ==
    ASSUME NEW ip, NEW g, NEW finding
    PROVE  /\ FeedBans(ip, g) = bans \/ (ip \in Ips /\ FeedBans(ip, g) = BanUntil(ip))
           /\ \/ TierBans(ip, g, finding) = bans
              \/ ip \in Ips /\ TierBans(ip, g, finding) = BanUntil(ip)
           /\ ProcessorBan(ip) = bans \/ (ip \in Ips /\ ProcessorBan(ip) = BanUntil(ip))
<1>1. FeedBans(ip, g) = bans \/ (ip \in Ips /\ FeedBans(ip, g) = BanUntil(ip))
  BY DEF FeedBans, Counted
<1>2. Throttled(ip, g) => ip \in Ips
  BY DEF Throttled, OverLimit, Records, Throttles
<1>3. \/ TierBans(ip, g, finding) = bans
      \/ ip \in Ips /\ TierBans(ip, g, finding) = BanUntil(ip)
  BY <1>1, <1>2 DEF TierBans
<1>4. ProcessorBan(ip) = bans \/ (ip \in Ips /\ ProcessorBan(ip) = BanUntil(ip))
  BY DEF ProcessorBan
<1> QED BY <1>1, <1>3, <1>4

LEMMA ArriveKeepsPromise ==
    ASSUME IInv, NEW r \in Requests, Arrive(r)
    PROVE  Promise!Next
<1> USE DEF environment, stores
<1>1. TypeOK /\ pc[r] = "idle" /\ ~ran[r] /\ now' = now /\ bans' = bans /\ hits' = hits
  BY DEF IInv, Way, Arrive
<1>2. PICK p \in Profiles : req' = [req EXCEPT ![r] = p]
  BY DEF Arrive
<1>3. StepOf(r) /\ pc'[r] \in {"preamble", "routing"}
  BY <1>1 DEF Arrive, Goto, StepOf, TypeOK
<1>4. Phase' = [Phase EXCEPT ![r] = "screening"] /\ Phase[r] = "waiting"
  BY <1>1, <1>3, PhaseOfStep DEF PhaseOf, Phase
<1>5. Client' = [Client EXCEPT ![r] = Shape[p].ip]
  <2>1. Client'[r] = Shape[p].ip
    BY <1>1, <1>2, <1>3 DEF Client, Q, TypeOK
  <2>2. ASSUME NEW s \in Requests, s # r PROVE Client'[s] = Client[s]
    <3>1. pc'[s] = pc[s]
      BY <1>1, <1>3, <2>2 DEF StepOf, TypeOK
    <3>2. Q(s)' = Q(s)
      BY <1>1, <1>2, <2>2 DEF Q, TypeOK
    <3> QED BY <3>1, <3>2 DEF Client
  <2> QED BY <2>1, <2>2 DEF Client
<1>6. Shape[p].ip \in Ips \cup {NoIp}
  BY PipelineAssumption DEF Request
<1>7. Banned' = Banned
  BY <1>1, BannedStays
<1>8. Promise!Take(r)
  BY <1>1, <1>4, <1>5, <1>6, <1>7 DEF Promise!Take, Phase, Client, Banned
<1> QED BY <1>8 DEF Promise!Next

\* evaluate's steps, Route and the guards, which leave the bans alone.
LEMMA QuietKeepsPromise ==
    ASSUME IInv, NEW r \in Requests,
           \/ ExcludedPath(r) \/ Preflight(r) \/ EvaluateGates(r) \/ BanArm(r)
           \/ LateRefusal(r) \/ Route(r) \/ CheckBlockGuard(r) \/ ReadBody(r)
    PROVE  Promise!Next
<1> USE DEF environment, stores, history
<1>1. TypeOK /\ (ran[r] => pc[r] \in {"respond", "done"})
  BY DEF IInv, Way
<1>2. /\ req' = req /\ now' = now /\ bans' = bans /\ hits' = hits /\ ran' = ran
      /\ pc[r] \in {"preamble", "gates", "bans", "tiers", "routing", "block_guard", "read"}
  BY DEF ExcludedPath, Preflight, EvaluateGates, BanArm, LateRefusal, Route,
         CheckBlockGuard, ReadBody
<1>3. \E label \in {"routing", "bans", "tiers", "respond", "handler", "read",
                    "block_guard", "catch", "screen"} : Goto(r, label)
  BY DEF ExcludedPath, Preflight, EvaluateGates, BanArm, LateRefusal, Route,
         CheckBlockGuard, ReadBody, Return, GuardError
<1>4. StepOf(r) /\ pc'[r] \in {"routing", "bans", "tiers", "respond", "handler",
                               "read", "block_guard", "catch", "screen"}
  BY <1>1, <1>2, <1>3 DEF StepOf, Goto, TypeOK
<1>5. Moves(r)
  BY <1>1, <1>2, <1>4 DEF Moves, PhaseOf
<1> QED BY <1>1, <1>2, <1>4, <1>5, RequestStep DEF OwnBans, Charges

LEMMA CarrierKeepsPromise ==
    ASSUME IInv, NEW r \in Requests, ResolveCarrier(r)
    PROVE  Promise!Next
<1> USE DEF environment, stores, history
<1>1. TypeOK
  BY DEF IInv
<1>2. req' = req /\ now' = now /\ hits' = hits /\ ran' = ran /\ pc[r] = "preamble"
  BY DEF ResolveCarrier
<1>3. bans' = bans \/ bans' = ProcessorBan(Q(r).ip)
  BY DEF ResolveCarrier
<1>4. Goto(r, "routing") \/ Goto(r, "gates")
  BY DEF ResolveCarrier, Return
<1>5. StepOf(r) /\ pc'[r] \in {"routing", "gates"}
  BY <1>1, <1>2, <1>4 DEF StepOf, Goto, TypeOK
<1>6. OwnBans(r)
  BY <1>3, StageBansOwn DEF OwnBans
<1>7. Moves(r)
  BY <1>2, <1>5 DEF Moves, PhaseOf
<1> QED BY <1>1, <1>2, <1>5, <1>6, <1>7, RequestStep DEF Charges

LEMMA StagePassKeepsPromise ==
    ASSUME IInv, NEW r \in Requests, StagePass(r)
    PROVE  Promise!Next
<1> USE DEF environment
<1>1. TypeOK /\ hits[r] = 0 /\ pc[r] = "tiers"
  BY DEF IInv, Way, StagePass, Evaluating
<1>2. req' = req /\ now' = now /\ ran' = ran /\ Goto(r, "routing")
  BY DEF StagePass, Return
<1>3. StepOf(r) /\ pc'[r] = "routing"
  BY <1>1, <1>2 DEF StepOf, Goto, TypeOK
<1>4. OwnBans(r)
  BY StageBansOwn DEF StagePass, OwnBans
<1>5. PhaseOf(r) = "screening" /\ PhaseOf(r)' = "screening"
  BY <1>1, <1>3 DEF PhaseOf
<1>6. hits' = hits \/ hits' = [hits EXCEPT ![r] = 1]
  <2>1. hits' = [hits EXCEPT ![r] = IF windows' # windows THEN hits[r] + 1 ELSE hits[r]]
    BY DEF StagePass, TrackHit
  <2>2. hits \in [Requests -> Nat]
    BY <1>1 DEF TypeOK
  <2>3. CASE windows' # windows
    BY <1>1, <2>1, <2>3
  <2>4. CASE windows' = windows
    <3>1. hits' = [hits EXCEPT ![r] = hits[r]]
      BY <2>1, <2>4
    <3> QED BY <2>2, <3>1
  <2> QED BY <2>3, <2>4
<1> QED BY <1>1, <1>2, <1>3, <1>4, <1>5, <1>6, RequestStep DEF Moves, Charges

LEMMA ScreenBodyKeepsPromise ==
    ASSUME IInv, NEW r \in Requests, ScreenBody(r)
    PROVE  Promise!Next
<1> USE DEF environment
<1>1. TypeOK /\ pc[r] = "screen" /\ ~ran[r]
  BY DEF IInv, Way, ScreenBody
<1>2. req' = req /\ now' = now /\ ran' = ran /\ hits' = hits
  BY <1>1 DEF ScreenBody, BodyWindows, TrackHit, TypeOK
<1>3. IF ScreenVerdict(r) = Clean THEN Goto(r, "handler") ELSE Goto(r, "catch")
  BY DEF ScreenBody, GuardError
<1>4. StepOf(r) /\ pc'[r] = IF ScreenVerdict(r) = Clean THEN "handler" ELSE "catch"
  BY <1>1, <1>2, <1>3 DEF StepOf, Goto, TypeOK
<1>5. OwnBans(r)
  BY StageBansOwn DEF ScreenBody, OwnBans
\* A finding that bans is a finding that refuses.
<1>6. ScreenVerdict(r) = Clean => bans' = bans
  <2>1. CASE Enforces(r) /\ FeedBans(Q(r).ip, gate[r]) # bans
    <3>1. FeedAnswer(Q(r).ip, gate[r]) = Plain("ActivityBanned")
      BY <2>1 DEF FeedBans, FeedAnswer, Crosses
    <3>2. Plain("ActivityBanned") # Clean /\ Plain("ActivityBanned") # NoVerdict
      BY DEF Plain, Clean, NoVerdict
    <3>3. ScreenVerdict(r) = Plain("ActivityBanned")
      BY <2>1, <3>1, <3>2 DEF Enforces, ScreenVerdict, FindingVerdict
    <3> QED BY <3>2, <3>3
  <2>2. CASE ~Enforces(r) \/ FeedBans(Q(r).ip, gate[r]) = bans
    BY <2>2 DEF ScreenBody
  <2> QED BY <2>1, <2>2
<1>7. Moves(r)
  BY <1>1, <1>2, <1>4, <1>6 DEF Moves, PhaseOf
<1> QED BY <1>1, <1>2, <1>4, <1>5, <1>7, RequestStep DEF Charges

LEMMA AnsweringKeepsPromise ==
    ASSUME IInv, NEW r \in Requests, RunHandler(r) \/ Catch(r) \/ OnResponse(r)
    PROVE  Promise!Next
<1> USE DEF environment, stores, history
<1>1. TypeOK /\ (ran[r] => pc[r] \in {"respond", "done"})
  BY DEF IInv, Way
<1>2. req' = req /\ now' = now /\ hits' = hits
  BY DEF RunHandler, Catch, OnResponse
<1>3. CASE RunHandler(r) \/ Catch(r)
  <2>1. /\ Goto(r, "respond") /\ bans' = bans
        /\ \/ pc[r] = "handler" /\ ran' = [ran EXCEPT ![r] = TRUE]
           \/ pc[r] = "catch" /\ ran' = ran
    BY <1>3 DEF RunHandler, Catch
  <2>2. StepOf(r) /\ pc'[r] = "respond" /\ ran'[r] = (pc[r] = "handler")
    BY <1>1, <2>1 DEF StepOf, Goto, TypeOK
  <2>3. CASE pc[r] = "handler"
    <3>1. PhaseOf(r) = "admitted" /\ PhaseOf(r)' = "served"
      BY <2>2, <2>3 DEF PhaseOf
    <3> QED BY <1>1, <1>2, <2>1, <2>2, <2>3, <3>1, RequestStep DEF Moves, OwnBans, Charges
  <2>4. CASE pc[r] = "catch"
    <3>1. PhaseOf(r) = "refused" /\ PhaseOf(r)' = "refused"
      BY <2>2, <2>4 DEF PhaseOf
    <3>2. Phase' = Phase
      BY <1>1, <2>2, <3>1, PhaseOfStep DEF Phase
    <3>3. Client' = Client
      BY <1>1, <1>2, <2>2, <2>4, ClientOfStep
    <3>4. Banned' = Banned
      BY <1>2, <2>1, BannedStays
    <3>5. Promise!Pardon
      BY <1>2, <3>2, <3>3, <3>4 DEF Promise!Pardon, Phase, Client, Banned
    <3> QED BY <3>5 DEF Promise!Next
  <2> QED BY <2>1, <2>3, <2>4
<1>4. CASE OnResponse(r)
  <2>1. pc[r] = "respond" /\ ran' = ran /\ (bans' = bans \/ bans' = ProcessorBan(Q(r).ip))
    BY <1>4 DEF OnResponse
  <2>2. Goto(r, "done")
    BY <1>4 DEF OnResponse, Finish
  <2>3. StepOf(r) /\ pc'[r] = "done"
    BY <1>1, <2>1, <2>2 DEF StepOf, Goto, TypeOK
  <2>4. OwnBans(r)
    BY <2>1, StageBansOwn DEF OwnBans
  <2>5. Moves(r)
    BY <2>1, <2>3 DEF Moves, PhaseOf
  <2> QED BY <1>1, <1>2, <2>1, <2>3, <2>4, <2>5, RequestStep DEF Charges
<1> QED BY <1>3, <1>4

----------------------------------------------------------------------------
(* The steps of the environment.                                           *)

\* Where no request moves, the promise sees the bans alone.
LEMMA AsideKeepsPromise ==
    ASSUME pc' = pc, req' = req, ran' = ran, hits' = hits
    PROVE  /\ Phase' = Phase /\ Client' = Client
           /\ Banned' \subseteq Banned => Promise!Next
<1>1. Phase' = Phase
  BY DEF Phase, PhaseOf
<1>2. Client' = Client
  BY DEF Client, Q
<1>3. ASSUME Banned' \subseteq Banned PROVE Promise!Next
  <2>1. Promise!Pardon
    BY <1>1, <1>2, <1>3 DEF Promise!Pardon, Phase, Client, Banned
  <2> QED BY <2>1 DEF Promise!Next
<1> QED BY <1>1, <1>2, <1>3

LEMMA EnvironmentKeepsPromise ==
    ASSUME TypeOK,
           \/ Tick \/ StoreFlips \/ Reset
           \/ \E ip \in Ips : OperatorBan(ip) \/ OperatorUnban(ip)
    PROVE  Promise!Next
<1> USE DEF environment, stores, history, localVars
<1>1. pc' = pc /\ req' = req /\ ran' = ran /\ hits' = hits
  BY DEF Tick, StoreFlips, Reset, OperatorBan, OperatorUnban
<1>2. now \in Nat /\ bans \in [Ips -> Nat]
  BY StageAssumption DEF TypeOK, StageTypeOK, Times
<1>3. CASE Tick
  <2>1. Banned' \subseteq Banned
    BY <1>2, <1>3 DEF Tick, Banned, LiveBan
  <2> QED BY <1>1, <2>1, AsideKeepsPromise
<1>4. CASE StoreFlips \/ Reset
  <2>1. Banned' \subseteq Banned
    BY <1>4, BannedStays DEF StoreFlips, Reset
  <2> QED BY <1>1, <2>1, AsideKeepsPromise
<1>5. ASSUME NEW ip \in Ips, OperatorUnban(ip) PROVE Promise!Next
  <2>1. Banned' \subseteq Banned
    BY <1>2, <1>5 DEF OperatorUnban, Banned, LiveBan
  <2> QED BY <1>1, <2>1, AsideKeepsPromise
<1>6. ASSUME NEW ip \in Ips, OperatorBan(ip) PROVE Promise!Next
  <2>1. Banned' = Banned \cup {ip}
    BY <1>6, BannedByBan DEF OperatorBan
  <2>2. Promise!Ban(ip)
    BY <1>1, <1>6, <2>1, AsideKeepsPromise DEF Promise!Ban, OperatorBan, Phase, Client, Banned
  <2> QED BY <2>2 DEF Promise!Next
<1> QED BY <1>3, <1>4, <1>5, <1>6

----------------------------------------------------------------------------

LEMMA InitKeepsPromise == Init => Promise!Init
<1> SUFFICES ASSUME Init PROVE Promise!Init
  OBVIOUS
<1>1. Phase = [r \in Requests |-> "waiting"] /\ Client = [r \in Requests |-> NoIp]
  BY DEF Init, Phase, PhaseOf, Client
<1>2. Banned = {}
  BY DEF Init, StageInit, Banned, LiveBan
<1> QED BY <1>1, <1>2 DEF Promise!Init, Init, Phase, Client, Banned

LEMMA NextKeepsPromise == IInv /\ [Next]_vars => [Promise!Next]_(Promise!vars)
<1> SUFFICES ASSUME IInv, [Next]_vars PROVE Promise!Next \/ UNCHANGED Promise!vars
  OBVIOUS
<1>1. TypeOK
  BY DEF IInv
<1>2. ASSUME NEW r \in Requests, Arrive(r) \/ Progress(r) PROVE Promise!Next
  BY <1>2, ArriveKeepsPromise, QuietKeepsPromise, CarrierKeepsPromise,
     StagePassKeepsPromise, ScreenBodyKeepsPromise, AnsweringKeepsPromise DEF Progress
<1>3. ASSUME Tick \/ StoreFlips \/ Reset
             \/ \E ip \in Ips : OperatorBan(ip) \/ OperatorUnban(ip)
      PROVE  Promise!Next
  BY <1>1, <1>3, EnvironmentKeepsPromise
<1>4. CASE UNCHANGED vars
  <2>1. pc' = pc /\ req' = req /\ ran' = ran /\ hits' = hits /\ now' = now /\ bans' = bans
    BY <1>4 DEF vars, environment, stores, history, localVars
  <2>2. Banned' \subseteq Banned
    BY <2>1, BannedStays
  <2> QED BY <2>1, <2>2, AsideKeepsPromise
<1> QED BY <1>2, <1>3, <1>4 DEF Next, Terminating

\* The pipeline implements GuardPromise: whatever requests, addresses and
\* configurations there are, each step of evaluate, the guards, the handler,
\* the catchers and on_response is a step the promise allows.
THEOREM PromiseKept == Spec => KeepsPromise
<1>1. Init => Promise!Init
  BY InitKeepsPromise
<1>2. IInv /\ [Next]_vars => [Promise!Next]_(Promise!vars)
  BY NextKeepsPromise
<1> QED BY <1>1, <1>2, AlwaysIInv, PTL DEF Spec, KeepsPromise, Promise!Safe

=============================================================================
