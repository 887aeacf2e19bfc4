---------------------------- MODULE ServerProofs ----------------------------
(***************************************************************************)
(* The server with both guards, for any number of requests, connections,   *)
(* addresses and configurations: the pipeline keeps its theorems with      *)
(* channels banning beside it, and the channels are mediated.              *)
(*                                                                         *)
(* The argument is one of interference.  Of the pipeline's state a channel *)
(* reaches the ban manager alone and only extends a ban there, so the      *)
(* pipeline's inductive invariants survive its steps, the accounts of      *)
(* violations, usage and windows with them; the channels' own invariant,   *)
(* in turn, hears of the pipeline through wsBanHeld, and their own counts  *)
(* and windows are nobody else's to write.                                 *)
(***************************************************************************)
EXTENDS AccountingProofs, PromiseProofs, GuardedServer

SocketStepSome == \E s \in Sockets : SocketStep(s)

----------------------------------------------------------------------------
(* Interference: the channels' steps as the pipeline sees them.            *)

LEMMA PeerType ==
    ASSUME SocketTypeOK, NEW s \in Sockets
    PROVE  P(s) \in Peer
BY WebSocketAssumption DEF SocketTypeOK, P

\* The feed bans an attributed address or nobody.
LEMMA FeedExtends ==
    ASSUME NEW ip
    PROVE  WsBansAfter(ip) \in {bans} \cup {BanUntil(i) : i \in Ips}
BY DEF WsBansAfter, WsCrosses, Feeds

LEMMA SocketExtends ==
    ASSUME NEW s \in Sockets, SocketStep(s)
    PROVE  now' = now /\ bans' \in {bans} \cup {BanUntil(i) : i \in Ips}
<1>1. now' = now
  BY DEF SocketStep, environment
<1>2. CASE Upgrade(s) \/ CheckUpgrade(s) \/ LimitUpgrade(s) \/ AnswerUpgrade(s)
             \/ SendClose(s) \/ Receive(s) \/ HangUp(s)
  BY <1>1, <1>2
  DEF Upgrade, CheckUpgrade, LimitUpgrade, AnswerUpgrade, SendClose, Receive, HangUp
<1>3. CASE ScanUpgrade(s)
  BY <1>1, <1>3, FeedExtends DEF ScanUpgrade
<1>4. CASE ScanFrame(s)
  BY <1>1, <1>4, FeedExtends DEF ScanFrame
<1> QED BY <1>1, <1>2, <1>3, <1>4 DEF SocketStep, SocketNext, SocketProgress

\* A channel's step is no request's: it may only extend a ban.
LEMMA SocketKeepsIInv ==
    ASSUME IInv, NEW s \in Sockets, SocketStep(s)
    PROVE  IInv'
<1>1. TypeOK
  BY DEF IInv
<1>2. TypeOK'
  <2>1. bans' \in [Ips -> Nat]
    <3>1. \A i \in Ips : BanUntil(i) \in [Ips -> Nat]
      BY <1>1, StageAssumption DEF BanUntil, TypeOK, StageTypeOK, Times
    <3>2. bans \in [Ips -> Nat] /\ bans' \in {bans} \cup {BanUntil(i) : i \in Ips}
      BY <1>1, SocketExtends DEF TypeOK, StageTypeOK
    <3> QED BY <3>1, <3>2
  <2> QED BY <1>1, <2>1 DEF SocketStep, TypeOK, StageTypeOK, environment, localVars, history
<1>3. ASSUME NEW r \in Requests PROVE Way(r)' /\ HeldIsLive(r)'
  <2>1. Way(r) /\ HeldIsLive(r)
    BY DEF IInv
  <2>2. Aside(r)
    BY DEF SocketStep, environment, localVars, history, Aside, Same
  <2>3. Q(r)' = Q(r) /\ banHeld' = banHeld /\ pc' = pc
    BY DEF SocketStep, localVars, history, Q, environment
  <2>4. \A ip \in Ips : LiveBan(ip) => LiveBan(ip)'
    BY <1>1, SocketExtends, ExtendedStaysLive
  <2>5. HeldIsLive(r)'
    BY <2>1, <2>3, <2>4 DEF HeldIsLive, InFlight, LiveBan
  <2> QED BY <1>1, <2>1, <2>2, <2>5, AsideKeepsWay
<1> QED BY <1>2, <1>3 DEF IInv

LEMMA ServerKeepsIInv ==
    IInv /\ [ServerNext]_serverVars => IInv'
BY SocketKeepsIInv, NextIInv DEF ServerNext, PipelineStep, serverVars

LEMMA ServerIInv == ServerSpec => []IInv
BY InitIInv, ServerKeepsIInv, PTL DEF ServerSpec, ServerInit

----------------------------------------------------------------------------
(* The channels' inductive invariant.                                      *)

Answering == {"absent", "bans", "rate", "scan", "answer"}

\* No arm of the sequence before the rate limit refuses the client.
EarlyPassed(s) ==
    /\ wscfg.managed
    /\ ~(wscfg.failSecure /\ P(s).ip = NoIp)
    /\ wscfg.gate /\ P(s).ip \in Ips => Listing[P(s).ip] # "denied"
    /\ AsksCountry(s) => P(s).country = "allowed"

\* A ban has not held ever since the upgrade, if the guard knows of bans.
NotUnderBan(s) == wscfg.manager => ~wsBanHeld[s]

SocketWay(s) ==
    /\ wspc[s] \in Answering => ~Accepted(s)
    /\ wspc[s] \in {"absent", "bans"} => wsSpent[s] = NoTime
    /\ wspc[s] \in {"rate", "scan"} \/ (wspc[s] = "answer" /\ close[s] = "none") =>
          EarlyPassed(s) /\ NotUnderBan(s)
    /\ wspc[s] = "answer" /\ close[s] = "none" => P(s).scan = "clean"
    /\ wspc[s] \in {"open", "frame", "closing"} => Accepted(s)
    /\ Accepted(s) => EarlyPassed(s) /\ NotUnderBan(s) /\ P(s).scan = "clean"
    /\ wsSpent[s] # NoTime => NotUnderBan(s)
    /\ delivered[s] # {} => Accepted(s)
    /\ delivered[s] \cap {"threat", "panic"} = {}

\* A ban held since the upgrade of a client still connected is live.
HeldSocket(s) ==
    wsBanHeld[s] /\ Connected(s) => P(s).ip \in Ips /\ LiveBan(P(s).ip)

SInv ==
    /\ IInv
    /\ SocketTypeOK
    /\ \A s \in Sockets : SocketWay(s) /\ HeldSocket(s)

\* A step that is not the connection's own may end the ban it has been under.
SocketAside(s) ==
    /\ wscfg' = wscfg
    /\ wspc'[s] = wspc[s]
    /\ peer'[s] = peer[s]
    /\ close'[s] = close[s]
    /\ handshake'[s] = handshake[s]
    /\ delivered'[s] = delivered[s]
    /\ wsSpent'[s] = wsSpent[s]
    /\ wsBanHeld'[s] => wsBanHeld[s]

LEMMA SocketAsideKeeps ==
    ASSUME NEW s \in Sockets, SocketWay(s), SocketAside(s)
    PROVE  SocketWay(s)'
<1> USE DEF SocketAside
<1>1. P(s)' = P(s)
  BY DEF P
<1>2. EarlyPassed(s)' <=> EarlyPassed(s)
  BY <1>1 DEF EarlyPassed, AsksCountry
<1>3. NotUnderBan(s) => NotUnderBan(s)'
  BY DEF NotUnderBan
<1>4. Accepted(s)' <=> Accepted(s)
  BY DEF Accepted
<1> QED BY <1>1, <1>2, <1>3, <1>4 DEF SocketWay

\* The steps of one connection are no step of another.
LEMMA OtherSocketsAside ==
    ASSUME SocketTypeOK, NEW t \in Sockets, NEW s \in Sockets, t # s, SocketStep(t)
    PROVE  SocketAside(s)
<1> USE DEF SocketAside, socketLocals, socketHistory, At, ToLabel, Goes, SocketTypeOK
<1>1. CASE Upgrade(t) \/ CheckUpgrade(t) \/ LimitUpgrade(t) \/ ScanUpgrade(t)
  BY <1>1 DEF Upgrade, CheckUpgrade, LimitUpgrade, ScanUpgrade
<1>2. CASE AnswerUpgrade(t) \/ Receive(t) \/ ScanFrame(t) \/ SendClose(t) \/ HangUp(t)
  BY <1>2 DEF AnswerUpgrade, Receive, ScanFrame, SendClose, HangUp
<1> QED BY <1>1, <1>2 DEF SocketStep, SocketNext, SocketProgress

\* Neither are the pipeline's.
LEMMA PipelineAside ==
    ASSUME SocketTypeOK, PipelineStep \/ UNCHANGED serverVars, NEW s \in Sockets
    PROVE  SocketAside(s)
<1> USE DEF SocketAside, socketLocals, socketHistory, SocketTypeOK
<1>1. CASE PipelineStep
  BY <1>1 DEF PipelineStep
<1>2. CASE UNCHANGED serverVars
  BY <1>2 DEF serverVars, socketVars
<1> QED BY <1>1, <1>2

LEMMA SocketStepOrAside ==
    ASSUME SocketTypeOK, [ServerNext]_serverVars, NEW s \in Sockets
    PROVE  SocketStep(s) \/ SocketAside(s)
BY OtherSocketsAside, PipelineAside DEF ServerNext

----------------------------------------------------------------------------
(* The connection's own steps keep it to its way.                          *)

LEMMA UpgradeKeeps ==
    ASSUME SocketTypeOK, NEW s \in Sockets, SocketWay(s), Upgrade(s)
    PROVE  SocketWay(s)'
<1>1. /\ wspc[s] = "absent" /\ wspc'[s] = "bans"
      /\ handshake' = handshake /\ delivered' = delivered /\ wsSpent' = wsSpent
  BY DEF Upgrade, ToLabel, SocketTypeOK
<1>2. ~Accepted(s)' /\ wsSpent'[s] = NoTime /\ delivered'[s] = {}
  BY <1>1 DEF SocketWay, Answering, Accepted
<1> QED BY <1>1, <1>2 DEF SocketWay

\* A step of the sequence: who the client is and what it has been told stay.
SequenceStep(s) ==
    /\ wscfg' = wscfg
    /\ peer' = peer
    /\ handshake' = handshake
    /\ delivered' = delivered
    /\ wsBanHeld' = wsBanHeld

LEMMA SequenceStable ==
    ASSUME NEW s \in Sockets, SequenceStep(s)
    PROVE  /\ P(s)' = P(s)
           /\ EarlyPassed(s)' <=> EarlyPassed(s)
           /\ NotUnderBan(s)' <=> NotUnderBan(s)
           /\ Accepted(s)' <=> Accepted(s)
<1> USE DEF SequenceStep
<1>1. P(s)' = P(s)
  BY DEF P
<1> QED BY <1>1 DEF EarlyPassed, AsksCountry, NotUnderBan, Accepted

LEMMA CheckUpgradeKeeps ==
    ASSUME SocketTypeOK, NEW s \in Sockets, SocketWay(s), HeldSocket(s), CheckUpgrade(s)
    PROVE  SocketWay(s)'
<1>1. SequenceStep(s) /\ wsSpent' = wsSpent /\ wspc[s] = "bans"
  BY DEF CheckUpgrade, At, socketHistory, SequenceStep
<1>2. /\ close'[s] = EarlyClose(s)
      /\ wspc'[s] = IF EarlyClose(s) = "none" THEN "rate" ELSE "answer"
  BY DEF CheckUpgrade, Goes, ToLabel, SocketTypeOK
<1>3. ASSUME EarlyClose(s) = "none" PROVE EarlyPassed(s) /\ NotUnderBan(s)
  <2>1. P(s).country \in {"allowed", "blocked", "panic"}
    BY PeerType DEF Peer
  <2>2. EarlyPassed(s)
    BY <1>3, <2>1 DEF EarlyClose, EarlyPassed
  <2>3. ~WsBanned(s)
    BY <1>3 DEF EarlyClose
  <2>4. wsBanHeld[s] => P(s).ip \in Ips /\ LiveBan(P(s).ip)
    BY <1>1 DEF HeldSocket, Connected
  <2> QED BY <2>2, <2>3, <2>4 DEF WsBanned, NotUnderBan
<1>4. ~Accepted(s) /\ wsSpent[s] = NoTime /\ delivered[s] = {}
  BY <1>1 DEF SocketWay, Answering
<1> QED BY <1>1, <1>2, <1>3, <1>4, SequenceStable DEF SocketWay, SequenceStep

LEMMA LimitUpgradeKeeps ==
    ASSUME SocketTypeOK, NEW s \in Sockets, SocketWay(s), LimitUpgrade(s)
    PROVE  SocketWay(s)'
<1>1. SequenceStep(s) /\ wspc[s] = "rate"
  BY DEF LimitUpgrade, At, SequenceStep
<1>2. wspc'[s] = "scan" \/ (wspc'[s] = "answer" /\ close'[s] # "none")
  BY DEF LimitUpgrade, Goes, ToLabel, SocketTypeOK
<1>3. ~Accepted(s) /\ EarlyPassed(s) /\ NotUnderBan(s) /\ delivered[s] = {}
  BY <1>1 DEF SocketWay, Answering
<1> QED BY <1>1, <1>2, <1>3, SequenceStable DEF SocketWay, SequenceStep

LEMMA ScanUpgradeKeeps ==
    ASSUME SocketTypeOK, NEW s \in Sockets, SocketWay(s), ScanUpgrade(s)
    PROVE  SocketWay(s)'
<1>1. SequenceStep(s) /\ wsSpent' = wsSpent /\ wspc[s] = "scan"
  BY DEF ScanUpgrade, At, socketHistory, SequenceStep
<1>2. wspc'[s] = "answer" /\ close'[s] = ScanClose(P(s).scan)
  BY DEF ScanUpgrade, Goes, ToLabel, SocketTypeOK
<1>3. ScanClose(P(s).scan) = "none" => P(s).scan = "clean"
  <2>1. P(s).scan \in {"clean", "threat", "panic"}
    BY PeerType DEF Peer, Scans
  <2> QED BY <2>1 DEF ScanClose
<1>4. ~Accepted(s) /\ EarlyPassed(s) /\ NotUnderBan(s) /\ delivered[s] = {}
  BY <1>1 DEF SocketWay, Answering
<1> QED BY <1>1, <1>2, <1>3, <1>4, SequenceStable DEF SocketWay, SequenceStep

LEMMA AnswerUpgradeKeeps ==
    ASSUME SocketTypeOK, NEW s \in Sockets, SocketWay(s), AnswerUpgrade(s)
    PROVE  SocketWay(s)'
<1>1. /\ wspc[s] = "answer" /\ wscfg' = wscfg /\ peer' = peer /\ close' = close
      /\ delivered' = delivered /\ wsSpent' = wsSpent /\ wsBanHeld' = wsBanHeld
  BY DEF AnswerUpgrade, At, socketHistory
<1>2. IF close[s] = "none" THEN wspc'[s] = "open" /\ Accepted(s)'
                           ELSE wspc'[s] = "ended" /\ ~Accepted(s)'
  BY DEF AnswerUpgrade, ToLabel, Accepted, SocketTypeOK
<1>3. P(s)' = P(s) /\ (EarlyPassed(s)' <=> EarlyPassed(s)) /\ (NotUnderBan(s)' <=> NotUnderBan(s))
  BY <1>1 DEF P, EarlyPassed, AsksCountry, NotUnderBan
<1>4. ~Accepted(s) /\ delivered[s] = {}
  BY <1>1 DEF SocketWay, Answering
<1> QED BY <1>1, <1>2, <1>3, <1>4 DEF SocketWay, Answering

LEMMA ReceiveKeeps ==
    ASSUME SocketTypeOK, NEW s \in Sockets, SocketWay(s), Receive(s) \/ HangUp(s) \/ SendClose(s)
    PROVE  SocketWay(s)'
<1>1. SequenceStep(s) /\ wsSpent' = wsSpent /\ wspc[s] \in {"open", "closing"}
  BY DEF Receive, HangUp, SendClose, At, socketHistory, SequenceStep
<1>2. wspc'[s] \in {"frame", "ended"}
  BY DEF Receive, HangUp, SendClose, ToLabel, AfterClose, SocketTypeOK
<1>3. Accepted(s)
  BY <1>1 DEF SocketWay
<1> QED BY <1>1, <1>2, <1>3, SequenceStable DEF SocketWay, Answering, SequenceStep

LEMMA ScanFrameKeeps ==
    ASSUME SocketTypeOK, NEW s \in Sockets, SocketWay(s), ScanFrame(s)
    PROVE  SocketWay(s)'
<1>1. /\ wspc[s] = "frame" /\ wscfg' = wscfg /\ peer' = peer /\ handshake' = handshake
      /\ wsSpent' = wsSpent /\ wsBanHeld' = wsBanHeld
  BY DEF ScanFrame, At
<1>2. Accepted(s) /\ EarlyPassed(s) /\ NotUnderBan(s) /\ P(s).scan = "clean"
  BY <1>1 DEF SocketWay
<1>3. P(s)' = P(s) /\ EarlyPassed(s)' /\ NotUnderBan(s)' /\ Accepted(s)'
  BY <1>1, <1>2 DEF P, EarlyPassed, AsksCountry, NotUnderBan, Accepted
<1>4. wspc'[s] \in {"open", "closing"}
  BY DEF ScanFrame, ToLabel, SocketTypeOK
<1>5. delivered'[s] \cap {"threat", "panic"} = {}
  <2>1. \/ delivered' = delivered
        \/ /\ FrameClose(s) = "none"
           /\ delivered' = [delivered EXCEPT ![s] = delivered[s] \cup ({frame[s]} \cap Scans)]
    BY DEF ScanFrame
  <2>2. ASSUME FrameClose(s) = "none" PROVE frame[s] \notin {"threat", "panic"}
    <3>1. frame[s] = "threat" => FrameClose(s) = "SUSPICIOUS_ACTIVITY"
      BY DEF FrameClose, ScanClose
    <3>2. frame[s] = "panic" => FrameClose(s) = "SECURITY_CHECK_FAILED"
      BY DEF FrameClose, ScanClose
    <3> QED BY <2>2, <3>1, <3>2
  <2>3. delivered[s] \cap {"threat", "panic"} = {}
    BY DEF SocketWay
  <2>4. delivered \in [Sockets -> SUBSET Scans]
    BY DEF SocketTypeOK
  <2> QED BY <2>1, <2>2, <2>3, <2>4
<1> QED BY <1>1, <1>2, <1>3, <1>4, <1>5 DEF SocketWay, Answering

LEMMA ServerKeepsSocketWay ==
    ASSUME SInv, [ServerNext]_serverVars, NEW s \in Sockets
    PROVE  SocketWay(s)'
<1>1. SocketTypeOK /\ SocketWay(s) /\ HeldSocket(s)
  BY DEF SInv
<1>2. CASE SocketStep(s)
  BY <1>1, <1>2, UpgradeKeeps, CheckUpgradeKeeps, LimitUpgradeKeeps, ScanUpgradeKeeps,
     AnswerUpgradeKeeps, ReceiveKeeps, ScanFrameKeeps DEF SocketStep, SocketNext, SocketProgress
<1> QED BY <1>1, <1>2, SocketAsideKeeps, SocketStepOrAside

----------------------------------------------------------------------------
(* wsBanHeld follows the ban, and the types are kept.                      *)

LEMMA ServerKeepsHeldSocket ==
    ASSUME SInv, [ServerNext]_serverVars, NEW s \in Sockets
    PROVE  HeldSocket(s)'
<1> SUFFICES ASSUME wsBanHeld'[s], Connected(s)'
             PROVE  P(s)'.ip \in Ips /\ LiveBan(P(s).ip)'
  BY DEF HeldSocket
<1>1. TypeOK /\ SocketTypeOK /\ HeldSocket(s)
  BY DEF SInv, IInv
<1>2. ASSUME now' = now, bans' \in {bans} \cup {BanUntil(i) : i \in Ips},
             peer'[s] = peer[s], wsBanHeld[s], Connected(s)
      PROVE  P(s)'.ip \in Ips /\ LiveBan(P(s).ip)'
  <2>1. P(s)' = P(s)
    BY <1>2 DEF P
  <2>2. P(s).ip \in Ips /\ LiveBan(P(s).ip)
    BY <1>1, <1>2 DEF HeldSocket
  <2>3. \A ip \in Ips : LiveBan(ip) => LiveBan(ip)'
    BY <1>1, <1>2, ExtendedStaysLive
  <2> QED BY <2>1, <2>2, <2>3 DEF LiveBan
<1>3. ASSUME Upgrade(s), SocketStep(s) PROVE P(s)'.ip \in Ips /\ LiveBan(P(s).ip)'
  <2>1. PICK p \in Peers :
           /\ peer' = [peer EXCEPT ![s] = p]
           /\ wsBanHeld' =
                 [wsBanHeld EXCEPT ![s] = PeerShape[p].ip \in Ips /\ LiveBan(PeerShape[p].ip)]
    BY <1>3 DEF Upgrade
  <2>2. P(s)' = PeerShape[p]
    BY <1>1, <2>1 DEF P, SocketTypeOK
  <2>3. PeerShape[p].ip \in Ips /\ LiveBan(PeerShape[p].ip)
    <3>1. wsBanHeld \in [Sockets -> BOOLEAN]
      BY <1>1 DEF SocketTypeOK
    <3> QED BY <2>1, <3>1, Zenon
  <2>4. now' = now /\ bans' = bans
    BY <1>3 DEF Upgrade, SocketStep, environment
  <2> QED BY <2>2, <2>3, <2>4 DEF LiveBan
<1>4. CASE SocketStep(s) /\ ~Upgrade(s)
  <2>1. SocketProgress(s) \/ Receive(s) \/ HangUp(s)
    BY <1>4 DEF SocketStep, SocketNext
  <2>2. peer' = peer /\ wsBanHeld' = wsBanHeld /\ wspc[s] \notin {"absent", "ended"}
    BY <2>1 DEF SocketProgress, At, socketHistory, CheckUpgrade, LimitUpgrade, ScanUpgrade,
         AnswerUpgrade, Receive, ScanFrame, SendClose, HangUp
  <2> QED BY <1>2, <1>4, <2>2, SocketExtends DEF Connected
<1>5. CASE SocketAside(s)
  <2>1. peer'[s] = peer[s] /\ wsBanHeld[s] /\ Connected(s)
    BY <1>5 DEF SocketAside, Connected
  <2>2. CASE PipelineStep
    <3>1. P(s)' = P(s) /\ P(s).ip \in Ips
      BY <1>1, <2>1 DEF P, HeldSocket
    <3>2. now' < bans'[P(s).ip]
      BY <2>1, <2>2 DEF PipelineStep
    <3> QED BY <3>1, <3>2 DEF LiveBan
  <2>3. CASE \E t \in Sockets : SocketStep(t)
    BY <1>2, <2>1, <2>3, SocketExtends
  <2>4. CASE UNCHANGED serverVars
    <3>1. now' = now /\ bans' = bans
      BY <2>4 DEF serverVars, vars, stores, environment
    <3> QED BY <1>2, <2>1, <3>1
  <2> QED BY <2>2, <2>3, <2>4 DEF ServerNext
<1> QED BY <1>1, <1>3, <1>4, <1>5, SocketStepOrAside

\* What a detection leaves in the feed's counters.
LEMMA FeedTypes ==
    ASSUME SocketTypeOK, NEW ip
    PROVE  WsCountsAfter(ip) \in [Ips -> Nat]
BY DEF SocketTypeOK, WsCountsAfter, Feeds

\* A step that returns one of the sequence's close shapes.
LEMMA GoesTypes ==
    ASSUME SocketTypeOK, NEW s \in Sockets, NEW reason \in Closes \cup {"none"},
           NEW label \in SocketLabels, Goes(s, reason, label)
    PROVE  wspc' \in [Sockets -> SocketLabels] /\ close' \in [Sockets -> Closes \cup {"none"}]
BY DEF SocketTypeOK, Goes, ToLabel, SocketLabels

LEMMA CloseTypes ==
    ASSUME NEW s \in Sockets
    PROVE  /\ EarlyClose(s) \in Closes \cup {"none"}
           /\ \A scan : ScanClose(scan) \in Closes \cup {"none"}
           /\ FrameClose(s) \in Closes \cup {"none"}
           /\ \A reason : CloseCode(reason) \in {1008, 1013}
<1>1. \A scan : ScanClose(scan) \in Closes \cup {"none"}
  BY DEF ScanClose, Closes
<1> QED BY <1>1 DEF EarlyClose, FrameClose, CloseCode, Closes

\* A step that moves a connection moves it to a label.
LEMMA MoveTypes ==
    ASSUME SocketTypeOK, NEW s \in Sockets, NEW label \in SocketLabels, ToLabel(s, label)
    PROVE  wspc' \in [Sockets -> SocketLabels]
<1>1. wspc \in [Sockets -> SocketLabels]
  BY DEF SocketTypeOK
<1> QED BY <1>1 DEF ToLabel

LEMMA LabelTypes ==
    {"bans", "rate", "scan", "answer", "open", "frame", "closing", "ended"} \subseteq SocketLabels
BY DEF SocketLabels

LEMMA SocketStepTypes ==
    ASSUME TypeOK, SocketTypeOK, NEW s \in Sockets, SocketStep(s)
    PROVE  SocketTypeOK'
<1> USE DEF At, socketHistory
<1>1. CASE Upgrade(s)
  <2>1. wspc' \in [Sockets -> SocketLabels]
    BY <1>1, MoveTypes, LabelTypes DEF Upgrade
  <2>2. peer' \in [Sockets -> Peers] /\ wsBanHeld' \in [Sockets -> BOOLEAN]
    BY <1>1 DEF Upgrade, SocketTypeOK
  <2> QED BY <1>1, <2>1, <2>2 DEF Upgrade, SocketTypeOK
<1>2. CASE CheckUpgrade(s)
  <2>1. wspc' \in [Sockets -> SocketLabels] /\ close' \in [Sockets -> Closes \cup {"none"}]
    BY <1>2, CloseTypes, GoesTypes, LabelTypes DEF CheckUpgrade
  <2> QED BY <1>2, <2>1 DEF CheckUpgrade, SocketTypeOK
<1>3. CASE LimitUpgrade(s)
  <2>1. "scan" \in SocketLabels /\ {"none", "RATE_LIMIT_EXCEEDED"} \subseteq Closes \cup {"none"}
    BY DEF SocketLabels, Closes
  <2>2. wspc' \in [Sockets -> SocketLabels] /\ close' \in [Sockets -> Closes \cup {"none"}]
    BY <1>3, <2>1, GoesTypes DEF LimitUpgrade
  <2>3. now \in Times
    BY DEF TypeOK, StageTypeOK
  <2>4. wsHits' \in [Ips -> Seq(Times)]
    <3>1. wsHits \in [Ips -> Seq(Times)]
      BY DEF SocketTypeOK
    <3>2. ASSUME NEW ip \in Ips PROVE Append(wsHits[ip], now) \in Seq(Times)
      BY <2>3, <3>1
    <3>3. \/ wsHits' = wsHits
          \/ \E ip \in Ips : wsHits' = [wsHits EXCEPT ![ip] = Append(wsHits[ip], now)]
      BY <1>3 DEF LimitUpgrade, Limits
    <3> QED BY <3>1, <3>2, <3>3
  <2>5. wsSpent' \in [Sockets -> Times \cup {NoTime}]
    <3>1. wsSpent' = wsSpent \/ wsSpent' = [wsSpent EXCEPT ![s] = now]
      BY <1>3 DEF LimitUpgrade
    <3>2. wsSpent \in [Sockets -> Times \cup {NoTime}]
      BY DEF SocketTypeOK
    <3> QED BY <2>3, <3>1, <3>2
  <2> QED BY <1>3, <2>2, <2>4, <2>5 DEF LimitUpgrade, SocketTypeOK
<1>4. CASE ScanUpgrade(s)
  <2>1. wspc' \in [Sockets -> SocketLabels] /\ close' \in [Sockets -> Closes \cup {"none"}]
    <3>1. Goes(s, ScanClose(P(s).scan), "answer")
      BY <1>4 DEF ScanUpgrade
    <3>2. ScanClose(P(s).scan) \in Closes \cup {"none"} /\ "answer" \in SocketLabels
      BY CloseTypes, LabelTypes
    <3> QED BY <3>1, <3>2, GoesTypes
  <2>2. wsCounts' \in [Ips -> Nat]
    BY <1>4, FeedTypes DEF ScanUpgrade, SocketTypeOK
  <2> QED BY <1>4, <2>1, <2>2 DEF ScanUpgrade, SocketTypeOK
<1>5. CASE AnswerUpgrade(s)
  <2> DEFINE Handshakes == [status : {0, 101, 403}, code : {0, 1008, 1013}]
  <2>1. wspc' \in [Sockets -> SocketLabels]
    <3>1. ToLabel(s, "open") \/ ToLabel(s, "ended")
      BY <1>5 DEF AnswerUpgrade
    <3> QED BY <3>1, MoveTypes, LabelTypes
  <2>2. handshake' \in [Sockets -> Handshakes]
    <3>1. [status |-> 101, code |-> 0] \in Handshakes
      OBVIOUS
    <3>2. [status |-> 403, code |-> IF P(s).captures THEN CloseCode(close[s]) ELSE 0]
             \in Handshakes
      BY CloseTypes
    <3>3. \E h \in Handshakes : handshake' = [handshake EXCEPT ![s] = h]
      <4>1. \/ handshake' = [handshake EXCEPT ![s] = [status |-> 101, code |-> 0]]
            \/ handshake' = [handshake EXCEPT ![s] =
                  [status |-> 403, code |-> IF P(s).captures THEN CloseCode(close[s]) ELSE 0]]
        BY <1>5 DEF AnswerUpgrade
      <4> HIDE DEF Handshakes
      <4> QED BY <3>1, <3>2, <4>1
    <3>4. handshake \in [Sockets -> Handshakes]
      BY DEF SocketTypeOK
    <3> QED BY <3>3, <3>4
  <2> QED BY <1>5, <2>1, <2>2 DEF AnswerUpgrade, SocketTypeOK
<1>6. CASE Receive(s)
  <2>1. wspc' \in [Sockets -> SocketLabels]
    BY <1>6, MoveTypes, LabelTypes DEF Receive
  <2>2. received' \in [Sockets -> 0..MaxFrames]
    BY <1>6, WebSocketAssumption DEF Receive, SocketTypeOK
  <2>3. frame' \in [Sockets -> Frames]
    BY <1>6 DEF Receive, SocketTypeOK
  <2> QED BY <1>6, <2>1, <2>2, <2>3 DEF Receive, SocketTypeOK
<1>7. CASE ScanFrame(s)
  <2>1. wspc' \in [Sockets -> SocketLabels]
    BY <1>7, MoveTypes, LabelTypes DEF ScanFrame
  <2>2. wsCounts' \in [Ips -> Nat]
    BY <1>7, FeedTypes DEF ScanFrame, SocketTypeOK
  <2>3. frame' \in [Sockets -> Frames]
    BY <1>7 DEF ScanFrame, SocketTypeOK, Frames
  <2>4. close' \in [Sockets -> Closes \cup {"none"}]
    BY <1>7, CloseTypes DEF ScanFrame, SocketTypeOK
  <2>5. delivered' \in [Sockets -> SUBSET Scans]
    <3>1. delivered \in [Sockets -> SUBSET Scans]
      BY DEF SocketTypeOK
    <3>2. (delivered[s] \cup ({frame[s]} \cap Scans)) \in SUBSET Scans
      BY <3>1
    <3>3. delivered' = delivered
            \/ delivered' = [delivered EXCEPT ![s] = delivered[s] \cup ({frame[s]} \cap Scans)]
      BY <1>7 DEF ScanFrame
    <3> QED BY <3>1, <3>2, <3>3
  <2> QED BY <1>7, <2>1, <2>2, <2>3, <2>4, <2>5 DEF ScanFrame, SocketTypeOK
<1>8. CASE SendClose(s) \/ HangUp(s)
  <2>1. wspc' \in [Sockets -> SocketLabels]
    BY <1>8, MoveTypes, LabelTypes DEF SendClose, HangUp, AfterClose
  <2> QED BY <1>8, <2>1 DEF SendClose, HangUp, SocketTypeOK
<1> QED
  BY <1>1, <1>2, <1>3, <1>4, <1>5, <1>6, <1>7, <1>8 DEF SocketStep, SocketNext, SocketProgress

LEMMA ServerKeepsSocketTypes ==
    ASSUME SInv, [ServerNext]_serverVars
    PROVE  SocketTypeOK'
<1>1. TypeOK /\ SocketTypeOK
  BY DEF SInv, IInv
<1>2. CASE PipelineStep
  BY <1>1, <1>2 DEF PipelineStep, socketLocals, SocketTypeOK
<1>3. CASE UNCHANGED serverVars
  BY <1>1, <1>3 DEF serverVars, socketVars, socketLocals, socketHistory, SocketTypeOK
<1> QED BY <1>1, <1>2, <1>3, SocketStepTypes DEF ServerNext

----------------------------------------------------------------------------
(* The channels' accounts: the feed's counters and the limiter's windows.  *)

\* Nothing has judged the connection, or nothing yet of what it carries.
Unjudged == {"absent", "bans", "rate", "scan", "open", "frame"}

\* A close shape is final, a hit is recorded once and at a time gone by.
JudgedOnce(s) ==
    /\ wspc[s] \in Unjudged => close[s] = "none"
    /\ wspc[s] = "rate" => wsSpent[s] = NoTime
    /\ wsSpent[s] <= now

\* The feed's counter of an address counts its rejected connections.
FeedKept(ip) ==
    /\ IsFiniteSet(FedSockets(ip))
    /\ wsCounts[ip] = IF wscfg.feed = "none" THEN 0 ELSE Cardinality(FedSockets(ip))

\* The connections of an address whose hit the limiter holds ...
SpentSockets(ip) == {s \in Sockets : P(s).ip = ip /\ wsSpent[s] # NoTime}

\* ... and those whose hit a window up to t still counts.
FreshSockets(ip, t) == {s \in SpentSockets(ip) : t < wsSpent[s] + Window}

\* The limiter holds an entry at least for each hit of a connection, and has
\* let no more than the limit through in any window.
WsHitsHeld(ip) ==
    /\ IsFiniteSet(SpentSockets(ip))
    /\ \A t \in Times :
          Cardinality(FreshSockets(ip, t)) <= Cardinality(StillCounted(wsHits[ip], t))

WsLimitKept(ip) == \A t \in 0..now : Cardinality(LetThroughUpTo(ip, t)) <= Limit

ChannelInv ==
    /\ \A s \in Sockets : JudgedOnce(s)
    /\ \A ip \in Ips : FeedKept(ip) /\ WsHitsHeld(ip) /\ WsLimitKept(ip)

\* What an account reads of a connection that makes no step.
LEMMA AsideAccounts ==
    ASSUME NEW s \in Sockets, SocketAside(s)
    PROVE  /\ P(s)' = P(s)
           /\ \A ip : (s \in FedSockets(ip))' <=> s \in FedSockets(ip)
<1>1. P(s)' = P(s) /\ (Accepted(s)' <=> Accepted(s)) /\ Identity(s)' = Identity(s)
  BY DEF SocketAside, P, Accepted, Identity
<1> QED BY <1>1 DEF FedSockets, SocketAside

\* A step that leaves the rejected connections and the counters alone, or
\* rejects one and counts it under the client it is attributed to.
FeedMoves(s, ip) ==
    \/ /\ wsCounts'[ip] = wsCounts[ip]
       /\ (s \in FedSockets(ip))' <=> s \in FedSockets(ip)
    \/ /\ wsCounts'[ip] = IF wscfg.feed = "none" THEN wsCounts[ip] ELSE wsCounts[ip] + 1
       /\ s \notin FedSockets(ip) /\ (s \in FedSockets(ip))'

\* A connection rejected for nothing or for another reason is not counted.
LEMMA OtherReason ==
    ASSUME NEW s \in Sockets
    PROVE  /\ close[s] # "SUSPICIOUS_ACTIVITY" => \A ip : s \notin FedSockets(ip)
           /\ close'[s] # "SUSPICIOUS_ACTIVITY" => \A ip : ~(s \in FedSockets(ip))'
BY DEF FedSockets

\* The scans of the upgrade and of the frames feed the detection they reject
\* the connection for.
LEMMA ScansFeed ==
    ASSUME SocketTypeOK, NEW s \in Sockets, SocketWay(s), JudgedOnce(s),
           ScanUpgrade(s) \/ ScanFrame(s), NEW ip \in Ips
    PROVE  FeedMoves(s, ip)
<1> DEFINE flagged == IF ScanUpgrade(s) THEN P(s).scan = "threat" ELSE frame[s] = "threat"
           client == IF ScanUpgrade(s) THEN P(s).ip ELSE Identity(s)
<1>1. /\ s \notin FedSockets(ip) /\ P(s)' = P(s) /\ Identity(s)' = Identity(s)
      /\ wscfg' = wscfg /\ handshake' = handshake /\ Accepted(s)' = Accepted(s)
      /\ Accepted(s) <=> ~ScanUpgrade(s)
  <2>1. close[s] = "none" /\ peer' = peer /\ handshake' = handshake /\ wscfg' = wscfg
    BY DEF ScanUpgrade, ScanFrame, At, JudgedOnce, Unjudged
  <2>2. Accepted(s) <=> ~ScanUpgrade(s)
    BY DEF ScanUpgrade, ScanFrame, At, SocketWay, Answering
  <2> QED BY <2>1, <2>2, OtherReason DEF P, Identity, Accepted
<1>2. close'[s] = "SUSPICIOUS_ACTIVITY" <=> flagged
  <2>1. CASE ScanUpgrade(s)
    BY <2>1 DEF ScanUpgrade, Goes, ScanClose, SocketTypeOK
  <2>2. CASE ScanFrame(s) /\ ~ScanUpgrade(s)
    BY <2>2 DEF ScanFrame, FrameClose, ScanClose, SocketTypeOK
  <2> QED BY <2>1, <2>2
<1>3. (s \in FedSockets(ip))' <=> flagged /\ ip = client
  BY <1>1, <1>2 DEF FedSockets
<1>4. wsCounts' = IF flagged THEN WsCountsAfter(client) ELSE wsCounts
  BY DEF ScanUpgrade, ScanFrame
<1>5. WsCountsAfter(client)[ip] = IF wscfg.feed # "none" /\ ip = client
                                  THEN wsCounts[ip] + 1 ELSE wsCounts[ip]
  BY DEF WsCountsAfter, Feeds, SocketTypeOK
<1> QED BY <1>1, <1>3, <1>4, <1>5 DEF FeedMoves

\* The other steps of a connection reject it for nothing that is counted.
LEMMA OthersFeedNothing ==
    ASSUME SocketTypeOK, NEW s \in Sockets, SocketWay(s), JudgedOnce(s), SocketStep(s),
           ~(ScanUpgrade(s) \/ ScanFrame(s)), NEW ip \in Ips
    PROVE  FeedMoves(s, ip)
<1> USE DEF At, JudgedOnce, Unjudged, FeedMoves
<1>1. CASE Upgrade(s)
  <2>1. close[s] = "none" /\ close' = close /\ wsCounts' = wsCounts
    BY <1>1 DEF Upgrade
  <2> QED BY <2>1, OtherReason
<1>2. CASE CheckUpgrade(s) \/ LimitUpgrade(s)
  <2>1. close[s] = "none" /\ wsCounts' = wsCounts
    BY <1>2 DEF CheckUpgrade, LimitUpgrade
  <2>2. close'[s] \in {EarlyClose(s), "RATE_LIMIT_EXCEEDED", "none"}
    BY <1>2 DEF CheckUpgrade, LimitUpgrade, Goes, SocketTypeOK
  <2>3. EarlyClose(s) # "SUSPICIOUS_ACTIVITY"
    BY DEF EarlyClose
  <2> QED BY <2>1, <2>2, <2>3, OtherReason
<1>3. CASE AnswerUpgrade(s)
  <2>1. wsCounts' = wsCounts /\ close' = close /\ P(s)' = P(s) /\ wspc[s] = "answer"
    BY <1>3 DEF AnswerUpgrade, P
  <2>2. close[s] # "none" => ~Accepted(s) /\ ~Accepted(s)'
    BY <1>3, <2>1 DEF AnswerUpgrade, Accepted, SocketWay, Answering, SocketTypeOK
  <2>3. CASE close[s] = "none"
    BY <2>1, <2>3, OtherReason
  <2>4. CASE close[s] # "none"
    BY <2>1, <2>2, <2>4 DEF FedSockets
  <2> QED BY <2>3, <2>4
<1>4. CASE Receive(s) \/ SendClose(s) \/ HangUp(s)
  <2>1. wsCounts' = wsCounts /\ close' = close /\ peer' = peer /\ handshake' = handshake
    BY <1>4 DEF Receive, SendClose, HangUp
  <2> QED BY <2>1 DEF FedSockets, Accepted, Identity, P
<1> QED BY <1>1, <1>2, <1>3, <1>4 DEF SocketStep, SocketNext, SocketProgress

\* One connection more in the counter and in the set it counts.
LEMMA FeedKeeps ==
    ASSUME SocketTypeOK, wscfg' = wscfg, NEW s \in Sockets, NEW ip \in Ips, FeedKept(ip),
           FeedMoves(s, ip), \A t \in Sockets \ {s} : SocketAside(t)
    PROVE  FeedKept(ip)'
<1>1. FedSockets(ip) \ {s} = FedSockets(ip)' \ {s}
  <2>1. \A t \in Sockets \ {s} : (t \in FedSockets(ip))' <=> t \in FedSockets(ip)
    BY AsideAccounts
  <2> QED BY <2>1 DEF FedSockets
<1>2. IsFiniteSet(FedSockets(ip)) /\ Cardinality(FedSockets(ip)) \in Nat
  BY FS_CardinalityType DEF FeedKept
<1> DEFINE m == Cardinality(FedSockets(ip))
<1>3. CASE /\ wsCounts'[ip] = wsCounts[ip]
           /\ (s \in FedSockets(ip))' <=> s \in FedSockets(ip)
  <2>1. s \in FedSockets(ip) <=> s \in FedSockets(ip)'
    BY <1>3
  <2>2. FedSockets(ip) = FedSockets(ip)'
    BY <1>1, <2>1
  <2> QED BY <1>3, <2>2 DEF FeedKept
<1>4. CASE /\ wsCounts'[ip] = IF wscfg.feed = "none" THEN wsCounts[ip] ELSE wsCounts[ip] + 1
           /\ s \notin FedSockets(ip) /\ (s \in FedSockets(ip))'
  <2>1. s \notin FedSockets(ip) /\ s \in FedSockets(ip)'
    BY <1>4
  <2>2. IsFiniteSet(FedSockets(ip)') /\ m + 1 = Cardinality(FedSockets(ip)')
    BY <1>1, <1>2, <2>1, Tally
  <2> QED BY <1>2, <1>4, <2>2 DEF FeedKept
<1> QED BY <1>3, <1>4 DEF FeedMoves

\* What the limit bounds is among what the window still counts.
LEMMA LetThroughIsFresh ==
    ASSUME NEW ip, NEW t, IsFiniteSet(SpentSockets(ip))
    PROVE  /\ IsFiniteSet(FreshSockets(ip, t)) /\ IsFiniteSet(LetThroughUpTo(ip, t))
           /\ Cardinality(FreshSockets(ip, t)) \in Nat
           /\ Cardinality(LetThroughUpTo(ip, t)) \in Nat
           /\ Cardinality(LetThroughUpTo(ip, t)) <= Cardinality(FreshSockets(ip, t))
<1>1. FreshSockets(ip, t) \in SUBSET SpentSockets(ip)
  BY DEF FreshSockets
<1>2. LetThroughUpTo(ip, t) \in SUBSET FreshSockets(ip, t)
  BY DEF LetThroughUpTo, FreshSockets, SpentSockets
<1>3. IsFiniteSet(FreshSockets(ip, t))
  BY <1>1, FS_Subset
<1>4. /\ IsFiniteSet(LetThroughUpTo(ip, t))
      /\ Cardinality(LetThroughUpTo(ip, t)) <= Cardinality(FreshSockets(ip, t))
  BY <1>2, <1>3, FS_Subset
<1> QED BY <1>3, <1>4, FS_CardinalityType

\* Steps that record no hit of a connection: the clock at most goes on.
LEMMA WsWindowsStay ==
    ASSUME TypeOK, SocketTypeOK, wsHits' = wsHits, wsSpent' = wsSpent, now' \in {now, now + 1},
           \A s \in Sockets :
               \/ wsSpent[s] = NoTime
               \/ /\ P(s)' = P(s) /\ wsSpent[s] <= now
                  /\ close'[s] = "RATE_LIMIT_EXCEEDED" <=> close[s] = "RATE_LIMIT_EXCEEDED",
           NEW ip \in Ips, WsHitsHeld(ip), WsLimitKept(ip)
    PROVE  WsHitsHeld(ip)' /\ WsLimitKept(ip)'
<1>1. now \in Nat /\ now' \in Nat
  BY StageAssumption DEF TypeOK, StageTypeOK, Times
<1>2. SpentSockets(ip)' = SpentSockets(ip)
  BY DEF SpentSockets
<1>3. \A t : FreshSockets(ip, t)' = FreshSockets(ip, t)
  BY <1>2 DEF FreshSockets
<1>4. \A t : StillCounted(wsHits[ip], t)' = StillCounted(wsHits[ip], t)
  BY DEF StillCounted, LogWindow
<1>5. WsHitsHeld(ip)'
  BY <1>2, <1>3, <1>4 DEF WsHitsHeld
<1>6. \A t : LetThroughUpTo(ip, t)' = LetThroughUpTo(ip, t)
  BY DEF LetThroughUpTo
<1>7. ASSUME NEW t \in 0..now' PROVE Cardinality(LetThroughUpTo(ip, t)) <= Limit
  <2>1. CASE t \in 0..now
    BY <2>1 DEF WsLimitKept
  <2>2. CASE t = now + 1
    <3>1. now \in 0..now /\ IsFiniteSet(SpentSockets(ip))
      BY <1>1 DEF WsHitsHeld
    <3>2. Cardinality(LetThroughUpTo(ip, now)) <= Limit
      BY <3>1 DEF WsLimitKept
    <3>3. \A s \in Sockets : wsSpent[s] # NoTime => wsSpent[s] <= now /\ wsSpent[s] \in Nat
      BY StageAssumption DEF SocketTypeOK, Times
    <3>4. LetThroughUpTo(ip, t) \in SUBSET LetThroughUpTo(ip, now)
      BY <1>1, <2>2, <3>3, StageAssumption DEF LetThroughUpTo
    <3>5. Cardinality(LetThroughUpTo(ip, t)) <= Cardinality(LetThroughUpTo(ip, now))
      BY <3>1, <3>4, LetThroughIsFresh, FS_Subset
    <3>6. /\ Cardinality(LetThroughUpTo(ip, t)) \in Nat
          /\ Cardinality(LetThroughUpTo(ip, now)) \in Nat
      BY <3>1, LetThroughIsFresh
    <3> QED BY <3>2, <3>5, <3>6, StageAssumption
  <2> QED BY <1>1, <1>7, <2>1, <2>2
<1> QED BY <1>5, <1>6, <1>7 DEF WsLimitKept

\* The hit an upgrade records was compared with every hit that is still fresh,
\* if the upgrade was let through.
LEMMA UpgradeRecorded ==
    ASSUME TypeOK, SocketTypeOK, NEW s \in Sockets, SocketStep(s), LimitUpgrade(s), Limits(s),
           JudgedOnce(s), NEW ip \in Ips, WsHitsHeld(ip), WsLimitKept(ip)
    PROVE  WsHitsHeld(ip)' /\ WsLimitKept(ip)'
<1> DEFINE client == P(s).ip
<1>1. /\ now' = now /\ peer' = peer /\ client \in Ips
      /\ wsSpent[s] = NoTime /\ wsSpent'[s] = now
      /\ \A u \in Sockets \ {s} : wsSpent'[u] = wsSpent[u] /\ close'[u] = close[u]
      /\ wsHits' = [wsHits EXCEPT ![client] = Append(wsHits[client], now)]
      /\ close'[s] = IF WsOverLimit(client) THEN "RATE_LIMIT_EXCEEDED" ELSE "none"
  BY SocketExtends DEF LimitUpgrade, Limits, Goes, At, JudgedOnce, SocketTypeOK
<1>2. \A u \in Sockets : P(u)' = P(u)
  BY <1>1 DEF P
<1>3. /\ now \in Nat /\ now \in Times /\ now # NoTime /\ Window \in Nat \ {0} /\ Limit \in Nat
      /\ \A a \in Ips : wsHits[a] \in Seq(Times)
  BY StageAssumption DEF TypeOK, StageTypeOK, Times, NoTime, SocketTypeOK
<1>4. s \notin SpentSockets(ip) /\ \A t : s \notin FreshSockets(ip, t)
                                         /\ s \notin LetThroughUpTo(ip, t)
  BY <1>1 DEF SpentSockets, FreshSockets, LetThroughUpTo
<1>5. CASE ip # client
  <2>1. SpentSockets(ip)' = SpentSockets(ip)
    BY <1>1, <1>2, <1>4, <1>5 DEF SpentSockets
  <2>2. \A t : FreshSockets(ip, t)' = FreshSockets(ip, t)
    BY <1>1, <1>4, <2>1 DEF FreshSockets, SpentSockets
  <2>3. \A t : StillCounted(wsHits[ip], t)' = StillCounted(wsHits[ip], t)
    BY <1>1, <1>5 DEF SocketTypeOK, StillCounted, LogWindow
  <2>4. \A t : LetThroughUpTo(ip, t)' = LetThroughUpTo(ip, t)
    BY <1>1, <1>2, <1>4, <1>5 DEF LetThroughUpTo
  <2> QED BY <1>1, <2>1, <2>2, <2>3, <2>4 DEF WsHitsHeld, WsLimitKept
<1>6. CASE ip = client
  <2>1. SpentSockets(ip)' = SpentSockets(ip) \cup {s}
    BY <1>1, <1>2, <1>3, <1>6 DEF SpentSockets
  <2>2. ASSUME NEW t
        PROVE  FreshSockets(ip, t)' = IF t < now + Window
                                      THEN FreshSockets(ip, t) \cup {s} ELSE FreshSockets(ip, t)
    BY <1>1, <1>4, <2>1 DEF FreshSockets, SpentSockets
  <2>3. IsFiniteSet(SpentSockets(ip)) /\ IsFiniteSet(SpentSockets(ip)')
    BY <2>1, FS_AddElement DEF WsHitsHeld
  <2>4. wsHits'[ip] = Append(wsHits[ip], now)
    BY <1>1, <1>6 DEF SocketTypeOK
  <2>5. ASSUME NEW t
        PROVE  /\ IsFiniteSet(StillCounted(wsHits[ip], t))
               /\ Cardinality(StillCounted(wsHits[ip], t)) \in Nat
    BY <1>3, HitAppended, FS_CardinalityType
  <2>6. ASSUME NEW t \in Times
        PROVE  Cardinality(FreshSockets(ip, t)') <= Cardinality(StillCounted(wsHits'[ip], t))
    <3>1. /\ Cardinality(FreshSockets(ip, t)) <= Cardinality(StillCounted(wsHits[ip], t))
          /\ IsFiniteSet(FreshSockets(ip, t)) /\ Cardinality(FreshSockets(ip, t)) \in Nat
      BY <2>3, LetThroughIsFresh DEF WsHitsHeld
    <3>2. CASE t < now + Window
      <4>1. Cardinality(FreshSockets(ip, t)') = Cardinality(FreshSockets(ip, t)) + 1
        BY <1>4, <2>2, <3>1, <3>2, FS_AddElement
      <4>2. Cardinality(StillCounted(wsHits'[ip], t))
               = Cardinality(StillCounted(wsHits[ip], t)) + 1
        BY <1>3, <2>4, <3>2, HitAppended
      <4> QED BY <2>5, <3>1, <4>1, <4>2
    <3>3. CASE ~(t < now + Window)
      <4>1. StillCounted(wsHits'[ip], t) = StillCounted(wsHits[ip], t)
        BY <1>3, <2>4, <3>3, HitAppended
      <4> QED BY <2>2, <3>1, <3>3, <4>1
    <3> QED BY <3>2, <3>3
  <2>7. WsHitsHeld(ip)'
    BY <2>3, <2>6 DEF WsHitsHeld
  <2>8. ASSUME NEW t \in 0..now
        PROVE  Cardinality(LetThroughUpTo(ip, t)') <= Limit
    <3>1. Cardinality(LetThroughUpTo(ip, t)) <= Limit
      BY DEF WsLimitKept
    <3>2. \A u \in Sockets \ {s} : (u \in LetThroughUpTo(ip, t))' <=> u \in LetThroughUpTo(ip, t)
      BY <1>1, <1>2 DEF LetThroughUpTo
    <3>3. CASE s \notin LetThroughUpTo(ip, t)'
      <4>1. LetThroughUpTo(ip, t)' = LetThroughUpTo(ip, t)
        BY <1>4, <3>2, <3>3 DEF LetThroughUpTo
      <4> QED BY <3>1, <4>1
    <3>4. CASE s \in LetThroughUpTo(ip, t)'
      <4>1. t = now /\ ~WsOverLimit(ip)
        BY <1>1, <1>3, <1>6, <3>4 DEF LetThroughUpTo
      <4>2. Recent(ip) + 1 <= Limit /\ Recent(ip) = Cardinality(StillCounted(wsHits[ip], now))
        <5>1. Recent(ip) = Cardinality(StillCounted(wsHits[ip], now))
          BY DEF Recent, StillCounted, LogWindow
        <5> QED BY <1>3, <2>5, <4>1, <5>1 DEF WsOverLimit
      <4>3. Cardinality(FreshSockets(ip, now)) <= Cardinality(StillCounted(wsHits[ip], now))
        BY <1>3 DEF WsHitsHeld
      <4>4. /\ Cardinality(LetThroughUpTo(ip, now)) <= Cardinality(FreshSockets(ip, now))
            /\ IsFiniteSet(LetThroughUpTo(ip, now))
            /\ Cardinality(FreshSockets(ip, now)) \in Nat
            /\ Cardinality(LetThroughUpTo(ip, now)) \in Nat
        BY <2>3, LetThroughIsFresh
      <4>5. LetThroughUpTo(ip, t)' = LetThroughUpTo(ip, now) \cup {s}
        BY <3>2, <3>4, <4>1 DEF LetThroughUpTo
      <4>6. Cardinality(LetThroughUpTo(ip, t)') = Cardinality(LetThroughUpTo(ip, now)) + 1
        BY <1>4, <4>4, <4>5, FS_AddElement
      <4> QED BY <1>3, <2>5, <4>2, <4>3, <4>4, <4>6
    <3> QED BY <3>3, <3>4
  <2>9. WsLimitKept(ip)'
    BY <1>1, <2>8 DEF WsLimitKept
  <2> QED BY <2>7, <2>9
<1> QED BY <1>5, <1>6

\* No other step of a connection records a hit, or judges anew one whose hit
\* is recorded.
LEMMA OthersRecordNothing ==
    ASSUME SocketTypeOK, NEW s \in Sockets, SocketWay(s), JudgedOnce(s), SocketStep(s),
           ~(LimitUpgrade(s) /\ Limits(s))
    PROVE  /\ wsHits' = wsHits /\ wsSpent' = wsSpent
           /\ \/ wsSpent[s] = NoTime
              \/ /\ P(s)' = P(s)
                 /\ close'[s] = "RATE_LIMIT_EXCEEDED" <=> close[s] = "RATE_LIMIT_EXCEEDED"
<1> USE DEF At, socketHistory
<1>1. CASE Upgrade(s) \/ CheckUpgrade(s)
  BY <1>1 DEF Upgrade, CheckUpgrade, SocketWay
<1>2. CASE LimitUpgrade(s)
  BY <1>2 DEF LimitUpgrade, JudgedOnce
<1>3. CASE ScanUpgrade(s) \/ ScanFrame(s)
  <2>1. wsHits' = wsHits /\ wsSpent' = wsSpent /\ peer' = peer /\ close[s] = "none"
    BY <1>3 DEF ScanUpgrade, ScanFrame, JudgedOnce, Unjudged
  <2>2. close'[s] \in {ScanClose(P(s).scan), FrameClose(s)}
    BY <1>3 DEF ScanUpgrade, ScanFrame, Goes, SocketTypeOK
  <2>3. close'[s] # "RATE_LIMIT_EXCEEDED"
    BY <2>2 DEF ScanClose, FrameClose
  <2> QED BY <2>1, <2>3 DEF P
<1>4. CASE AnswerUpgrade(s) \/ Receive(s) \/ SendClose(s) \/ HangUp(s)
  BY <1>4 DEF AnswerUpgrade, Receive, SendClose, HangUp, P
<1> QED BY <1>1, <1>2, <1>3, <1>4 DEF SocketStep, SocketNext, SocketProgress

LEMMA OwnJudgedOnce ==
    ASSUME TypeOK, SocketTypeOK, NEW s \in Sockets, SocketWay(s), JudgedOnce(s), SocketStep(s)
    PROVE  JudgedOnce(s)'
<1> USE DEF At, socketHistory, JudgedOnce, Unjudged, ToLabel, Goes, SocketTypeOK
<1>1. now' = now /\ now \in Nat
  BY SocketExtends, StageAssumption DEF TypeOK, StageTypeOK, Times
<1>2. CASE Upgrade(s)
  BY <1>1, <1>2 DEF Upgrade
<1>3. CASE CheckUpgrade(s)
  <2>1. wsSpent[s] = NoTime /\ wsSpent' = wsSpent
    BY <1>3 DEF CheckUpgrade, SocketWay
  <2> QED BY <1>1, <1>3, <2>1 DEF CheckUpgrade
<1>4. CASE LimitUpgrade(s)
  BY <1>1, <1>4 DEF LimitUpgrade
<1>5. CASE ScanUpgrade(s)
  BY <1>1, <1>5 DEF ScanUpgrade
<1>6. CASE ScanFrame(s)
  BY <1>1, <1>6 DEF ScanFrame
<1>7. CASE AnswerUpgrade(s) \/ Receive(s) \/ SendClose(s) \/ HangUp(s)
  BY <1>1, <1>7 DEF AnswerUpgrade, Receive, SendClose, HangUp, AfterClose
<1> QED BY <1>2, <1>3, <1>4, <1>5, <1>6, <1>7 DEF SocketStep, SocketNext, SocketProgress

LEMMA ClockSteps ==
    ASSUME TypeOK, [ServerNext]_serverVars
    PROVE  now' \in {now, now + 1}
<1>1. CASE Next
  <2>1. CASE EnvironmentStep
    BY <2>1
    DEF EnvironmentStep, Tick, StoreFlips, Reset, OperatorBan, OperatorUnban, vars, environment
  <2> QED BY <1>1, <2>1, ProgressExtends, StepCases
<1>2. CASE \E s \in Sockets : SocketStep(s)
  BY <1>2, SocketExtends
<1>3. CASE UNCHANGED serverVars
  BY <1>3 DEF serverVars, vars, environment
<1> QED BY <1>1, <1>2, <1>3 DEF ServerNext, PipelineStep

LEMMA NextChannel == SInv /\ ChannelInv /\ [ServerNext]_serverVars => ChannelInv'
<1> SUFFICES ASSUME SInv, ChannelInv, [ServerNext]_serverVars PROVE ChannelInv'
  OBVIOUS
<1>1. /\ TypeOK /\ SocketTypeOK
      /\ \A s \in Sockets : SocketWay(s) /\ JudgedOnce(s)
      /\ \A ip \in Ips : FeedKept(ip) /\ WsHitsHeld(ip) /\ WsLimitKept(ip)
  BY DEF SInv, IInv, ChannelInv
<1>2. now \in Nat /\ now' \in {now, now + 1}
  BY <1>1, ClockSteps, StageAssumption DEF TypeOK, StageTypeOK, Times
<1>3. ASSUME NEW s \in Sockets, SocketAside(s)
      PROVE  /\ JudgedOnce(s)' /\ P(s)' = P(s) /\ close'[s] = close[s]
  <2>1. wsSpent[s] \in Int
    BY <1>1, StageAssumption DEF SocketTypeOK, Times, NoTime
  <2>2. wspc'[s] = wspc[s] /\ close'[s] = close[s] /\ wsSpent'[s] = wsSpent[s]
    BY <1>3 DEF SocketAside
  <2> QED BY <1>1, <1>2, <1>3, <2>1, <2>2, AsideAccounts DEF JudgedOnce
<1>4. CASE PipelineStep \/ UNCHANGED serverVars
  <2>1. wscfg' = wscfg /\ wsCounts' = wsCounts /\ wsHits' = wsHits /\ wsSpent' = wsSpent
    BY <1>4 DEF PipelineStep, serverVars, socketVars, socketHistory
  <2>2. \A s \in Sockets : SocketAside(s)
    BY <1>1, <1>4, PipelineAside
  <2>3. ASSUME NEW ip \in Ips PROVE FeedKept(ip)'
    <3>1. FedSockets(ip)' = FedSockets(ip)
      <4>1. \A s \in Sockets : (s \in FedSockets(ip))' <=> s \in FedSockets(ip)
        BY <2>2, AsideAccounts
      <4> QED BY <4>1 DEF FedSockets
    <3> QED BY <1>1, <2>1, <3>1 DEF FeedKept
  <2>4. ASSUME NEW ip \in Ips PROVE WsHitsHeld(ip)' /\ WsLimitKept(ip)'
    BY <1>1, <1>2, <1>3, <2>1, <2>2, WsWindowsStay DEF JudgedOnce
  <2> QED BY <1>3, <2>2, <2>3, <2>4 DEF ChannelInv
<1>5. ASSUME NEW s \in Sockets, SocketStep(s) PROVE ChannelInv'
  <2>1. \A t \in Sockets \ {s} : SocketAside(t)
    BY <1>1, <1>5, OtherSocketsAside
  <2>2. \A t \in Sockets : JudgedOnce(t)'
    BY <1>1, <1>3, <1>5, <2>1, OwnJudgedOnce
  <2>3. ASSUME NEW ip \in Ips PROVE FeedKept(ip)'
    <3>1. wscfg' = wscfg
      BY <1>5 DEF SocketStep, SocketNext, SocketProgress, At, Upgrade, CheckUpgrade,
         LimitUpgrade, ScanUpgrade, AnswerUpgrade, Receive, ScanFrame, SendClose, HangUp
    <3>2. FeedMoves(s, ip)
      BY <1>1, <1>5, ScansFeed, OthersFeedNothing
    <3> QED BY <1>1, <2>1, <3>1, <3>2, FeedKeeps
  <2>4. ASSUME NEW ip \in Ips PROVE WsHitsHeld(ip)' /\ WsLimitKept(ip)'
    <3>1. CASE LimitUpgrade(s) /\ Limits(s)
      BY <1>1, <1>5, <3>1, UpgradeRecorded
    <3>2. CASE ~(LimitUpgrade(s) /\ Limits(s))
      BY <1>1, <1>2, <1>3, <1>5, <2>1, <3>2, OthersRecordNothing, WsWindowsStay DEF JudgedOnce
    <3> QED BY <3>1, <3>2
  <2> QED BY <2>2, <2>3, <2>4 DEF ChannelInv
<1> QED BY <1>4, <1>5 DEF ServerNext

LEMMA InitChannel == ServerInit => ChannelInv
<1> SUFFICES ASSUME ServerInit PROVE ChannelInv
  OBVIOUS
<1>1. /\ now = 0
      /\ \A s \in Sockets : wspc[s] = "absent" /\ close[s] = "none" /\ wsSpent[s] = NoTime
  BY DEF ServerInit, Init, StageInit, SocketInit
<1>2. \A s \in Sockets : JudgedOnce(s)
  BY <1>1 DEF JudgedOnce, NoTime
<1>3. ASSUME NEW ip \in Ips PROVE FeedKept(ip) /\ WsHitsHeld(ip) /\ WsLimitKept(ip)
  <2>1. wsCounts[ip] = 0 /\ wsHits[ip] = <<>>
    BY DEF ServerInit, SocketInit
  <2>2. FedSockets(ip) = {} /\ SpentSockets(ip) = {}
        /\ \A t : FreshSockets(ip, t) = {} /\ LetThroughUpTo(ip, t) = {}
    BY <1>1 DEF FedSockets, SpentSockets, FreshSockets, LetThroughUpTo
  <2>3. \A t : StillCounted(wsHits[ip], t) = {}
    BY <2>1 DEF StillCounted, LogWindow
  <2>4. IsFiniteSet({}) /\ Cardinality({}) = 0 /\ 0 <= Limit
    BY FS_EmptySet, StageAssumption
  <2>5. FeedKept(ip)
    BY <2>1, <2>2, <2>4 DEF FeedKept
  <2>6. \A t : /\ Cardinality(FreshSockets(ip, t)) = 0
               /\ Cardinality(StillCounted(wsHits[ip], t)) = 0
               /\ Cardinality(LetThroughUpTo(ip, t)) = 0
    BY <2>2, <2>3, <2>4
  <2>7. WsHitsHeld(ip) /\ WsLimitKept(ip)
    BY <2>2, <2>4, <2>6 DEF WsHitsHeld, WsLimitKept
  <2> QED BY <2>5, <2>7
<1> QED BY <1>2, <1>3 DEF ChannelInv

----------------------------------------------------------------------------
(* The theorems.                                                           *)

LEMMA InitSInv == ServerInit => SInv
<1> SUFFICES ASSUME ServerInit PROVE SInv
  OBVIOUS
<1>1. IInv
  BY InitIInv DEF ServerInit
<1>2. SocketTypeOK
  <2>1. (CHOOSE p \in Peers : TRUE) \in Peers
    BY WebSocketAssumption
  <2>2. wsHits \in [Ips -> Seq(Times)]
    BY DEF ServerInit, SocketInit
  <2> QED
    BY <2>1, <2>2, WebSocketAssumption
    DEF ServerInit, SocketInit, SocketTypeOK, SocketLabels, Frames
<1>3. ASSUME NEW s \in Sockets PROVE SocketWay(s) /\ HeldSocket(s)
  <2>1. /\ wspc[s] = "absent" /\ handshake[s].status = 0 /\ wsSpent[s] = NoTime
        /\ delivered[s] = {} /\ ~wsBanHeld[s]
    BY DEF ServerInit, SocketInit
  <2> QED BY <2>1 DEF SocketWay, HeldSocket, Accepted
<1> QED BY <1>1, <1>2, <1>3 DEF SInv

LEMMA NextSInv == SInv /\ [ServerNext]_serverVars => SInv'
<1>1. SInv => IInv
  BY DEF SInv
<1> QED
  BY <1>1, ServerKeepsIInv, ServerKeepsSocketTypes, ServerKeepsSocketWay, ServerKeepsHeldSocket
  DEF SInv

LEMMA AlwaysSInv == ServerSpec => []SInv
BY InitSInv, NextSInv, PTL DEF ServerSpec

\* Every variable of the server keeps to its type.
THEOREM ServerTypeCorrect == ServerSpec => []ServerTypeOK
<1>1. SInv => ServerTypeOK
  BY DEF SInv, IInv, ServerTypeOK
<1> QED BY <1>1, AlwaysSInv, PTL

\* A channel opens only for a client every arm of run_websocket_checks let
\* through, and the application is given no frame that scan_frame flagged or
\* panicked on, for any number of connections.
THEOREM ChannelMediation == ServerSpec => []ChannelsAreMediated
<1>1. SInv => ChannelsAreMediated
  BY DEF SInv, SocketWay, EarlyPassed, ChannelsAreMediated
<1> QED BY <1>1, AlwaysSInv, PTL

\* An upgrade that began under a ban opens no channel and takes no hit,
\* whoever placed the ban and whatever comes between its steps.
THEOREM BansHoldAtTheUpgrade == ServerSpec => []BannedStaysOut
<1>1. SInv => BannedStaysOut
  BY DEF SInv, SocketWay, NotUnderBan, BannedStaysOut
<1> QED BY <1>1, AlwaysSInv, PTL

LEMMA AlwaysChannel == ServerSpec => []ChannelInv
BY InitChannel, NextChannel, AlwaysSInv, PTL DEF ServerSpec

\* The feed's counters are the connections rejected for suspicious activity,
\* each counted once, at the handshake or in the channel, however many connect.
THEOREM FeedIsAccounted == ServerSpec => []DetectionsCounted
<1>1. ChannelInv => DetectionsCounted
  BY DEF ChannelInv, FeedKept, DetectionsCounted
<1> QED BY <1>1, AlwaysChannel, PTL

\* No window of the "ws" limiter lets more upgrades through than the limit,
\* however the sequences of any number of connections interleave.
THEOREM UpgradeLimitIsKept == ServerSpec => []UpgradesWithinLimit
<1>1. ChannelInv => UpgradesWithinLimit
  BY DEF ChannelInv, WsLimitKept, UpgradesWithinLimit
<1> QED BY <1>1, AlwaysChannel, PTL

\* The channels' bans come between the steps of HTTP requests and take nothing
\* from what the pipeline promises: complete mediation, one hit, biting bans.
THEOREM PipelineBesideChannels ==
    ServerSpec => [](CompleteMediation /\ OneHit /\ BanBites)
BY ServerIInv, IInvMediates, IInvHitsOnce, IInvBansBite, PTL

\* What the pipeline accounts for and answers, in one invariant.
AccountInv ==
    Outcomes /\ Bodied /\ UsageInv /\ GateInv /\ DetectionInv /\ PassiveInv /\ WindowInv

LEMMA SocketKeepsAccounts ==
    ASSUME IInv, AccountInv, NEW s \in Sockets, SocketStep(s)
    PROVE  AccountInv'
<1>1. \A r \in Requests : Aside(r) /\ Q(r)' = Q(r)
  BY DEF SocketStep, environment, localVars, history, Aside, Same, Q
<1>2. /\ cfg' = cfg /\ now' = now /\ usage' = usage /\ counts' = counts
      /\ windows' = windows /\ spent' = spent /\ metadata' = metadata /\ pc' = pc
  BY DEF SocketStep, environment, localVars, history
<1>3. Outcomes'
  BY <1>1, AsideKeepsOutcome DEF AccountInv, Outcomes
<1>4. Bodied'
  BY <1>1 DEF AccountInv, Bodied, Embodied, Aside
<1>5. UsageInv' /\ DetectionInv' /\ PassiveInv'
  BY <1>1, <1>2, UsageStays, DetectionStays, PassiveStays DEF AccountInv
<1>6. WindowInv'
  <2>1. \A ip \in Ips, b \in Backends : HitsHeld(ip, b)' /\ LimitKept(ip, b)'
    BY <1>1, <1>2, WindowsStay DEF AccountInv, IInv
  <2> QED BY <1>2, <2>1 DEF AccountInv, WindowInv
<1>7. GateInv'
  BY <1>1, GateKept DEF AccountInv, GateInv, Aside
<1> QED BY <1>3, <1>4, <1>5, <1>6, <1>7 DEF AccountInv

LEMMA ServerKeepsAccounts == IInv /\ AccountInv /\ [ServerNext]_serverVars => AccountInv'
<1> SUFFICES ASSUME IInv, AccountInv, [ServerNext]_serverVars PROVE AccountInv'
  OBVIOUS
<1>1. CASE [Next]_vars
  <2>1. \A s \in Requests : NotYetBarred(s)
    BY DEF AccountInv, DetectionInv
  <2>2. Outcomes' /\ Bodied' /\ UsageInv'
    BY <1>1, NextOutcomes, NextBodied, NextUsage DEF AccountInv
  <2>3. GateInv' /\ DetectionInv' /\ PassiveInv'
    BY <1>1, <2>1, NextGate, NextDetection, NextPassive DEF AccountInv
  <2> QED BY <1>1, <2>2, <2>3, NextWindow DEF AccountInv
<1> QED BY <1>1, SocketKeepsAccounts DEF ServerNext, PipelineStep, serverVars

LEMMA InitAccounts == Init => AccountInv
BY InitOutcome, InitBodied, InitUsage, InitGate, InitDetection, InitPassive, InitWindow
DEF OutcomeInv, AccountInv

LEMMA AlwaysAccounts == ServerSpec => []AccountInv
BY InitAccounts, ServerKeepsAccounts, ServerIInv, PTL DEF ServerSpec, ServerInit

\* Neither do they spoil its accounts or its answers: the observations, the
\* violations of either mode and the windows of the HTTP requests, the status
\* and the face of their refusals, the answers of their handlers and the lane
\* of the events are what they are without channels.
THEOREM AccountsBesideChannels ==
    ServerSpec => [](/\ UsageAccounted /\ ViolationsAccounted /\ PassiveCountsPerPhase
                     /\ AdmittedWithinLimit /\ EventOnlyWhenForwarded
                     /\ RefusalKeepsItsStatus /\ HandlersAnswerStands /\ ShieldIsFaithful)
<1>1. AccountInv => UsageAccounted
  BY DEF AccountInv, UsageInv, LogHolds, UsageAccounted
<1>2. AccountInv => ViolationsAccounted /\ PassiveCountsPerPhase /\ AdmittedWithinLimit
  BY DEF AccountInv, DetectionInv, ViolationsAccounted, PassiveInv, PassiveCountsPerPhase,
     WindowInv, LimitKept, AdmittedWithinLimit
<1>3. IInv /\ AccountInv => /\ EventOnlyWhenForwarded /\ RefusalKeepsItsStatus
                            /\ HandlersAnswerStands /\ ShieldIsFaithful
  BY OutcomesForward, OutcomesKeepStatus, OutcomesKeepAnswers, BodiedShield DEF AccountInv
<1> QED BY <1>1, <1>2, <1>3, AlwaysAccounts, ServerIInv, PTL

----------------------------------------------------------------------------
(* The bans of both guards.                                                *)

\* What a step of the server does to the bans, and what counted for it.
ServerBansFollow(ip) ==
    /\ bans'[ip] > bans[ip] => (Earned(ip) /\ wspc' = wspc) \/ FeedReachesThreshold(ip)
    /\ BansAtOnce(ip)
    /\ FeedReachesThreshold(ip) => bans'[ip] = now + BanFor

\* A step that counts no violation of either guard and bans nobody.
LEMMA NothingFollows ==
    ASSUME TypeOK, SocketTypeOK, NEW ip \in Ips, counts' = counts, bans' = bans,
           wsCounts'[ip] = wsCounts[ip]
    PROVE  ServerBansFollow(ip)
<1>1. ~(bans'[ip] > bans[ip]) /\ wsCounts[ip] \in Nat
  BY DEF TypeOK, StageTypeOK, SocketTypeOK
<1>2. BansAtOnce(ip)
  BY <1>1, NothingEarned DEF BansFollow
<1> QED BY <1>1, <1>2 DEF ServerBansFollow, FeedReachesThreshold

\* A detection of a frame or of an upgrade, fed for a client.
LEMMA WsFeedEarns ==
    ASSUME TypeOK, SocketTypeOK, NEW i, NEW ip \in Ips, counts' = counts,
           wsCounts' = WsCountsAfter(i), bans' = WsBansAfter(i)
    PROVE  ServerBansFollow(ip)
<1>1. /\ wsCounts \in [Ips -> Nat] /\ bans \in [Ips -> Nat]
      /\ now \in Nat /\ BanFor \in Nat /\ Threshold \in Nat
  BY StageAssumption DEF TypeOK, StageTypeOK, SocketTypeOK, Times
<1>2. CASE Feeds(i) /\ ip = i
  <2>1. BansAtOnce(ip)
    BY DEF BansAtOnce, ReachesThreshold, TypeOK, StageTypeOK
  <2>2. wsCounts'[ip] = wsCounts[ip] + 1
    BY <1>1, <1>2 DEF WsCountsAfter
  <2>3. CASE WsCrosses(i)
    <3>1. bans'[ip] = now + BanFor /\ FeedReachesThreshold(ip)
      BY <1>1, <1>2, <2>2, <2>3 DEF WsBansAfter, BanUntil, WsCrosses, FeedReachesThreshold
    <3> QED BY <2>1, <3>1 DEF ServerBansFollow
  <2>4. CASE ~WsCrosses(i)
    <3>1. ~(bans'[ip] > bans[ip]) /\ ~FeedReachesThreshold(ip)
      BY <1>1, <1>2, <2>2, <2>4 DEF WsBansAfter, WsCrosses, FeedReachesThreshold
    <3> QED BY <2>1, <3>1 DEF ServerBansFollow
  <2> QED BY <2>3, <2>4
<1>3. CASE ~(Feeds(i) /\ ip = i)
  <2>1. wsCounts'[ip] = wsCounts[ip] /\ bans'[ip] = bans[ip]
    BY <1>1, <1>3 DEF WsCountsAfter, WsBansAfter, WsCrosses, BanUntil
  <2>2. ~(bans'[ip] > bans[ip]) /\ ~FeedReachesThreshold(ip)
    BY <1>1, <2>1 DEF FeedReachesThreshold
  <2>3. BansAtOnce(ip)
    BY DEF BansAtOnce, ReachesThreshold, TypeOK, StageTypeOK
  <2> QED BY <2>2, <2>3 DEF ServerBansFollow
<1> QED BY <1>2, <1>3

LEMMA SocketBansFollow ==
    ASSUME TypeOK, SocketTypeOK, NEW s \in Sockets, SocketStep(s), NEW ip \in Ips
    PROVE  ServerBansFollow(ip)
<1>1. counts' = counts
  BY DEF SocketStep
<1>2. \/ bans' = bans /\ wsCounts' = wsCounts
      \/ \E i : bans' = WsBansAfter(i) /\ wsCounts' = WsCountsAfter(i)
  BY DEF SocketStep, SocketNext, SocketProgress, Upgrade, CheckUpgrade, LimitUpgrade,
     ScanUpgrade, AnswerUpgrade, ScanFrame, SendClose, Receive, HangUp
<1> QED BY <1>1, <1>2, NothingFollows, WsFeedEarns

LEMMA ServerNextBansFollow ==
    ASSUME TypeOK, Outcomes, SocketTypeOK, [ServerNext]_serverVars, NEW ip \in Ips
    PROVE  ServerBansFollow(ip)
<1>1. CASE PipelineStep
  <2>1. /\ BansFollow(ip)
        /\ wspc' = wspc /\ wsCounts' = wsCounts /\ wsCounts[ip] \in Nat
    BY <1>1, NextBansFollow DEF PipelineStep, socketLocals, SocketTypeOK
  <2> QED BY <2>1 DEF BansFollow, ServerBansFollow, FeedReachesThreshold
<1>2. CASE UNCHANGED serverVars
  BY <1>2, NothingFollows DEF serverVars, vars, stores, socketVars
<1> QED BY <1>1, <1>2, SocketBansFollow DEF ServerNext

\* Over one ban manager each guard bans for its own counters: whatever the
\* requests and the connections do beside each other, a ban is placed in the
\* step that counts the violation it is for, and none is left outstanding.
THEOREM BansFollowBothGuards == ServerSpec => ServerBansAreEarned
<1>1. SInv /\ AccountInv /\ [ServerNext]_serverVars =>
         [\A ip \in Ips :
             /\ bans'[ip] > bans[ip] =>
                   (Earned(ip) /\ wspc' = wspc) \/ FeedReachesThreshold(ip)
             /\ BansAtOnce(ip)
             /\ FeedReachesThreshold(ip) => bans'[ip] = now + BanFor]_serverVars
  BY ServerNextBansFollow DEF SInv, IInv, AccountInv, ServerBansFollow
<1> QED BY <1>1, AlwaysSInv, AlwaysAccounts, PTL DEF ServerSpec, ServerBansAreEarned

----------------------------------------------------------------------------
(* The promise, with channels.                                             *)

\* What the promise allows without channels it allows with them.
LEMMA PromiseCarries ==
    ASSUME Promise!Next
    PROVE  PromiseBeside!Next
<1>1. ASSUME NEW r \in Requests, Promise!Take(r) PROVE PromiseBeside!Next
  BY <1>1 DEF Promise!Take, PromiseBeside!Take, PromiseBeside!Next
<1>2. ASSUME NEW r \in Requests PROVE Promise!OwnBan(r) => PromiseBeside!OwnBan(r)
  BY DEF Promise!OwnBan, PromiseBeside!OwnBan
<1>3. ASSUME NEW r \in Requests, NEW from, NEW to, Promise!Move(r, from, to)
      PROVE  PromiseBeside!Move(r, from, to)
  BY <1>3 DEF Promise!Move, PromiseBeside!Move
<1>4. ASSUME NEW r \in Requests, Promise!Screen(r) PROVE PromiseBeside!Next
  BY <1>2, <1>4 DEF Promise!Screen, PromiseBeside!Screen, PromiseBeside!Next
<1>5. ASSUME NEW r \in Requests, Promise!Settle(r) PROVE PromiseBeside!Next
  BY <1>2, <1>3, <1>5
  DEF Promise!Settle, Promise!Admit, Promise!Refuse, PromiseBeside!Settle,
      PromiseBeside!Admit, PromiseBeside!Refuse, PromiseBeside!Next
<1>6. ASSUME NEW r \in Requests, Promise!Serve(r) \/ Promise!Answer(r)
      PROVE  PromiseBeside!Next
  BY <1>2, <1>3, <1>6
  DEF Promise!Serve, Promise!Answer, PromiseBeside!Serve, PromiseBeside!Answer,
      PromiseBeside!Next
<1>7. CASE Promise!Pardon
  BY <1>7 DEF Promise!Pardon, PromiseBeside!Pardon, PromiseBeside!Next
<1>8. ASSUME NEW a \in Ips, Promise!Ban(a) PROVE PromiseBeside!Next
  BY <1>8 DEF Promise!Ban, PromiseBeside!Ban, PromiseBeside!Next
<1> QED BY <1>1, <1>4, <1>5, <1>6, <1>7, <1>8 DEF Promise!Next

\* A connection's step moves no request, and bans at most one address.
LEMMA SocketKeepsPromise ==
    ASSUME TypeOK, NEW s \in Sockets, SocketStep(s)
    PROVE  PromiseBeside!Next
<1>1. pc' = pc /\ req' = req /\ ran' = ran /\ hits' = hits
  BY DEF SocketStep, localVars, history
<1>2. Phase' = Phase /\ Client' = Client
  BY <1>1, AsideKeepsPromise
<1>3. CASE bans' = bans
  <2>1. Banned' \subseteq Banned
    BY <1>3, SocketExtends, BannedStays
  <2> QED BY <1>1, <2>1, AsideKeepsPromise, PromiseCarries
<1>4. ASSUME NEW ip \in Ips, bans' = BanUntil(ip) PROVE PromiseBeside!Next
  <2>1. Banned' = Banned \cup {ip}
    BY <1>4, SocketExtends, BannedByBan
  <2>2. PromiseBeside!Ban(ip)
    BY <1>1, <1>2, <2>1 DEF PromiseBeside!Ban, Phase, Client, Banned
  <2> QED BY <2>2 DEF PromiseBeside!Next
<1> QED BY <1>3, <1>4, SocketExtends

\* The pipeline implements GuardPromise beside any number of channels: of what
\* it promises of its requests a connection's step touches the bans alone, and
\* there it only adds one.
THEOREM PromiseKeptBeside == ServerSpec => KeepsPromiseBeside
<1>1. Init => PromiseBeside!Init
  BY InitKeepsPromise DEF Promise!Init, PromiseBeside!Init
<1>2. IInv /\ [ServerNext]_serverVars => [PromiseBeside!Next]_(PromiseBeside!vars)
  <2> SUFFICES ASSUME IInv, [ServerNext]_serverVars
               PROVE  PromiseBeside!Next \/ UNCHANGED PromiseBeside!vars
    OBVIOUS
  <2>1. CASE [Next]_vars
    <3>1. Promise!Next \/ UNCHANGED Promise!vars
      BY <2>1, NextKeepsPromise
    <3> QED BY <3>1, PromiseCarries DEF Promise!vars, PromiseBeside!vars
  <2>2. ASSUME NEW s \in Sockets, SocketStep(s) PROVE PromiseBeside!Next
    BY <2>2, SocketKeepsPromise DEF IInv
  <2> QED BY <2>1, <2>2 DEF ServerNext, PipelineStep, serverVars
<1> QED BY <1>1, <1>2, ServerIInv, PTL
    DEF ServerSpec, ServerInit, KeepsPromiseBeside, PromiseBeside!Safe

=============================================================================
