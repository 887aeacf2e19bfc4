---------------------------- MODULE GuardedServer ----------------------------
(***************************************************************************)
(* A server with both guards: HTTP requests in the pipeline and WebSocket  *)
(* channels beside them, over one ban manager and one clock.               *)
(***************************************************************************)
EXTENDS PipelineProperties, WebSocketGuard

serverVars == <<vars, socketVars>>

ServerInit == Init /\ SocketInit

\* A connection whose client is still there.
Connected(s) == wspc[s] \notin {"absent", "ended"}

\* The pipeline, the clock, the store or the operator makes a step.
PipelineStep ==
    /\ Next
    /\ wsBanHeld' = [s \in Sockets |->
          wsBanHeld[s] /\ (Connected(s) => now' < bans'[P(s).ip])]
    /\ UNCHANGED <<wscfg, wsCounts, wsHits, socketLocals, delivered, wsSpent>>

\* A connection makes a step; of the pipeline's state it reaches the bans.
SocketStep(s) ==
    /\ SocketNext(s)
    /\ UNCHANGED <<environment, counts, windows, usage, localVars, history>>

ServerNext == PipelineStep \/ \E s \in Sockets : SocketStep(s)

ServerSpec == ServerInit /\ [][ServerNext]_serverVars

----------------------------------------------------------------------------

SocketTypeOK ==
    /\ wscfg \in WsConfigs
    /\ wsCounts \in [Ips -> Nat]
    /\ wsHits \in [Ips -> Seq(Times)]
    /\ wspc \in [Sockets -> SocketLabels]
    /\ peer \in [Sockets -> Peers]
    /\ frame \in [Sockets -> Frames]
    /\ close \in [Sockets -> Closes \cup {"none"}]
    /\ handshake \in [Sockets -> [status : {0, 101, 403}, code : {0, 1008, 1013}]]
    /\ received \in [Sockets -> 0..MaxFrames]
    /\ delivered \in [Sockets -> SUBSET Scans]
    /\ wsSpent \in [Sockets -> Times \cup {NoTime}]
    /\ wsBanHeld \in [Sockets -> BOOLEAN]

ServerTypeOK == TypeOK /\ SocketTypeOK

Accepted(s) == handshake[s].status = 101

\* Complete mediation of the channels: one opens only with the guard managed,
\* for a client every arm of the sequence let through, and the application is
\* given no frame the scan flagged or panicked on.
ChannelsAreMediated ==
    \A s \in Sockets :
        /\ Accepted(s) =>
              /\ wscfg.managed
              /\ ~(wscfg.failSecure /\ P(s).ip = NoIp)
              /\ wscfg.gate /\ P(s).ip \in Ips => Listing[P(s).ip] # "denied"
              /\ AsksCountry(s) => P(s).country = "allowed"
              /\ P(s).scan = "clean"
        /\ delivered[s] # {} => Accepted(s)
        /\ delivered[s] \cap {"threat", "panic"} = {}

\* A ban in the shared manager keeps a client out of both doors: an upgrade
\* that began under a ban opens no channel and takes no hit of the "ws" window,
\* whitelisted or not, whether the ban came from a frame, from an upgrade, from
\* an HTTP request or from the operator.
BannedStaysOut ==
    \A s \in Sockets :
        wscfg.manager /\ wsBanHeld[s] => ~Accepted(s) /\ wsSpent[s] = NoTime

\* The connections rejected for a detection that was fed.
FedSockets(ip) ==
    {s \in Sockets : /\ close[s] = "SUSPICIOUS_ACTIVITY"
                     /\ ip = IF Accepted(s) THEN Identity(s) ELSE P(s).ip}

\* The feed's counters are exactly the connections rejected for suspicious
\* activity, one each: a channel whose frame was rejected scans no other frame,
\* so one client cannot be counted twice on one channel.
DetectionsCounted ==
    \A ip \in Ips :
        wsCounts[ip] = IF wscfg.feed = "none" THEN 0 ELSE Cardinality(FedSockets(ip))

\* The upgrades of an address the limiter let through in the window up to t.
LetThroughUpTo(ip, t) ==
    {s \in Sockets : /\ P(s).ip = ip
                     /\ wsSpent[s] # NoTime
                     /\ close[s] # "RATE_LIMIT_EXCEEDED"
                     /\ wsSpent[s] <= t
                     /\ t < wsSpent[s] + Window}

\* No window lets more upgrades through than the limit, however their
\* sequences interleave on the worker threads.
UpgradesWithinLimit ==
    \A ip \in Ips, t \in 0..now : Cardinality(LetThroughUpTo(ip, t)) <= Limit

\* The feed's violation with which a connection's client reaches the threshold.
FeedReachesThreshold(ip) ==
    /\ wscfg.manager /\ wscfg.feed = "bans"
    /\ wsCounts'[ip] = wsCounts[ip] + 1
    /\ wsCounts'[ip] >= Threshold

\* The shared manager's bans follow the counters of both guards: each new ban
\* is earned at one of the doors, in the step that counts the violation, and
\* neither guard's counters ban for the other's.
ServerBansAreEarned ==
    [][\A ip \in Ips :
          /\ bans'[ip] > bans[ip] =>
                (Earned(ip) /\ wspc' = wspc) \/ FeedReachesThreshold(ip)
          /\ BansAtOnce(ip)
          /\ FeedReachesThreshold(ip) => bans'[ip] = now + BanFor]_serverVars

\* Beside channels the requests' environment bans, as an operator may.
PromiseBeside == INSTANCE GuardPromise WITH
    Addresses <- Ips,
    Nobody <- NoIp,
    MayBan <- "ban" \in OperatorActs \/ Sockets # {},
    phase <- [r \in Requests |-> PhaseOf(r)],
    client <- [r \in Requests |-> IF pc[r] = "idle" THEN NoIp ELSE Q(r).ip],
    charge <- hits,
    banned <- {ip \in Ips : LiveBan(ip)}

\* The pipeline keeps its promise beside the channels: no connection's step
\* moves, charges or settles a request, or lifts a ban, and one at a time is
\* all the bans it places.
KeepsPromiseBeside == PromiseBeside!Safe

=============================================================================
