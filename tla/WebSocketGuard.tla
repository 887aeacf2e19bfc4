--------------------------- MODULE WebSocketGuard ---------------------------
(***************************************************************************)
(* The WebSocket guard: the check sequence an upgrade request runs in its  *)
(* request guard, the scan of each frame of the channel that follows, and  *)
(* the channel loop the module's documentation gives its routes.           *)
(*                                                                         *)
(* The guard shares the ban manager with the HTTP pipeline (clones share   *)
(* the store); its violation counters and its limiter are its own.  The    *)
(* sequence runs without an await, but on one of many worker threads: a    *)
(* step of it ends at each of the three stores.                            *)
(***************************************************************************)
EXTENDS RequestChecks

CONSTANTS
    Sockets,      \* connection slots; each carries one upgrade request
    Peers,        \* the clients that may connect ...
    PeerShape,    \* ... and what each sends
    WsConfigs,    \* the configurations the guard may be built with
    MaxFrames     \* bound: frames a client sends on one channel

Scans == {"clean", "threat", "panic"}
Frames == Scans \cup {"control"}

Peer ==
    [ip : Ips \cup {NoIp},
     country : {"allowed", "blocked", "panic"}, \* what the geo handler does
     scan : Scans,             \* the scan of path, query and headers
     captures : BOOLEAN,       \* the route takes a Result<WebSocketGuard, _>
     names : BOOLEAN]          \* its loop gives scan_frame the client's address

WsConfig ==
    [managed : BOOLEAN,        \* a WebSocketGuard is managed
     gate : BOOLEAN,           \* with_ip_gate
     manager : BOOLEAN,        \* with_ip_banning, with the stage's manager
     limiter : BOOLEAN,        \* with_rate_limiting
     countries : BOOLEAN,      \* with_country_rules
     feed : {"none", "counts", "bans"}, \* with_violation_feed, its ban switch
     failSecure : BOOLEAN]     \* with_fail_secure

ASSUME WebSocketAssumption ==
    /\ Peers # {}
    /\ PeerShape \in [Peers -> Peer]
    /\ WsConfigs \subseteq WsConfig
    /\ MaxFrames \in Nat

VARIABLES
    wscfg,      \* what the guard was built with; never changes
    wsCounts,   \* the feed's counters: address -> violations
    wsHits,     \* the limiter's "ws" windows: address -> times of the hits
    wspc,       \* where each connection is
    peer,       \* its client
    frame,      \* the frame in the loop's hands, "control" for none
    close,      \* the close shape it was rejected with
    handshake,  \* the answer to the upgrade request
    received,   \* frames the client has sent
    \* History, read by properties only:
    delivered,  \* payloads the application got, by what they hold
    wsSpent,    \* when its hit was recorded
    wsBanHeld   \* the address was under a live ban ever since the upgrade

socketLocals == <<wspc, peer, frame, close, handshake, received>>
socketHistory == <<delivered, wsSpent, wsBanHeld>>
socketVars == <<wscfg, wsCounts, wsHits, socketLocals, socketHistory>>

SocketLabels == {"absent", "bans", "rate", "scan", "answer", "open", "frame",
                 "closing", "ended"}

Closes == {"IP_BANNED", "IP_NOT_ALLOWED", "RATE_LIMIT_EXCEEDED",
           "CLIENT_ADDRESS_UNKNOWN", "SECURITY_CHECK_FAILED",
           "SUSPICIOUS_ACTIVITY"}

\* Mutant: a malfunction closes with the protocol's own internal error.
CloseCodeInternal(reason) == IF reason = "SECURITY_CHECK_FAILED" THEN 1011 ELSE 1008

\* 1013 for a malfunction, 1008 for a policy.
CloseCode(reason) == IF reason = "SECURITY_CHECK_FAILED" THEN 1013 ELSE 1008

NoTime == -1

P(s) == PeerShape[peer[s]]

SocketInit ==
    /\ wscfg \in WsConfigs
    /\ wsCounts = [ip \in Ips |-> 0]
    /\ wsHits = [ip \in Ips |-> <<>>]
    /\ wspc = [s \in Sockets |-> "absent"]
    /\ peer = [s \in Sockets |-> CHOOSE p \in Peers : TRUE]
    /\ frame = [s \in Sockets |-> "control"]
    /\ close = [s \in Sockets |-> "none"]
    /\ handshake = [s \in Sockets |-> [status |-> 0, code |-> 0]]
    /\ received = [s \in Sockets |-> 0]
    /\ delivered = [s \in Sockets |-> {}]
    /\ wsSpent = [s \in Sockets |-> NoTime]
    /\ wsBanHeld = [s \in Sockets |-> FALSE]

----------------------------------------------------------------------------
(* The violation feed and the limiter.                                     *)

\* feed_violations: no feed or no identity counts nothing, no manager counts
\* only; a crossed threshold bans through the manager.
Feeds(ip) == wscfg.feed # "none" /\ ip \in Ips

\* Mutant: the violation after the one that reaches the threshold bans.
WsCrossesLate(ip) ==
    /\ Feeds(ip)
    /\ wscfg.manager
    /\ wscfg.feed = "bans"
    /\ wsCounts[ip] + 1 > Threshold

WsCrosses(ip) ==
    /\ Feeds(ip)
    /\ wscfg.manager
    /\ wscfg.feed = "bans"
    /\ wsCounts[ip] + 1 >= Threshold

WsCountsAfter(ip) == IF Feeds(ip) THEN [wsCounts EXCEPT ![ip] = @ + 1] ELSE wsCounts

\* Mutant: the feed's ban replaces the list of bans.
WsBansAlone(ip) ==
    IF WsCrosses(ip) THEN [i \in Ips |-> IF i = ip THEN now + BanFor ELSE 0] ELSE bans

WsBansAfter(ip) == IF WsCrosses(ip) THEN BanUntil(ip) ELSE bans

Recent(ip) == Cardinality({i \in DOMAIN wsHits[ip] : now < wsHits[ip][i] + Window})

\* The limiter is asked: it records the hit, then compares.
Limits(s) == wscfg.limiter /\ P(s).ip \in Ips /\ ~(wscfg.gate /\ Listing[P(s).ip] = "whitelisted")

\* Mutant: the hit is compared before it is recorded.
WsOverLimitBefore(ip) == Recent(ip) > Limit

WsOverLimit(ip) == Recent(ip) + 1 > Limit

----------------------------------------------------------------------------
(* The handshake: run_websocket_checks.                                    *)

At(s, label) == wspc[s] = label /\ UNCHANGED <<wscfg, peer>>

ToLabel(s, label) == wspc' = [wspc EXCEPT ![s] = label]

\* The sequence goes on, or returns its close shape.
Goes(s, reason, label) ==
    /\ ToLabel(s, IF reason = "none" THEN label ELSE "answer")
    /\ close' = [close EXCEPT ![s] = reason]

\* An upgrade request reaches a route that declares the guard.
Upgrade(s) ==
    /\ wspc[s] = "absent"
    /\ \E p \in Peers :
          /\ peer' = [peer EXCEPT ![s] = p]
          /\ wsBanHeld' =
                [wsBanHeld EXCEPT ![s] = PeerShape[p].ip \in Ips /\ LiveBan(PeerShape[p].ip)]
    /\ ToLabel(s, "bans")
    /\ UNCHANGED <<wscfg, wsCounts, wsHits, bans, frame, close, handshake,
                   received, delivered, wsSpent>>

\* The country rules are asked; a whitelisted address passes them.
AsksCountry(s) ==
    /\ wscfg.countries
    /\ P(s).ip \in Ips
    /\ ~(wscfg.gate /\ Listing[P(s).ip] = "whitelisted")

\* Mutant: the gate is asked before the ban arm, and a whitelisted address
\* skips it.
WsBannedUnlessListed(s) ==
    /\ wscfg.manager
    /\ P(s).ip \in Ips
    /\ ~(wscfg.gate /\ Listing[P(s).ip] = "whitelisted")
    /\ LiveBan(P(s).ip)

\* The ban arm comes before the gate: no list is an argument.
WsBanned(s) == wscfg.manager /\ P(s).ip \in Ips /\ LiveBan(P(s).ip)

\* from_request and the sequence up to the rate limit.
EarlyClose(s) ==
    IF ~wscfg.managed THEN "SECURITY_CHECK_FAILED"
    ELSE IF P(s).ip = NoIp /\ wscfg.failSecure THEN "CLIENT_ADDRESS_UNKNOWN"
    ELSE IF WsBanned(s) THEN "IP_BANNED"
    ELSE IF wscfg.gate /\ P(s).ip \in Ips /\ Listing[P(s).ip] = "denied" THEN "IP_NOT_ALLOWED"
    ELSE IF AsksCountry(s) /\ P(s).country = "panic" THEN "SECURITY_CHECK_FAILED"
    ELSE IF AsksCountry(s) /\ P(s).country = "blocked" THEN "IP_NOT_ALLOWED"
    ELSE "none"

CheckUpgrade(s) ==
    /\ At(s, "bans")
    /\ Goes(s, EarlyClose(s), "rate")
    /\ UNCHANGED <<wsCounts, wsHits, bans, frame, handshake, received, socketHistory>>

\* check(ip, "ws").
LimitUpgrade(s) ==
    /\ At(s, "rate")
    /\ IF Limits(s)
       THEN /\ wsHits' = [wsHits EXCEPT ![P(s).ip] = Append(@, now)]
            /\ wsSpent' = [wsSpent EXCEPT ![s] = now]
            /\ Goes(s, IF WsOverLimit(P(s).ip) THEN "RATE_LIMIT_EXCEEDED" ELSE "none", "scan")
       ELSE Goes(s, "none", "scan") /\ UNCHANGED <<wsHits, wsSpent>>
    /\ UNCHANGED <<wsCounts, bans, frame, handshake, received, delivered, wsBanHeld>>

\* What a scan returns: the frame's and the upgrade's share run_guarded.
ScanClose(scan) ==
    CASE scan = "threat" -> "SUSPICIOUS_ACTIVITY"
      [] scan = "panic" -> "SECURITY_CHECK_FAILED"
      [] OTHER -> "none"

ScanUpgrade(s) ==
    /\ At(s, "scan")
    /\ Goes(s, ScanClose(P(s).scan), "answer")
    /\ IF P(s).scan = "threat"
       THEN wsCounts' = WsCountsAfter(P(s).ip) /\ bans' = WsBansAfter(P(s).ip)
       ELSE UNCHANGED <<wsCounts, bans>>
    /\ UNCHANGED <<wsHits, frame, handshake, received, socketHistory>>

\* The guard's outcome: the channel, or the pre-accept 403, which a route
\* that captures the outcome renders with the close shape.
AnswerUpgrade(s) ==
    /\ At(s, "answer")
    /\ IF close[s] = "none"
       THEN ToLabel(s, "open") /\ handshake' = [handshake EXCEPT ![s] = [status |-> 101, code |-> 0]]
       ELSE /\ ToLabel(s, "ended")
            /\ handshake' = [handshake EXCEPT ![s] =
                   [status |-> 403, code |-> IF P(s).captures THEN CloseCode(close[s]) ELSE 0]]
    /\ UNCHANGED <<wsCounts, wsHits, bans, frame, close, received, socketHistory>>

----------------------------------------------------------------------------
(* The channel.                                                            *)

Receive(s) ==
    /\ At(s, "open")
    /\ received[s] < MaxFrames
    /\ \E f \in Frames : frame' = [frame EXCEPT ![s] = f]
    /\ received' = [received EXCEPT ![s] = @ + 1]
    /\ ToLabel(s, "frame")
    /\ UNCHANGED <<wsCounts, wsHits, bans, close, handshake, socketHistory>>

\* The identity the loop gives the scan.
Identity(s) == IF P(s).names THEN P(s).ip ELSE NoIp

\* Mutant: a scan that panics passes the frame.
FrameCloseOpen(s) ==
    IF frame[s] \in {"control", "panic"} THEN "none" ELSE ScanClose(frame[s])

\* scan_frame; control frames pass untouched.
FrameClose(s) == IF frame[s] = "control" THEN "none" ELSE ScanClose(frame[s])

\* The loop scans, and delivers a frame that passes.
ScanFrame(s) ==
    /\ At(s, "frame")
    /\ close' = [close EXCEPT ![s] = FrameClose(s)]
    /\ IF FrameClose(s) = "none"
       THEN /\ ToLabel(s, "open")
            /\ delivered' = [delivered EXCEPT ![s] = @ \cup ({frame[s]} \cap Scans)]
       ELSE ToLabel(s, "closing") /\ UNCHANGED delivered
    /\ IF frame[s] = "threat"
       THEN wsCounts' = WsCountsAfter(Identity(s)) /\ bans' = WsBansAfter(Identity(s))
       ELSE UNCHANGED <<wsCounts, bans>>
    /\ frame' = [frame EXCEPT ![s] = "control"]
    /\ UNCHANGED <<wsHits, handshake, received, wsSpent, wsBanHeld>>

\* Mutant: the loop sends the close frame and goes on.
AfterCloseOpen == "open"

\* close_frame, then stream_error ends the loop.
AfterClose == "ended"

SendClose(s) ==
    /\ At(s, "closing")
    /\ ToLabel(s, AfterClose)
    /\ UNCHANGED <<wsCounts, wsHits, bans, frame, close, handshake, received, socketHistory>>

\* The client goes away, or says goodbye: the loop's stream ends.
HangUp(s) ==
    /\ \E label \in {"open", "closing"} : At(s, label)
    /\ ToLabel(s, "ended")
    /\ UNCHANGED <<wsCounts, wsHits, bans, frame, close, handshake, received, socketHistory>>

----------------------------------------------------------------------------

\* What the server does next for a connection.
SocketProgress(s) ==
    \/ CheckUpgrade(s)
    \/ LimitUpgrade(s)
    \/ ScanUpgrade(s)
    \/ AnswerUpgrade(s)
    \/ ScanFrame(s)
    \/ SendClose(s)

SocketNext(s) == Upgrade(s) \/ SocketProgress(s) \/ Receive(s) \/ HangUp(s)

=============================================================================
