----------------------------- MODULE GuardStage -----------------------------
(***************************************************************************)
(* The stateful half of the engine, guard_core_rs's RateLimitStage and the *)
(* stores it shares: the ban manager, the violation counters and the       *)
(* sliding windows.  The stage is a dependency; this module models what    *)
(* the adapter's calls and the adapter's tests rely on.  Each call of the  *)
(* stage is one step, as each store is locked for the call.                *)
(*                                                                         *)
(* A call has a state function for its answer and one for each store it    *)
(* writes, so that a step of the adapter can combine them.                 *)
(***************************************************************************)
EXTENDS Verdicts, FiniteSets, Sequences

CONSTANTS
    Ips,          \* the client addresses
    NoIp,         \* a connection without a remote address
    Limit,        \* rate_limit: hits allowed in a window
    Window,       \* rate_limit_window
    BanFor,       \* the duration of every ban
    Threshold,    \* violations of one category that ban
    MaxTime       \* bound: the clock stops here

ASSUME StageAssumption ==
    /\ NoIp \notin Ips
    /\ Limit \in Nat \ {0}
    /\ Window \in Nat \ {0}
    /\ BanFor \in Nat \ {0}
    /\ Threshold \in Nat \ {0}
    /\ MaxTime \in Nat

VARIABLES
    cfg,       \* what the fairing was built with; never changes
    now,       \* the clock
    storeUp,   \* the distributed window store answers
    bans,      \* address -> time its ban expires
    counts,    \* address -> category -> violations counted
    windows    \* backend -> address -> times of the recorded hits

stageVars == <<cfg, now, storeUp, bans, counts, windows>>

Categories == {"detection", "rate_limit"}
Backends == {"memory", "distributed"}
Times == 0..MaxTime

\* The global gate's skip state for a request, "none" when it did not run.
Gates == {"none", "plain", "whitelisted", "exempt"}
Skips(gate) == gate \in {"whitelisted", "exempt"}

StageTypeOK ==
    /\ now \in Times
    /\ storeUp \in BOOLEAN
    /\ bans \in [Ips -> Nat]
    /\ counts \in [Ips -> [Categories -> Nat]]
    /\ windows \in [Backends -> [Ips -> Seq(Times)]]

StageInit ==
    /\ now = 0
    /\ storeUp = TRUE
    /\ bans = [ip \in Ips |-> 0]
    /\ counts = [ip \in Ips |-> [c \in Categories |-> 0]]
    /\ windows = [b \in Backends |-> [ip \in Ips |-> <<>>]]

----------------------------------------------------------------------------
(* The ban manager and the violation counters.                             *)

LiveBan(ip) == now < bans[ip]

BanUntil(ip) == [bans EXCEPT ![ip] = now + BanFor]

\* decide_bans_observed: no gate decision is an argument, so a whitelisted
\* or exempt address under a live ban is refused too.
BanAnswer(ip) ==
    IF ip \in Ips /\ cfg.banning /\ ~cfg.passive /\ LiveBan(ip)
    THEN Plain("Banned") ELSE NoVerdict

\* Mutant: whitelisted addresses count as well.
CountedAlways(ip, gate) == ip \in Ips

\* Detections count for every attributed address the gate did not whitelist.
Counted(ip, gate) == ip \in Ips /\ gate # "whitelisted"

CountsAfter(ip, category) == [counts EXCEPT ![ip][category] = @ + 1]

\* One more violation bans; passive mode suppresses the auto-ban.
Crosses(ip, category) ==
    /\ cfg.banning
    /\ ~cfg.passive
    /\ counts[ip][category] + 1 >= Threshold

\* feed_finding: the detection feed alone.
FeedAnswer(ip, gate) ==
    IF ~Counted(ip, gate) \/ cfg.passive THEN NoVerdict
    ELSE IF Crosses(ip, "detection") THEN Plain("ActivityBanned")
    ELSE Plain("Threat")

FeedCounts(ip, gate) ==
    IF Counted(ip, gate) THEN CountsAfter(ip, "detection") ELSE counts

FeedBans(ip, gate) ==
    IF Counted(ip, gate) /\ Crosses(ip, "detection") THEN BanUntil(ip) ELSE bans

----------------------------------------------------------------------------
(* The rate-limit tiers.                                                   *)

\* Whitelisted, exempt and unattributed requests are not rate limited.
Throttles(ip, gate) == cfg.rate /\ ip \in Ips /\ ~Skips(gate)

\* redis_fail_open = true degrades to the in-memory window.
Backend == IF cfg.store # "memory" /\ storeUp THEN "distributed" ELSE "memory"

StoreFails == cfg.store = "closed" /\ ~storeUp

Hits(b, ip) ==
    Cardinality({i \in DOMAIN windows[b][ip] : now < windows[b][ip][i] + Window})

\* The check records the hit and then compares.
Records(ip, gate) == Throttles(ip, gate) /\ ~StoreFails

\* Mutant: the hit is compared before it is recorded.
OverLimitBefore(ip, gate) == Records(ip, gate) /\ Hits(Backend, ip) > Limit

OverLimit(ip, gate) == Records(ip, gate) /\ Hits(Backend, ip) + 1 > Limit

Throttled(ip, gate) == OverLimit(ip, gate) /\ ~cfg.passive

WindowsAfter(ip) ==
    [windows EXCEPT ![Backend][ip] = Append(@, now)]

\* decide_tiers_observed: the tiers, then the metadata finding's feed, which
\* a tier's refusal skips.
TierRefuses(ip, gate) ==
    (Throttles(ip, gate) /\ StoreFails) \/ Throttled(ip, gate)

TierAnswer(ip, gate, finding) ==
    IF Throttles(ip, gate) /\ StoreFails THEN Plain("RedisUnavailable")
    ELSE IF Throttled(ip, gate) THEN RateLimited(Window)
    ELSE IF finding THEN FeedAnswer(ip, gate)
    ELSE NoVerdict

TierWindows(ip, gate) ==
    IF Records(ip, gate) THEN WindowsAfter(ip) ELSE windows

\* A crossing counts one "rate_limit" violation when the auto-ban is on; the
\* response stays the 429 and the ban bites the next request.
TierCounts(ip, gate, finding) ==
    IF Throttled(ip, gate)
    THEN IF cfg.rateBan /\ cfg.banning THEN CountsAfter(ip, "rate_limit") ELSE counts
    ELSE IF finding /\ ~TierRefuses(ip, gate) THEN FeedCounts(ip, gate)
    ELSE counts

TierBans(ip, gate, finding) ==
    IF Throttled(ip, gate)
    THEN IF cfg.rateBan /\ Crosses(ip, "rate_limit") THEN BanUntil(ip) ELSE bans
    ELSE IF finding /\ ~TierRefuses(ip, gate) THEN FeedBans(ip, gate)
    ELSE bans

=============================================================================
