------------------------------ MODULE Verdicts ------------------------------
(***************************************************************************)
(* The outcome of one security evaluation, the HTTP status it maps to, and *)
(* how it is rendered: by the catchers of response.rs on a guarded route,  *)
(* by the not-found rewrite of the fairing on an unrouted path.            *)
(*                                                                         *)
(* A body is represented by the name of the message constant it carries.   *)
(***************************************************************************)
EXTENDS Integers

Kinds == {"Clean", "Threat", "IpBlocked", "Banned", "ActivityBanned",
          "RateLimited", "RedisUnavailable", "EmergencyBlocked",
          "HeadersBlocked", "AuthRequired", "StageForbidden", "CustomBlock",
          "HttpsRedirect", "Failed"}

\* `code` is the payload of CustomBlock (a status) and RateLimited (seconds).
Verdict == [kind : Kinds, code : Nat]

Plain(kind) == [kind |-> kind, code |-> 0]
CustomBlock(code) == [kind |-> "CustomBlock", code |-> code]
RateLimited(seconds) == [kind |-> "RateLimited", code |-> seconds]

Clean == Plain("Clean")
Failed == Plain("Failed")

\* An empty request-local slot (Option::None).
NoVerdict == [kind |-> "none", code |-> 0]

Slot == Verdict \cup {NoVerdict}

\* rocket::http::Status::from_code knows these.
IsStatus(code) == code \in 100..599

\* Verdict::status.
Status(v) ==
    CASE v.kind = "Clean" -> 200
      [] v.kind \in {"Threat", "HeadersBlocked"} -> 400
      [] v.kind \in {"IpBlocked", "Banned", "ActivityBanned", "StageForbidden"} -> 403
      [] v.kind = "RateLimited" -> 429
      [] v.kind \in {"RedisUnavailable", "EmergencyBlocked"} -> 503
      [] v.kind = "AuthRequired" -> 401
      [] v.kind = "CustomBlock" -> IF IsStatus(v.code) THEN v.code ELSE 500
      [] v.kind = "HttpsRedirect" -> 301
      [] OTHER -> 500

\* The verdict stage_block returns for a stage's own status.
StageBlock(status) ==
    CASE status = 400 -> Plain("HeadersBlocked")
      [] status = 401 -> Plain("AuthRequired")
      [] status = 403 -> Plain("StageForbidden")
      [] status = 503 -> Plain("EmergencyBlocked")
      [] OTHER -> CustomBlock(status)

----------------------------------------------------------------------------
(* Rendering.  m and e are the metadata and enforced slots, body is the    *)
(* block-body slot ("none" when nothing was recorded).                     *)

\* The codes guard_catchers registers.
CatcherCodes == {400, 401, 403, 413, 429, 500, 503}

\* Where a response comes from.
Sources == {"none", "handler", "rocket", "app", "catcher", "shield",
            "redirect", "preflight"}

NoResponse == [status |-> 0, body |-> "none", retry |-> 0, by |-> "none"]

\* What a body may be: a message constant, a recorded override, the answer
\* of a handler, of Rocket's defaults or of the application's own catcher.
Messages == {"none", "empty", "handler", "rocket", "app", "stage", "custom",
             "BLOCKED", "DEFAULT_400", "AUTH_REQUIRED", "DEFAULT_401", "FORBIDDEN",
             "BANNED", "ACTIVITY_BANNED", "DEFAULT_403", "OVERSIZE", "RATE_LIMITED",
             "DEFAULT_429", "REDIS_UNAVAILABLE", "EMERGENCY", "DEFAULT_503",
             "FAILURE", "DEFAULT_500"}

Response == [status : Nat, body : Messages, retry : Nat, by : Sources]

\* refusal_verdict: the stashed metadata verdict, else the enforced one.
RefusalVerdict(m, e) ==
    IF m \notin {NoVerdict, Clean} THEN m
    ELSE IF e # Clean THEN e
    ELSE NoVerdict

ForbiddenMessage(kind) ==
    CASE kind = "IpBlocked" -> "FORBIDDEN"
      [] kind = "Banned" -> "BANNED"
      [] kind = "ActivityBanned" -> "ACTIVITY_BANNED"
      [] OTHER -> "DEFAULT_403"

UnavailableMessage(kinds) ==
    IF "RedisUnavailable" \in kinds THEN "REDIS_UNAVAILABLE"
    ELSE IF "EmergencyBlocked" \in kinds THEN "EMERGENCY"
    ELSE "DEFAULT_503"

OrElse(body, message) == IF body # "none" THEN body ELSE message

\* The message each catcher picks.  The 413, 500 and 503 catchers do not
\* read the block-body slot.
CatcherBody(status, m, e, body) ==
    LET kind == RefusalVerdict(m, e).kind
    IN CASE status = 400 ->
              OrElse(body, IF kind = "Threat" THEN "BLOCKED" ELSE "DEFAULT_400")
         [] status = 401 ->
              OrElse(body, IF kind = "AuthRequired" THEN "AUTH_REQUIRED" ELSE "DEFAULT_401")
         [] status = 403 -> OrElse(body, ForbiddenMessage(kind))
         [] status = 413 -> "OVERSIZE"
         [] status = 429 ->
              IF kind = "RateLimited" THEN OrElse(body, "RATE_LIMITED") ELSE "DEFAULT_429"
         [] status = 503 -> UnavailableMessage({m.kind, e.kind})
         [] OTHER -> IF "Failed" \in {m.kind, e.kind} THEN "FAILURE" ELSE "DEFAULT_500"

\* Only the throttled shape carries Retry-After.
CatcherRetry(status, m, e) ==
    LET v == RefusalVerdict(m, e)
    IN IF status = 429 /\ v.kind = "RateLimited" THEN v.code ELSE 0

CatcherResponse(status, m, e, body) ==
    [status |-> status, body |-> CatcherBody(status, m, e, body),
     retry |-> CatcherRetry(status, m, e), by |-> "catcher"]

\* verdict_response_plain.
PlainBody(v) ==
    CASE v.kind = "Threat" -> "BLOCKED"
      [] v.kind \in {"IpBlocked", "StageForbidden"} -> "FORBIDDEN"
      [] v.kind = "Banned" -> "BANNED"
      [] v.kind = "ActivityBanned" -> "ACTIVITY_BANNED"
      [] v.kind = "RateLimited" -> "RATE_LIMITED"
      [] v.kind = "RedisUnavailable" -> "REDIS_UNAVAILABLE"
      [] v.kind = "EmergencyBlocked" -> "EMERGENCY"
      [] v.kind = "HeadersBlocked" -> "DEFAULT_400"
      [] v.kind = "AuthRequired" -> "AUTH_REQUIRED"
      [] v.kind = "CustomBlock" -> "DEFAULT_403"
      [] v.kind = "HttpsRedirect" -> "empty"
      [] OTHER -> "FAILURE"

\* Mutant: the shield renders the family's message whatever was recorded.
PlainVerdictResponse(v, body) ==
    [status |-> Status(v), body |-> PlainBody(v),
     retry |-> IF v.kind = "RateLimited" THEN v.code ELSE 0, by |-> "shield"]

\* verdict_response: a recorded block body wins, and then no Retry-After is
\* written.
VerdictResponse(v, body) ==
    [status |-> Status(v),
     body |-> OrElse(body, PlainBody(v)),
     retry |-> IF body = "none" /\ v.kind = "RateLimited" THEN v.code ELSE 0,
     by |-> "shield"]

\* The stashed answer of a CORS preflight, 200 or 400.
PreflightResponse(status) ==
    [status |-> status, body |-> "empty", retry |-> 0, by |-> "preflight"]

\* The redirect the fairing renders for HttpsRedirect.
RedirectResponse ==
    [status |-> 301, body |-> "empty", retry |-> 0, by |-> "redirect"]

=============================================================================
