-------------------------- MODULE DocumentedClaims --------------------------
(***************************************************************************)
(* What the repository's documents, comments and tests say of the pipeline *)
(* and the pipeline does not do.                                           *)
(***************************************************************************)
EXTENDS GuardPipeline

\* README.md, "Stateful stages": whitelisted and exempt addresses are never
\* rate limited, never banned and never counted.  It fails only once a
\* whitelisted address has been counted and an exempt one has.
NeverCounted(listing) ==
    \A ip \in Ips : Listing[ip] = listing => \A c \in Categories : counts[ip][c] = 0

ListedNeverCounted == NeverCounted("whitelisted") \/ NeverCounted("exempt")

\* fairing.rs, the exclude_paths field and evaluate: an excluded path bypasses
\* the whole pipeline, detection included.
ExcludedPathsAreNotScreened ==
    \A r \in Requests :
        pc[r] # "idle" /\ cfg.attached /\ Q(r).excluded => enforced[r] = NoVerdict

\* fairing.rs, with_passive_mode: no 400, 403 or 429 is ever rendered.
PassiveNeverRefuses ==
    \A r \in Requests :
        cfg.passive /\ resp[r].by \in {"catcher", "shield"} =>
            resp[r].status \notin {400, 403, 429}

\* README.md, "Responses": a rate-limit crossing answers 429 with Retry-After.
ThrottledCarriesRetryAfter ==
    \A r \in Requests :
        pc[r] = "done" /\ metadata[r].kind = "RateLimited" /\ resp[r].status = 429 =>
            resp[r].retry = metadata[r].code

============================================================================
