-------------------------- MODULE ApplicationProofs --------------------------
(***************************************************************************)
(* The launch, the engine and the verdict of an application with any       *)
(* number of fairings, requests and builder calls, and the cloud payloads  *)
(* it serves for any number of refreshes.                                  *)
(*                                                                         *)
(* None of the properties is inductive.  The launch needs that a catcher   *)
(* is known to every fairing that ignites after it; the engine and the     *)
(* verdict, that on_ignite leaves one engine if and only if a guard is     *)
(* attached, so that a request past the chain has met a guard; the         *)
(* payloads, that the job in flight is the newest one; the switches, that  *)
(* a fairing left as its passive configuration built it has no copy of the *)
(* switch that enforces; the reset, that the engine's limiter is that of   *)
(* the fairing in charge.                                                  *)
(***************************************************************************)
EXTENDS Application, FiniteSetTheorems, TLAPS

RequestTypes ==
    /\ at \in [Requests -> Nat]
    /\ verdict \in [Requests -> Answers]
    /\ outcome \in [Requests -> {"idle", "pending", "ran", "refused"}]
    /\ first \in [Requests -> Answers]
    /\ DOMAIN read = Requests /\ read = [r \in Requests |-> read[r]]

LaunchWay ==
    /\ phase \in {"building", "igniting", "serving", "aborted"}
    /\ ignited \in Nat
    /\ \A c \in catchers : c.by \in 0..ignited
    /\ phase = "building" => ignited = 0
    /\ phase = "serving" => ignited = Len(chain)
    /\ phase # "serving" => \A r \in Requests : outcome[r] = "idle"

EngineWay ==
    /\ \A d, e \in managed : d = e
    /\ managed # {} <=> \E i \in 1..ignited : IsGuard(chain[i])

\* A request that has passed a guard of the chain has a verdict.
MetGuards(r) ==
    \A i \in 1..ignited : i < at[r] /\ IsGuard(chain[i]) => verdict[r] # "none"

RequestWay(r) ==
    /\ read[r] \subseteq managed
    /\ verdict[r] = first[r]
    /\ outcome[r] = "pending" => MetGuards(r) /\ at[r] # 0
    /\ outcome[r] = "ran" => first[r] = "clean"

AInv ==
    /\ RequestTypes
    /\ LaunchWay
    /\ EngineWay
    /\ GuardNeverCollides
    /\ \A r \in Requests : RequestWay(r)

----------------------------------------------------------------------------
(* The steps before the launch is over touch no request, the steps after   *)
(* it no fairing and no catcher.                                           *)

\* The application's own calls.
BuildStep ==
    \/ CallRateLimiting \/ CallBuilder \/ CallStage
    \/ CallSecurityConfig \/ KeepClone \/ Attach \/ AttachOwn

LEMMA BuildStepIsBuilding ==
    BuildStep => Building
<1>1. ASSUME NEW f, NEW new, Builds(f, new) PROVE Building
  BY <1>1 DEF Builds
<1> QED
  BY <1>1
  DEF BuildStep, CallRateLimiting, CallBuilder, CallStage, CallSecurityConfig, KeepClone,
      Attach, AttachOwn

LEMMA BuildingKeeps ==
    ASSUME AInv, Building
    PROVE  AInv'
<1> USE DEF Building, launchVars, requestVars
<1>1. ignited = 0 /\ phase = "building"
  BY DEF AInv, LaunchWay
<1>2. RequestTypes' /\ LaunchWay' /\ EngineWay'
  BY <1>1 DEF AInv, RequestTypes, LaunchWay, EngineWay
<1>3. GuardNeverCollides'
  BY <1>1 DEF AInv, LaunchWay, GuardNeverCollides, Collide
<1>4. ASSUME NEW r \in Requests PROVE RequestWay(r)'
  BY <1>1 DEF AInv, LaunchWay, RequestWay, MetGuards
<1> QED BY <1>2, <1>3, <1>4 DEF AInv

\* A catcher of the application's is there before any fairing ignites.
LEMMA RegisterCatcherKeeps ==
    ASSUME AInv, RegisterCatcher
    PROVE  AInv'
<1> USE DEF RegisterCatcher, buildVars, requestVars
<1>1. ignited = 0 /\ phase = "building"
  BY DEF AInv, LaunchWay
<1>2. \A c \in catchers' : c.by = 0
  BY <1>1 DEF AInv, LaunchWay
<1>3. RequestTypes' /\ LaunchWay' /\ EngineWay'
  BY <1>1, <1>2 DEF AInv, RequestTypes, LaunchWay, EngineWay
<1>4. GuardNeverCollides'
  BY <1>2 DEF GuardNeverCollides
<1>5. ASSUME NEW r \in Requests PROVE RequestWay(r)'
  BY <1>1 DEF AInv, LaunchWay, RequestWay, MetGuards
<1> QED BY <1>3, <1>4, <1>5 DEF AInv

LEMMA LaunchKeeps ==
    ASSUME AInv, Launch \/ Liftoff
    PROVE  AInv'
<1> USE DEF Launch, Liftoff, buildVars, launchVars, requestVars
<1>1. RequestTypes' /\ EngineWay' /\ GuardNeverCollides'
  BY DEF AInv, RequestTypes, EngineWay, GuardNeverCollides
<1>2. LaunchWay'
  BY DEF AInv, LaunchWay
<1>3. ASSUME NEW r \in Requests PROVE RequestWay(r)'
  BY DEF AInv, LaunchWay, RequestWay, MetGuards
<1> QED BY <1>1, <1>2, <1>3 DEF AInv

\* A guard that ignites claims codes nobody has, and one engine is managed.
LEMMA OnIgniteKeeps ==
    ASSUME AInv, OnIgnite
    PROVE  AInv'
<1> DEFINE next == ignited + 1
           link == chain[next]
           codes == IF IsGuard(link) THEN Unclaimed({c.code : c \in catchers}) ELSE {link.code}
<1>1. /\ phase = "igniting" /\ ignited' = next
      /\ managed' = IF IsGuard(link) THEN ManagedAfter(link.guard) ELSE managed
      /\ catchers' = catchers \cup [code : codes, base : {"/"}, by : {next}]
      /\ UNCHANGED <<phase, chain>>
      /\ UNCHANGED requestVars
  BY DEF OnIgnite, buildVars
<1>2. ignited \in Nat /\ ignited' \in Nat
  BY <1>1 DEF AInv, LaunchWay
<1>3. RequestTypes'
  BY <1>1 DEF requestVars, AInv, RequestTypes
<1>4. LaunchWay'
  <2>1. \A c \in catchers' : c.by \in 0..ignited'
    BY <1>1, <1>2 DEF AInv, LaunchWay
  <2> QED BY <1>1, <1>2, <2>1 DEF AInv, LaunchWay, requestVars
<1>5. managed \subseteq managed' /\ EngineWay'
  <2>1. managed \subseteq managed' /\ \A d, e \in managed' : d = e
    BY <1>1 DEF AInv, EngineWay, ManagedAfter
  <2>2. managed' # {} <=> managed # {} \/ IsGuard(link)
    BY <1>1 DEF ManagedAfter
  <2>3. 1..ignited' = (1..ignited) \cup {next}
    BY <1>1, <1>2
  <2>4. (\E i \in 1..ignited' : IsGuard(chain[i]))
          <=> (\E i \in 1..ignited : IsGuard(chain[i])) \/ IsGuard(link)
    BY <2>3
  <2> QED BY <1>1, <2>1, <2>2, <2>4 DEF AInv, EngineWay, IsGuard
<1>6. GuardNeverCollides'
  <2> SUFFICES ASSUME NEW x \in catchers', NEW y \in catchers', Collide(x, y), x.by < y.by,
                      y.by # 0 => IsGuard(chain[y.by])
               PROVE  FALSE
    BY <1>1 DEF GuardNeverCollides, Collide, IsGuard
  <2>1. CASE x \in catchers /\ y \in catchers
    BY <2>1 DEF AInv, GuardNeverCollides
  <2>2. CASE y \notin catchers
    <3>1. y.by = next /\ y.code \in codes
      BY <1>1, <2>2
    <3>2. y.code \notin {c.code : c \in catchers}
      BY <1>2, <3>1 DEF Unclaimed
    <3>3. x \in catchers
      BY <1>1, <1>2, <3>1
    <3> QED BY <3>2, <3>3 DEF Collide
  <2>3. CASE x \notin catchers /\ y \in catchers
    <3>1. x.by = next /\ y.by \in 0..ignited
      BY <1>1, <2>3 DEF AInv, LaunchWay
    <3> QED BY <1>2, <3>1
  <2> QED BY <2>1, <2>2, <2>3
<1>7. ASSUME NEW r \in Requests PROVE RequestWay(r)'
  <2>1. outcome[r] = "idle" /\ RequestWay(r)
    BY <1>1 DEF AInv, LaunchWay
  <2> QED BY <1>1, <1>5, <2>1 DEF RequestWay, requestVars
<1> QED BY <1>3, <1>4, <1>5, <1>6, <1>7 DEF AInv

----------------------------------------------------------------------------
(* Serving: the chain, the catchers and the engine stay.                   *)

LEMMA ServingKeeps ==
    ASSUME AInv, Serving, RequestTypes', \A r \in Requests : RequestWay(r)'
    PROVE  AInv'
<1>1. LaunchWay' /\ EngineWay' /\ GuardNeverCollides'
  BY DEF AInv, Serving, buildVars, launchVars, LaunchWay, EngineWay, GuardNeverCollides
<1> QED BY <1>1 DEF AInv

\* A request another step leaves alone keeps to its way.
Untouched(r) ==
    /\ at'[r] = at[r]
    /\ verdict'[r] = verdict[r]
    /\ outcome'[r] = outcome[r]
    /\ first'[r] = first[r]
    /\ read'[r] = read[r]

LEMMA UntouchedKeeps ==
    ASSUME AInv, Serving, NEW r \in Requests, Untouched(r)
    PROVE  RequestWay(r)'
BY DEF AInv, Serving, buildVars, launchVars, Untouched, RequestWay, MetGuards

LEMMA ArriveKeeps ==
    ASSUME AInv, NEW r \in Requests, Arrive(r)
    PROVE  AInv'
<1> USE DEF Arrive
<1>1. RequestTypes'
  BY DEF AInv, RequestTypes, Answers
<1>2. ASSUME NEW s \in Requests, s # r PROVE RequestWay(s)'
  <2>1. Untouched(s)
    BY <1>2 DEF AInv, RequestTypes, Untouched
  <2> QED BY <2>1, UntouchedKeeps
<1>3. RequestWay(r)'
  <2>1. /\ at'[r] = 1 /\ verdict'[r] = "none" /\ first'[r] = "none"
        /\ outcome'[r] = "pending" /\ read'[r] = {}
    BY DEF AInv, RequestTypes
  <2>2. ignited' = ignited /\ ignited \in Nat
    BY DEF AInv, LaunchWay, Serving, launchVars
  <2> QED BY <2>1, <2>2 DEF RequestWay, MetGuards
<1> QED BY <1>1, <1>2, <1>3, ServingKeeps

\* What a fairing makes of a request is a verdict, and the first one stays.
LEMMA OnRequestKeeps ==
    ASSUME AInv, NEW r \in Requests, OnRequest(r)
    PROVE  AInv'
<1> DEFINE link == chain[at[r]]
           e == EngineFor(link.guard)
           answer == EvaluateAnswer(link.guard, e, asks[r])
<1>1. /\ Serving /\ outcome[r] = "pending" /\ at[r] <= Len(chain)
      /\ at' = [at EXCEPT ![r] = at[r] + 1] /\ outcome' = outcome
  BY DEF OnRequest
<1>2. \/ /\ IsGuard(link)
         /\ verdict' = [verdict EXCEPT ![r] = Stash(verdict[r], answer)]
         /\ first' = [first EXCEPT ![r] = IF first[r] = "none" THEN answer ELSE first[r]]
         /\ read' = [read EXCEPT ![r] = read[r] \cup {e}]
      \/ /\ ~IsGuard(link)
         /\ verdict' = verdict /\ first' = first /\ read' = read
  BY DEF OnRequest
<1>3. answer \in {"clean", "refused"}
  <2> HIDE DEF link, e
  <2> QED BY DEF EvaluateAnswer
<1> HIDE DEF answer, e, link
<1>4. RequestTypes'
  <2>1. RequestTypes /\ Stash(verdict[r], answer) \in Answers
    BY <1>3 DEF AInv, RequestTypes, Stash, Answers
  <2>2. at' \in [Requests -> Nat] /\ outcome' \in [Requests -> {"idle", "pending", "ran", "refused"}]
    BY <1>1, <2>1 DEF RequestTypes
  <2>3. verdict' \in [Requests -> Answers]
    BY <1>2, <2>1 DEF RequestTypes
  <2>4. first' \in [Requests -> Answers]
    <3>1. answer \in Answers
      BY <1>3 DEF Answers
    <3> QED BY <1>2, <2>1, <3>1 DEF RequestTypes
  <2>5. DOMAIN read' = Requests /\ read' = [q \in Requests |-> read'[q]]
    BY <1>2, <2>1 DEF RequestTypes
  <2> QED BY <2>2, <2>3, <2>4, <2>5 DEF RequestTypes
<1>5. ASSUME NEW s \in Requests, s # r PROVE RequestWay(s)'
  <2>1. Untouched(s)
    BY <1>1, <1>2, <1>5 DEF AInv, RequestTypes, Untouched
  <2> QED BY <1>1, <2>1, UntouchedKeeps
<1>6. RequestWay(r)'
  <2>1. /\ RequestWay(r) /\ MetGuards(r) /\ at[r] \in Nat \ {0}
        /\ ignited \in Nat /\ ignited = Len(chain)
    BY <1>1 DEF AInv, RequestTypes, RequestWay, LaunchWay, Serving
  <2>2. /\ UNCHANGED <<chain, ignited, managed>>
    BY <1>1 DEF Serving, buildVars, launchVars
  <2>3. CASE IsGuard(link)
    <3>1. managed # {}
      BY <2>1, <2>3, <1>1 DEF AInv, EngineWay, link
    <3>2. e \in managed
      BY <3>1 DEF e, EngineFor
    <3>3. /\ read'[r] = read[r] \cup {e}
          /\ verdict'[r] = Stash(verdict[r], answer)
          /\ first'[r] = IF first[r] = "none" THEN answer ELSE first[r]
      BY <1>2, <2>3 DEF AInv, RequestTypes
    <3>4. verdict'[r] = first'[r] /\ verdict'[r] # "none"
      BY <1>3, <2>1, <3>3 DEF RequestWay, Stash
    <3>5. at'[r] # 0
      BY <1>1, <2>1 DEF AInv, RequestTypes
    <3> QED BY <1>1, <2>1, <2>2, <3>2, <3>3, <3>4, <3>5 DEF RequestWay, MetGuards
  <2>4. CASE ~IsGuard(link)
    <3>1. verdict' = verdict /\ first' = first /\ read' = read
      BY <1>2, <2>4
    <3>2. at'[r] = at[r] + 1
      BY <1>1 DEF AInv, RequestTypes
    <3>3. MetGuards(r)'
      <4> SUFFICES ASSUME NEW i \in 1..ignited, i < at[r] + 1, IsGuard(chain[i])
                   PROVE  verdict[r] # "none"
        BY <2>2, <3>1, <3>2 DEF MetGuards, IsGuard
      <4>1. i # at[r]
        BY <2>4 DEF link
      <4>2. i < at[r]
        BY <2>1, <4>1
      <4> QED BY <2>1, <4>2 DEF MetGuards
    <3> QED BY <1>1, <2>1, <2>2, <3>1, <3>2, <3>3 DEF RequestWay
  <2> QED BY <2>3, <2>4
<1> QED BY <1>1, <1>4, <1>5, <1>6, ServingKeeps

\* A managed engine is some attached guard's, and the request has met it.
LEMMA RunGuardKeeps ==
    ASSUME AInv, NEW r \in Requests, RunGuard(r)
    PROVE  AInv'
<1>1. /\ Serving /\ outcome[r] = "pending" /\ at[r] > Len(chain)
      /\ outcome' = [outcome EXCEPT ![r] = IF Passes(r) THEN "ran" ELSE "refused"]
      /\ read' = [read EXCEPT ![r] = read[r] \cup managed]
      /\ UNCHANGED <<at, verdict, first>>
  BY DEF RunGuard
<1>2. RequestTypes'
  BY <1>1 DEF AInv, RequestTypes
<1>3. ASSUME NEW s \in Requests, s # r PROVE RequestWay(s)'
  <2>1. Untouched(s)
    BY <1>1, <1>3 DEF AInv, RequestTypes, Untouched
  <2> QED BY <1>1, <2>1, UntouchedKeeps
<1>4. RequestWay(r)'
  <2>1. /\ RequestWay(r) /\ MetGuards(r) /\ at[r] \in Nat /\ verdict[r] \in Answers
        /\ ignited \in Nat /\ ignited = Len(chain)
    BY <1>1 DEF AInv, RequestTypes, RequestWay, LaunchWay, Serving
  <2>2. managed' = managed
    BY <1>1 DEF Serving, launchVars
  <2>3. /\ read'[r] = read[r] \cup managed
        /\ outcome'[r] = IF Passes(r) THEN "ran" ELSE "refused"
    BY <1>1 DEF AInv, RequestTypes
  <2>4. ASSUME Passes(r) PROVE first[r] = "clean"
    <3>1. managed # {} /\ verdict[r] # "refused"
      BY <2>4 DEF Passes
    <3>2. PICK i \in 1..ignited : IsGuard(chain[i])
      BY <3>1 DEF AInv, EngineWay
    <3>3. i < at[r]
      BY <1>1, <2>1
    <3>4. verdict[r] # "none"
      BY <2>1, <3>2, <3>3 DEF MetGuards
    <3> QED BY <2>1, <3>1, <3>4 DEF RequestWay, Answers
  <2> QED BY <1>1, <2>1, <2>2, <2>3, <2>4 DEF RequestWay
<1> QED BY <1>1, <1>2, <1>3, <1>4, ServingKeeps

\* The operator's steps are no request's.
LEMMA OperatorKeeps ==
    ASSUME AInv, Reset \/ RefreshCloud \/ Background
    PROVE  AInv'
<1>1. Serving /\ UNCHANGED <<at, verdict, outcome, first, read>>
  BY DEF Reset, RefreshCloud, Background, requestVars
<1>2. RequestTypes'
  BY <1>1 DEF AInv, RequestTypes
<1>3. \A r \in Requests : Untouched(r)
  BY <1>1 DEF Untouched
<1> QED BY <1>1, <1>2, <1>3, UntouchedKeeps, ServingKeeps

----------------------------------------------------------------------------

LEMMA InitAInv == Init => AInv
<1> SUFFICES ASSUME Init PROVE AInv
  OBVIOUS
<1>1. RequestTypes
  BY DEF Init, RequestTypes, Answers
<1>2. LaunchWay /\ EngineWay /\ GuardNeverCollides
  BY DEF Init, LaunchWay, EngineWay, GuardNeverCollides
<1>3. ASSUME NEW r \in Requests PROVE RequestWay(r)
  BY DEF Init, RequestWay
<1> QED BY <1>1, <1>2, <1>3 DEF AInv

LEMMA NextAInv == AInv /\ [Next]_allVars => AInv'
<1> SUFFICES ASSUME AInv, [Next]_allVars PROVE AInv'
  OBVIOUS
<1>1. CASE BuildStep
  BY <1>1, BuildStepIsBuilding, BuildingKeeps
<1>2. CASE UNCHANGED allVars
  <2>1. ASSUME NEW r \in Requests PROVE RequestWay(r)'
    BY <1>2 DEF allVars, appVars, AInv, RequestWay, MetGuards
  <2>2. RequestTypes' /\ LaunchWay' /\ EngineWay' /\ GuardNeverCollides'
    BY <1>2
    DEF allVars, appVars, AInv, RequestTypes, LaunchWay, EngineWay, GuardNeverCollides
  <2> QED BY <2>1, <2>2 DEF AInv
<1> QED
  BY <1>1, <1>2, RegisterCatcherKeeps, LaunchKeeps, OnIgniteKeeps, ArriveKeeps, OnRequestKeeps,
     RunGuardKeeps, OperatorKeeps
  DEF Next, BuildStep

LEMMA AlwaysAInv == Spec => []AInv
BY InitAInv, NextAInv, PTL DEF Spec

\* No catcher the guard registers on ignition shares its code and base with an
\* earlier one, for any chain of fairings and any catchers of the application.
THEOREM LaunchIsSafe == Spec => []GuardNeverCollides
<1>1. AInv => GuardNeverCollides
  BY DEF AInv
<1> QED BY <1>1, AlwaysAInv, PTL

LEMMA AtMostOne ==
    ASSUME NEW S, \A d, e \in S : d = e
    PROVE  Cardinality(S) <= 1
<1>1. CASE S = {}
  BY <1>1, FS_EmptySet
<1>2. CASE S # {}
  <2>1. PICK e : S = {e}
    BY <1>2
  <2>2. Cardinality(S) = 1
    BY <2>1, FS_Singleton
  <2> QED BY <2>2
<1> QED BY <1>1, <1>2

\* However many guard fairings are attached, a request is evaluated and
\* guarded by the one engine the first of them left in the managed state.
THEOREM OneEngineServes == Spec => []OneEngine
<1>1. AInv => OneEngine
  <2> SUFFICES ASSUME AInv, NEW r \in Requests PROVE Cardinality(read[r]) <= 1
    BY DEF OneEngine
  <2>1. read[r] \subseteq managed /\ \A d, e \in managed : d = e
    BY DEF AInv, RequestWay, EngineWay
  <2> QED BY <2>1, AtMostOne
<1> QED BY <1>1, AlwaysAInv, PTL

\* The guard of a route runs the handler only when the first guard fairing
\* found the request clean: no later fairing overrides a refusal, and without
\* an attached guard nothing runs.
THEOREM FirstVerdictHolds == Spec => []FirstVerdictStands
<1>1. AInv => FirstVerdictStands
  BY DEF AInv, RequestWay, FirstVerdictStands
<1> QED BY <1>1, AlwaysAInv, PTL

----------------------------------------------------------------------------
(* The cloud table and the payloads read from it.                          *)

\* One refresh at most is in flight, and it is the last scheduled; what it is
\* still to fetch is newer than what the table holds and what a payload showed.
CloudWay ==
    /\ scheduled \in Version
    /\ table \in [Rows -> Nat] /\ newest \in [Rows -> Nat]
    /\ \A i \in Rows : table[i] <= scheduled /\ newest[i] <= scheduled
    /\ jobs \subseteq [number : Nat, left : SUBSET Rows]
    /\ \A job, other \in jobs : job = other
    /\ \A job \in jobs :
          /\ job.number = scheduled
          /\ \A i \in job.left : table[i] < job.number /\ newest[i] < job.number

\* A row read from the table is unready or no older than any shown before; a row
\* once read or shown unready is unready until it is newer than all of these.
Follows(new, old) == new = 0 \/ new >= old

PayloadWay ==
    /\ rows \in Seq(Nat) /\ Len(rows) < Len(Providers)
    /\ \A i \in Rows : Follows(table[i], newest[i])
    /\ \A i \in 1..Len(rows) :
          /\ rows[i] <= scheduled
          /\ Follows(rows[i], newest[i]) /\ Follows(table[i], rows[i])
          /\ rows[i] = 0 => Follows(table[i], newest[i] + 1)
          /\ \A job \in jobs : i \in job.left => rows[i] < job.number
    /\ report \in Seq(Nat)
    /\ report # <<>> =>
          /\ Len(report) = Len(Providers)
          /\ \A i \in Rows :
                /\ report[i] <= scheduled
                /\ Follows(report[i], newest[i])
                /\ report[i] = 0 => Follows(table[i], newest[i] + 1)
          /\ \A i \in 1..Len(rows) :
                report[i] = 0 => Follows(rows[i], newest[i] + 1)

Growing ==
    report' # <<>> =>
        \A i \in Rows : report'[i] # 0 =>
            /\ report'[i] >= newest[i]
            /\ report # <<>> /\ report[i] = 0 => report'[i] > newest[i]

\* A step that answers no payload.
NoAnswer == report' = report /\ newest' = newest

LEMMA RowsType == Rows = 1..Len(Providers) /\ Len(Providers) \in Nat \ {0}
BY CloudAssumption DEF Rows

LEMMA RefreshKeeps ==
    ASSUME CloudWay, PayloadWay, NEW installed, RefreshCloudIpRanges(installed)
    PROVE  CloudWay' /\ PayloadWay' /\ NoAnswer
<1>1. /\ jobs = {} /\ scheduled < MaxRefreshes /\ scheduled' = scheduled + 1
      /\ jobs' = {[number |-> scheduled + 1, left |-> Rows]}
      /\ UNCHANGED <<table, rows, report, newest>>
  BY DEF RefreshCloudIpRanges, Starts
<1>2. scheduled \in Nat /\ scheduled' \in Version
  BY <1>1, CloudAssumption DEF CloudWay, Version
<1>3. \A i \in Rows : /\ table[i] \in Nat /\ newest[i] \in Nat
                      /\ table[i] < scheduled' /\ newest[i] < scheduled'
  BY <1>1, <1>2 DEF CloudWay
<1>4. CloudWay'
  BY <1>1, <1>2, <1>3 DEF CloudWay
<1>5. \A i \in 1..Len(rows) : rows[i] \in Nat /\ rows[i] < scheduled'
  BY <1>1, <1>2 DEF PayloadWay
<1>6. report # <<>> => \A i \in Rows : report[i] \in Nat /\ report[i] <= scheduled'
  BY <1>1, <1>2, RowsType DEF PayloadWay
<1>7. PayloadWay'
  BY <1>1, <1>5, <1>6 DEF PayloadWay, Follows
<1> QED BY <1>1, <1>4, <1>7 DEF NoAnswer

LEMMA FetchRowKeeps ==
    ASSUME CloudWay, PayloadWay, NEW job \in jobs, NEW i \in Rows, FetchRow(job, i)
    PROVE  CloudWay' /\ PayloadWay' /\ NoAnswer
<1> DEFINE rest == [job EXCEPT !.left = job.left \ {i}]
<1>1. PICK fetched \in {job.number, 0} : table' = [table EXCEPT ![i] = fetched]
  BY DEF FetchRow
<1>2. /\ i \in job.left
      /\ jobs' = (jobs \ {job}) \cup (IF rest.left = {} THEN {} ELSE {rest})
      /\ UNCHANGED <<scheduled, rows, report, newest>>
  BY DEF FetchRow
<1>3. /\ job \in [number : Nat, left : SUBSET Rows] /\ job.number = scheduled
      /\ jobs \ {job} = {} /\ scheduled \in Nat
      /\ \A k \in job.left : table[k] < job.number /\ newest[k] < job.number
  BY CloudAssumption DEF CloudWay, Version
<1>4. /\ rest \in [number : Nat, left : SUBSET Rows] /\ rest.number = job.number
      /\ rest.left = job.left \ {i}
  BY <1>3
<1>5. jobs' \subseteq {rest}
  BY <1>2, <1>3
<1> HIDE DEF rest
<1>6. /\ table' \in [Rows -> Nat] /\ table'[i] = fetched /\ fetched \in Nat
      /\ \A k \in Rows \ {i} : table'[k] = table[k]
      /\ \A k \in Rows : table'[k] \in Nat /\ newest[k] \in Nat /\ table'[k] <= scheduled
  BY <1>1, <1>3 DEF CloudWay
<1>7. CloudWay'
  <2>1. \A k \in Rows : table'[k] <= scheduled' /\ newest'[k] <= scheduled'
    BY <1>2, <1>6 DEF CloudWay
  <2>2. \A k \in rest.left : table'[k] < rest.number /\ newest'[k] < rest.number
    BY <1>2, <1>3, <1>4, <1>6
  <2>3. jobs' \subseteq [number : Nat, left : SUBSET Rows] /\ rest.number = scheduled'
    BY <1>2, <1>3, <1>4, <1>5
  <2> QED BY <1>2, <1>5, <1>6, <2>1, <2>2, <2>3 DEF CloudWay
\* What replaces the row is unready, or newer than all that was read or shown.
<1>8. /\ fetched = 0 \/ fetched > newest[i]
      /\ i \in 1..Len(rows) => fetched = 0 \/ fetched > rows[i]
  BY <1>2, <1>3 DEF PayloadWay
<1>9. PayloadWay'
  <2>1. \A k \in Rows : Follows(table'[k], newest[k])
    BY <1>6, <1>8 DEF PayloadWay, Follows
  <2>2. ASSUME NEW k \in Rows, Follows(table[k], newest[k] + 1)
        PROVE  Follows(table'[k], newest[k] + 1)
    BY <1>6, <1>8, <2>2 DEF Follows
  <2>3. \A k \in 1..Len(rows) : k \in Rows /\ rows[k] \in Nat
    BY RowsType DEF PayloadWay
  <2>4. \A k \in 1..Len(rows) :
           /\ Follows(table'[k], rows[k])
           /\ rows[k] = 0 => Follows(table'[k], newest[k] + 1)
    <3> SUFFICES ASSUME NEW k \in 1..Len(rows)
                 PROVE  /\ Follows(table'[k], rows[k])
                        /\ rows[k] = 0 => Follows(table'[k], newest[k] + 1)
      OBVIOUS
    <3>1. /\ k \in Rows /\ rows[k] \in Nat
          /\ Follows(table[k], rows[k])
          /\ rows[k] = 0 => Follows(table[k], newest[k] + 1)
      BY <2>3 DEF PayloadWay
    <3>2. Follows(table'[k], rows[k])
      BY <1>6, <1>8, <3>1 DEF Follows
    <3> QED BY <2>2, <3>1, <3>2
  <2>5. \A k \in 1..Len(rows) : k \in rest.left => rows[k] < rest.number
    BY <1>4 DEF PayloadWay
  <2>6. report # <<>> => \A k \in Rows : report[k] = 0 => Follows(table'[k], newest[k] + 1)
    BY <2>2 DEF PayloadWay
  <2> QED BY <1>2, <1>5, <2>1, <2>4, <2>5, <2>6 DEF PayloadWay
<1> QED BY <1>2, <1>7, <1>9 DEF NoAnswer

LEMMA ReadRowKeeps ==
    ASSUME CloudWay, PayloadWay, ReadRow
    PROVE  CloudWay' /\ PayloadWay' /\ (NoAnswer \/ Growing)
<1> DEFINE n == Len(rows) + 1
           payload == Append(rows, table[n])
           shows == [i \in Rows |-> IF payload[i] > newest[i] THEN payload[i] ELSE newest[i]]
<1>1. /\ UNCHANGED <<table, jobs, scheduled>>
      /\ IF Len(payload) = Len(Providers)
         THEN rows' = <<>> /\ report' = payload /\ newest' = shows
         ELSE rows' = payload /\ report' = report /\ newest' = newest
  BY DEF ReadRow
<1>2. /\ n \in Rows /\ n \in Nat /\ table[n] \in Nat /\ rows \in Seq(Nat)
      /\ scheduled \in Nat
      /\ \A i \in Rows : table[i] \in Nat /\ newest[i] \in Nat
  <2>1. /\ rows \in Seq(Nat) /\ Len(rows) \in Nat /\ Len(rows) < Len(Providers)
        /\ scheduled \in Nat
        /\ table \in [Rows -> Nat] /\ newest \in [Rows -> Nat]
    BY CloudAssumption DEF CloudWay, PayloadWay, Version
  <2>2. n \in Rows /\ n \in Nat
    BY <2>1, RowsType
  <2> QED BY <2>1, <2>2
<1>3. /\ payload \in Seq(Nat) /\ Len(payload) = n /\ payload # <<>>
      /\ \A i \in 1..Len(rows) : payload[i] = rows[i]
      /\ payload[n] = table[n]
  <2>1. payload \in Seq(Nat) /\ Len(payload) = n
    BY <1>2
  <2>2. payload # <<>>
    BY <1>2, <2>1
  <2>3. \A i \in 1..Len(rows) : payload[i] = rows[i]
    BY <1>2
  <2>4. payload[n] = table[n]
    BY <1>2
  <2> QED BY <2>1, <2>2, <2>3, <2>4
\* The row just read is as the rows before it.
<1>4. ASSUME NEW i \in 1..n
      PROVE  /\ i \in Rows /\ payload[i] \in Nat /\ payload[i] <= scheduled
             /\ Follows(payload[i], newest[i]) /\ Follows(table[i], payload[i])
             /\ payload[i] = 0 => Follows(table[i], newest[i] + 1)
             /\ \A job \in jobs : i \in job.left => payload[i] < job.number
             /\ report # <<>> /\ report[i] = 0 => Follows(payload[i], newest[i] + 1)
  <2>1. i \in Rows /\ (i \in 1..Len(rows) \/ i = n)
    BY <1>2, RowsType
  <2>2. CASE i \in 1..Len(rows)
    BY <1>2, <1>3, <2>1, <2>2 DEF PayloadWay
  <2>3. CASE i = n
    BY <1>2, <1>3, <2>1, <2>3 DEF CloudWay, PayloadWay, Follows
  <2> QED BY <2>1, <2>2, <2>3
<1> HIDE DEF payload
<1>5. CASE Len(payload) = Len(Providers)
  <2>1. rows' = <<>> /\ report' = payload /\ newest' = shows /\ 1..n = Rows
    BY <1>1, <1>3, <1>5, RowsType
  <2>2. Growing
    BY <1>2, <1>4, <2>1 DEF Growing, Follows
  <2>3. \A i \in Rows :
           newest'[i] = IF payload[i] > newest[i] THEN payload[i] ELSE newest[i]
    BY <2>1
  <2> HIDE DEF shows
  <2>4. newest' \in [Rows -> Nat]
    BY <1>2, <1>4, <2>1 DEF shows
  <2>5. CloudWay'
    <3>1. \A i \in Rows : newest'[i] <= scheduled
      BY <1>2, <1>4, <2>1, <2>3 DEF CloudWay
    <3>2. \A job \in jobs : \A i \in job.left : newest'[i] < job.number
      <4> SUFFICES ASSUME NEW job \in jobs, NEW i \in job.left PROVE newest'[i] < job.number
        OBVIOUS
      <4>1. i \in Rows /\ newest[i] < job.number
        BY DEF CloudWay
      <4> QED BY <1>4, <2>1, <2>3, <4>1
    <3> QED BY <1>1, <2>4, <3>1, <3>2 DEF CloudWay
  <2>6. \A i \in Rows : /\ Follows(table[i], newest'[i])
                        /\ Follows(payload[i], newest'[i])
                        /\ payload[i] = 0 => Follows(table[i], newest'[i] + 1)
    <3> SUFFICES ASSUME NEW i \in Rows
                 PROVE  /\ Follows(table[i], newest'[i])
                        /\ Follows(payload[i], newest'[i])
                        /\ payload[i] = 0 => Follows(table[i], newest'[i] + 1)
      OBVIOUS
    <3>1. /\ table[i] \in Nat /\ newest[i] \in Nat /\ payload[i] \in Nat
          /\ Follows(table[i], newest[i]) /\ Follows(table[i], payload[i])
          /\ Follows(payload[i], newest[i])
          /\ payload[i] = 0 => Follows(table[i], newest[i] + 1)
      BY <1>2, <1>4, <2>1 DEF PayloadWay
    <3>2. CASE payload[i] > newest[i]
      BY <2>3, <3>1, <3>2 DEF Follows
    <3>3. CASE ~(payload[i] > newest[i])
      BY <2>3, <3>1, <3>3
    <3> QED BY <3>2, <3>3
  <2>7. PayloadWay'
    <3>1. \A i \in Rows : payload[i] <= scheduled
      BY <1>4, <2>1
    <3>2. Len(rows') = 0 /\ 1..Len(rows') = {} /\ rows' \in Seq(Nat)
      BY <2>1
    <3> QED BY <1>1, <1>3, <1>5, <2>1, <2>6, <3>1, <3>2, RowsType DEF PayloadWay
  <2> QED BY <2>2, <2>5, <2>7
<1>6. CASE Len(payload) # Len(Providers)
  <2>1. /\ rows' = payload /\ report' = report /\ newest' = newest
        /\ Len(payload) < Len(Providers)
    BY <1>1, <1>2, <1>3, <1>6, RowsType
  <2>2. CloudWay'
    BY <1>1, <2>1 DEF CloudWay
  <2>3. PayloadWay'
    BY <1>1, <1>3, <1>4, <2>1 DEF PayloadWay
  <2> QED BY <2>1, <2>2, <2>3 DEF NoAnswer
<1> QED BY <1>5, <1>6

LEMMA InitCloudWay == Init => CloudWay /\ PayloadWay
<1>1. 0 \in Version
  BY CloudAssumption DEF Version
<1>2. ASSUME Init PROVE CloudWay
  BY <1>1, <1>2 DEF Init, CloudInit, CloudWay
<1>3. ASSUME Init PROVE PayloadWay
  <2>1. rows = <<>> /\ report = <<>> /\ \A i \in Rows : table[i] = 0
    BY <1>3 DEF Init, CloudInit
  <2>2. rows \in Seq(Nat) /\ report \in Seq(Nat) /\ Len(rows) = 0 /\ 1..Len(rows) = {}
    BY <2>1
  <2> QED BY <2>1, <2>2, RowsType DEF PayloadWay, Follows
<1> QED BY <1>2, <1>3

LEMMA NextCloudWay ==
    ASSUME CloudWay, PayloadWay, [Next]_allVars
    PROVE  CloudWay' /\ PayloadWay' /\ (NoAnswer \/ Growing)
<1>1. CASE UNCHANGED cloudVars
  BY <1>1 DEF cloudVars, CloudWay, PayloadWay, NoAnswer
<1>2. CASE RefreshCloud
  BY <1>2, RefreshKeeps DEF RefreshCloud
<1>3. CASE Background
  BY <1>3, FetchRowKeeps, ReadRowKeeps DEF Background, CloudBackground
<1>4. CASE BuildStep
  BY <1>1, <1>4, BuildStepIsBuilding DEF Building
<1>5. CASE RegisterCatcher \/ Launch \/ OnIgnite \/ Liftoff \/ Reset
  BY <1>1, <1>5 DEF RegisterCatcher, Launch, OnIgnite, Liftoff, Reset
<1>6. CASE \E r \in Requests : Arrive(r) \/ OnRequest(r) \/ RunGuard(r)
  BY <1>1, <1>6 DEF Arrive, OnRequest, RunGuard
<1>7. CASE UNCHANGED allVars
  BY <1>1, <1>7 DEF allVars
<1> QED BY <1>2, <1>3, <1>4, <1>5, <1>6, <1>7 DEF Next, BuildStep

\* Whichever fetches fail, no payload of the status route shows a provider with
\* ranges older than a payload before it, nor with the same ones again once it
\* was shown unready: refreshes never overlap, and one replaces or drops a row
\* once.
THEOREM PayloadsGrow == Spec => ReportsNeverGoBack
<1>1. CloudWay /\ PayloadWay /\ [Next]_allVars => CloudWay' /\ PayloadWay'
  BY NextCloudWay
<1>2. CloudWay /\ PayloadWay /\ NoAnswer => Growing
  BY RowsType DEF CloudWay, PayloadWay, NoAnswer, Growing, Follows
<1>3. CloudWay /\ PayloadWay /\ [Next]_allVars
        => [report' # <<>> =>
               \A i \in Rows : report'[i] # 0 =>
                   /\ report'[i] >= newest[i]
                   /\ report # <<>> /\ report[i] = 0 => report'[i] > newest[i]]_allVars
  BY <1>2, NextCloudWay DEF Growing
<1> QED BY InitCloudWay, <1>1, <1>3, PTL DEF Spec, ReportsNeverGoBack

----------------------------------------------------------------------------
(* What the copies of a fairing's switches hold, and what the windows of   *)
(* its limiter do.  The copies agree because a fairing built from a        *)
(* passive configuration keeps every switch of it passive, because the     *)
(* engine is the one of the first guard attached, and because that guard   *)
(* is the first one a request meets.                                       *)

\* A fairing still "passive" has all its copies of the switch passive.
FairingWay(f) ==
    /\ f \in Fairing
    /\ f.origin = "passive" =>
          f.passive_mode /\ \A s \in Stages : f.stages[s] # "enforcing"

BuildWay ==
    /\ FairingWay(draft) /\ FairingWay(kept)
    /\ created \in Stores
    /\ calls \in 0..MaxCalls
    /\ chain \in Seq([code : Nat, guard : Fairing])
    /\ \A i \in 1..Len(chain) : FairingWay(chain[i].guard)

CatcherWay ==
    /\ catchers \subseteq [code : Nat, base : Bases \cup {"/"}, by : Nat]
    /\ ignited <= Len(chain)

FirstGuard(i) == i \in GuardLinks /\ \A j \in GuardLinks : i <= j

ChargeWay == \A e \in managed : \E i : FirstGuard(i) /\ e = EngineOf(chain[i].guard)

WindowWay ==
    /\ windows \in [Stores -> 0..(Limit + 1)]
    /\ counted \in Nat
    /\ phase # "serving" => windows = [s \in Stores |-> 0]
    /\ ResetReachesTheStage

\* What a refusal of `ask` says about the fairing in charge.
Blamed(ask) ==
    /\ InCharge.origin # "passive"
    /\ ask \in {"metadata", "body"} /\ ~InCharge.penetration => InCharge.rate_limiter # 0

CauseWay(r) ==
    /\ asks[r] \in Objections
    /\ phase # "serving" => verdict[r] = "none"
    /\ verdict[r] = "refused" => GuardLinks # {} /\ Blamed(asks[r])
    /\ outcome[r] = "refused" /\ GuardLinks # {} => Blamed(asks[r])

SwitchInv ==
    /\ BuildWay
    /\ CatcherWay
    /\ ChargeWay
    /\ WindowWay
    /\ asks \in [Requests -> Objections]
    /\ \A r \in Requests : CauseWay(r)

LEMMA InChargeIsFirst ==
    ASSUME SwitchInv, NEW i, FirstGuard(i)
    PROVE  /\ InCharge = chain[i].guard
           /\ GuardLinks # {}
           /\ FairingWay(InCharge)
<1>1. i \in 1..Len(chain) /\ GuardLinks \subseteq Nat
  BY DEF SwitchInv, BuildWay, FirstGuard, GuardLinks
<1>2. (CHOOSE k \in GuardLinks : \A j \in GuardLinks : k <= j) = i
  <2> DEFINE least == CHOOSE k \in GuardLinks : \A j \in GuardLinks : k <= j
  <2>1. \E k \in GuardLinks : \A j \in GuardLinks : k <= j
    BY DEF FirstGuard
  <2>2. least \in GuardLinks /\ \A j \in GuardLinks : least <= j
    BY <2>1
  <2> HIDE DEF least
  <2>3. least <= i /\ i <= least
    BY <2>2 DEF FirstGuard
  <2>4. least = i
    BY <1>1, <2>2, <2>3
  <2> QED BY <2>4 DEF least
<1> QED BY <1>1, <1>2 DEF InCharge, FirstGuard, SwitchInv, BuildWay

----------------------------------------------------------------------------
(* Building: every builder leaves a fairing whose copies agree.            *)

LEMMA NewWay == FairingWay(New)
BY BuilderAssumption DEF FairingWay, Fairing, New, Stores, Modes

LEMMA BuildersKeepWay ==
    ASSUME NEW f, FairingWay(f)
    PROVE  /\ FairingWay(WithIpGate(f)) /\ FairingWay(WithCloudRefreshScheduler(f))
           /\ \A b \in BOOLEAN :
                 FairingWay(WithPassiveMode(f, b)) /\ FairingWay(WithPenetrationDetection(f, b))
           /\ \A s \in Stages : FairingWay(WithStage(f, s, "enforcing"))
           /\ \A limiter \in Stores : FairingWay(WithRateLimiting(f, limiter))
<1> USE DEF FairingWay, Fairing
<1>1. \A x \in Switches : f.has \cup {x} \in SUBSET Switches
  OBVIOUS
<1>2. FairingWay(WithIpGate(f)) /\ FairingWay(WithCloudRefreshScheduler(f))
  <2>1. "ip_gate" \in Switches /\ "cloud_refresh" \in Switches
    BY DEF Switches
  <2>2. FairingWay(WithIpGate(f))
    BY <1>1, <2>1 DEF WithIpGate
  <2>3. FairingWay(WithCloudRefreshScheduler(f))
    BY <1>1, <2>1 DEF WithCloudRefreshScheduler
  <2> QED BY <2>2, <2>3
<1>3. ASSUME NEW b \in BOOLEAN
      PROVE  FairingWay(WithPassiveMode(f, b)) /\ FairingWay(WithPenetrationDetection(f, b))
  BY DEF WithPassiveMode, WithPenetrationDetection
<1>4. ASSUME NEW s \in Stages PROVE FairingWay(WithStage(f, s, "enforcing"))
  BY DEF WithStage, Modes
<1>5. ASSUME NEW limiter \in Stores PROVE FairingWay(WithRateLimiting(f, limiter))
  BY DEF WithRateLimiting
<1> QED BY <1>2, <1>3, <1>4, <1>5

LEMMA SecurityConfigWay ==
    ASSUME NEW c \in SecurityConfigs, NEW limiter \in Stores
    PROVE  FairingWay(FromSecurityConfig(c, limiter))
<1>1. c \in SecurityConfig
  BY ApplicationAssumption
<1>2. /\ StageModes(c) \in [Stages -> Modes]
      /\ c.passive => \A s \in Stages : StageModes(c)[s] # "enforcing"
  BY DEF StageModes, ModeOf, Modes
<1>3. 0 \in Stores
  BY BuilderAssumption DEF Stores
<1> QED
  BY <1>1, <1>2, <1>3
  DEF FairingWay, Fairing, FromSecurityConfig, SecurityConfig, ModeOf, Switches

LEMMA BuildStepWay ==
    ASSUME BuildWay, BuildStep
    PROVE  BuildWay'
<1> USE DEF BuildWay
<1>1. ASSUME NEW f, NEW new \in {0, 1}, Builds(f, new),
             created + new <= MaxStores => FairingWay(f)
      PROVE  BuildWay'
  <2>1. /\ draft' = f /\ kept' = kept /\ chain' = chain
        /\ calls < MaxCalls /\ calls' = calls + 1
        /\ created + new <= MaxStores /\ created' = created + new
    BY <1>1 DEF Builds
  <2>2. calls' \in 0..MaxCalls
    BY <2>1, ApplicationAssumption
  <2>3. created' \in Stores
    BY <2>1, BuilderAssumption DEF Stores
  <2> QED BY <1>1, <2>1, <2>2, <2>3
<1>2. created + 1 <= MaxStores => created + 1 \in Stores
  BY BuilderAssumption DEF Stores
<1>3. kept.rate_limiter \in Stores
  BY DEF FairingWay, Fairing
<1>4. CASE CallRateLimiting
  BY <1>1, <1>2, <1>3, <1>4, BuildersKeepWay DEF CallRateLimiting
<1>5. CASE CallBuilder \/ CallStage
  BY <1>1, <1>5, BuildersKeepWay DEF CallBuilder, CallStage
<1>6. CASE CallSecurityConfig
  BY <1>1, <1>2, <1>6, SecurityConfigWay DEF CallSecurityConfig
<1>7. CASE KeepClone
  BY <1>7 DEF KeepClone
<1>8. ASSUME NEW link \in [code : Nat, guard : Fairing], FairingWay(link.guard),
             chain' = Append(chain, link), UNCHANGED <<draft, kept, created, calls>>
      PROVE  BuildWay'
  BY <1>8
<1>9. CASE Attach
  <2>1. GuardLink(draft) \in [code : Nat, guard : Fairing] /\ GuardLink(draft).guard = draft
    BY DEF GuardLink, FairingWay
  <2> QED BY <1>8, <1>9, <2>1 DEF Attach
<1>10. CASE AttachOwn
  <2>1. PICK code \in AppCodes :
          chain' = Append(chain, AppLink(code)) /\ UNCHANGED <<draft, kept, created, calls>>
    BY <1>10 DEF AttachOwn
  <2>2. AppLink(code) \in [code : Nat, guard : Fairing] /\ AppLink(code).guard = New
    <3>1. code \in Nat /\ New \in Fairing
      BY NewWay, ApplicationAssumption DEF FairingWay
    <3> QED BY <3>1 DEF AppLink
  <2> QED BY <1>8, <2>1, <2>2, NewWay
<1> QED BY <1>4, <1>5, <1>6, <1>7, <1>9, <1>10 DEF BuildStep

\* Nothing serves yet: no engine, no hit, no verdict.
LEMMA BuildingSwitches ==
    ASSUME AInv, SwitchInv, Building, BuildWay'
    PROVE  SwitchInv'
<1>1. /\ phase = "building" /\ phase' = phase /\ ignited = 0 /\ ignited' = 0
      /\ UNCHANGED <<catchers, managed, windows, counted, asks, verdict, outcome>>
  BY DEF AInv, LaunchWay, Building, launchVars, requestVars
<1>2. managed = {}
  BY <1>1 DEF AInv, EngineWay
<1>3. CatcherWay' /\ ChargeWay' /\ WindowWay'
  BY <1>1, <1>2 DEF SwitchInv, CatcherWay, ChargeWay, WindowWay, ResetReachesTheStage, BuildWay
<1>4. ASSUME NEW r \in Requests PROVE CauseWay(r)'
  BY <1>1 DEF AInv, LaunchWay, SwitchInv, CauseWay
<1> QED BY <1>1, <1>3, <1>4 DEF SwitchInv

\* The application's catcher is an address of its own and nothing else.
LEMMA RegisterCatcherSwitches ==
    ASSUME AInv, SwitchInv, RegisterCatcher
    PROVE  SwitchInv'
<1>1. /\ phase = "building" /\ phase' = phase /\ ignited = 0 /\ ignited' = 0
      /\ UNCHANGED <<draft, kept, created, calls, chain, managed, windows, counted, asks,
                     verdict, outcome>>
  BY DEF AInv, LaunchWay, RegisterCatcher, buildVars, requestVars
<1>2. managed = {}
  BY <1>1 DEF AInv, EngineWay
<1>3. catchers' \subseteq [code : Nat, base : Bases \cup {"/"}, by : Nat]
  <2>1. PICK code \in AppCodes, base \in Bases :
          catchers' = catchers \cup {[code |-> code, base |-> base, by |-> 0]}
    BY DEF RegisterCatcher
  <2>2. code \in Nat
    BY ApplicationAssumption
  <2> QED BY <2>1, <2>2 DEF SwitchInv, CatcherWay
<1>4. BuildWay' /\ CatcherWay'
  BY <1>1, <1>3 DEF SwitchInv, BuildWay, CatcherWay
<1>5. ChargeWay' /\ WindowWay'
  BY <1>1, <1>2 DEF SwitchInv, ChargeWay, WindowWay, ResetReachesTheStage
<1>6. ASSUME NEW r \in Requests PROVE CauseWay(r)'
  BY <1>1 DEF AInv, LaunchWay, SwitchInv, CauseWay
<1> QED BY <1>1, <1>4, <1>5, <1>6 DEF SwitchInv

LEMMA LaunchSwitches ==
    ASSUME AInv, SwitchInv, Launch \/ Liftoff
    PROVE  SwitchInv'
<1>1. /\ phase # "serving" /\ UNCHANGED <<catchers, ignited, managed, windows, counted, asks, verdict, outcome>>
      /\ UNCHANGED <<draft, kept, created, calls, chain>>
  BY DEF Launch, Liftoff, buildVars, launchVars, requestVars
<1>2. BuildWay' /\ CatcherWay'
  BY <1>1 DEF SwitchInv, BuildWay, CatcherWay
<1>3. ChargeWay' /\ WindowWay'
  BY <1>1
  DEF SwitchInv, ChargeWay, FirstGuard, GuardLinks, WindowWay, ResetReachesTheStage
<1>4. ASSUME NEW r \in Requests PROVE CauseWay(r)'
  BY <1>1 DEF AInv, LaunchWay, SwitchInv, CauseWay
<1> QED BY <1>1, <1>2, <1>3, <1>4 DEF SwitchInv

\* The first guard of the chain to ignite is the one whose engine is managed.
LEMMA OnIgniteSwitches ==
    ASSUME AInv, SwitchInv, OnIgnite
    PROVE  SwitchInv'
<1> DEFINE next == ignited + 1
           link == chain[next]
           codes == IF IsGuard(link) THEN Unclaimed({c.code : c \in catchers}) ELSE {link.code}
<1>1. /\ phase = "igniting" /\ phase' = phase
      /\ next <= Len(chain) /\ ignited' = next
      /\ managed' = IF IsGuard(link) THEN ManagedAfter(link.guard) ELSE managed
      /\ catchers' = catchers \cup [code : codes, base : {"/"}, by : {next}]
      /\ UNCHANGED <<draft, kept, created, calls, chain, windows, counted, asks, verdict, outcome>>
  BY DEF OnIgnite, buildVars, requestVars
<1>2. /\ ignited \in Nat /\ next \in 1..Len(chain)
      /\ Len(chain) \in Nat /\ DOMAIN chain = 1..Len(chain)
  BY <1>1 DEF AInv, LaunchWay, SwitchInv, BuildWay
<1>3. BuildWay'
  BY <1>1 DEF SwitchInv, BuildWay
<1>4. CatcherWay'
  <2>1. codes \subseteq Nat
    <3> HIDE DEF codes, next
    <3>1. chain[next] \in [code : Nat, guard : Fairing]
      <4> DEFINE links == [code : Nat, guard : Fairing]
      <4>1. chain \in Seq(links)
        BY DEF SwitchInv, BuildWay
      <4> HIDE DEF links
      <4>2. chain[next] \in links
        BY <1>2, <4>1
      <4> QED BY <4>2 DEF links
    <3> USE DEF codes
    <3>2. link.code \in Nat /\ CatcherCodes \subseteq Nat
      BY <3>1 DEF CatcherCodes
    <3> HIDE DEF link
    <3> QED BY <3>2 DEF Unclaimed
  <2> HIDE DEF codes
  <2>2. catchers' \subseteq [code : Nat, base : Bases \cup {"/"}, by : Nat]
    <3>1. [code : codes, base : {"/"}, by : {next}]
            \subseteq [code : Nat, base : Bases \cup {"/"}, by : Nat]
      <4>1. next \in Nat
        BY <1>2
      <4> HIDE DEF next
      <4> QED BY <2>1, <4>1
    <3> HIDE DEF next, link
    <3> QED BY <1>1, <3>1 DEF SwitchInv, CatcherWay
  <2> QED BY <1>1, <1>2, <2>2 DEF CatcherWay
<1>5. ChargeWay'
  <2>1. \A i : FirstGuard(i)' <=> FirstGuard(i)
    BY <1>1 DEF FirstGuard, GuardLinks, IsGuard
  <2>2. CASE managed' = managed
    BY <1>1, <2>1, <2>2 DEF SwitchInv, ChargeWay, EngineOf, BuildStage
  <2>3. CASE managed' # managed
    <3>1. IsGuard(link) /\ managed = {} /\ managed' = {EngineOf(link.guard)}
      BY <1>1, <2>3 DEF ManagedAfter
    <3>2. FirstGuard(next)
      BY <1>2, <3>1 DEF AInv, EngineWay, FirstGuard, GuardLinks
    <3> QED BY <1>1, <2>1, <3>1, <3>2 DEF ChargeWay, EngineOf, BuildStage
  <2> QED BY <2>2, <2>3
<1>6. WindowWay'
  <2> SUFFICES ASSUME NEW e \in managed', e.stage.limiter # 0
               PROVE  windows[e.stage.limiter] <= counted
    BY <1>1 DEF SwitchInv, WindowWay, ResetReachesTheStage
  <2>1. PICK i \in 1..Len(chain) : e = EngineOf(chain[i].guard)
    BY <1>1, <1>2, <1>5 DEF ChargeWay, FirstGuard, GuardLinks, EngineOf, BuildStage
  <2>2. e.stage.limiter \in Stores
    BY <2>1 DEF SwitchInv, BuildWay, FairingWay, Fairing, EngineOf, BuildStage
  <2> QED BY <1>1, <2>2 DEF SwitchInv, WindowWay
<1>7. ASSUME NEW r \in Requests PROVE CauseWay(r)'
  BY <1>1 DEF AInv, LaunchWay, SwitchInv, CauseWay
<1> QED BY <1>1, <1>3, <1>4, <1>5, <1>6, <1>7 DEF SwitchInv

----------------------------------------------------------------------------
(* Serving.                                                                *)

LEMMA ServingSwitches ==
    ASSUME AInv, SwitchInv, Serving, WindowWay', asks' \in [Requests -> Objections],
           \A r \in Requests : CauseWay(r)'
    PROVE  SwitchInv'
<1>1. UNCHANGED <<draft, kept, created, calls, chain, catchers, ignited, managed>>
  BY DEF Serving, buildVars, launchVars
<1>2. BuildWay' /\ CatcherWay'
  BY <1>1 DEF SwitchInv, BuildWay, CatcherWay
<1>3. ChargeWay'
  BY <1>1 DEF SwitchInv, ChargeWay, FirstGuard, GuardLinks
<1> QED BY <1>2, <1>3 DEF SwitchInv

\* The fairing in charge stays in charge, so what is blamed stays blamed.
LEMMA CauseStays ==
    ASSUME SwitchInv, Serving, NEW r \in Requests,
           asks'[r] = asks[r], verdict'[r] = verdict[r], outcome'[r] = outcome[r]
    PROVE  CauseWay(r)'
<1>1. CauseWay(r) /\ chain' = chain /\ phase' = phase
  BY DEF SwitchInv, Serving, buildVars
<1> QED BY <1>1 DEF CauseWay, Blamed, GuardLinks, InCharge

LEMMA WindowsStay ==
    ASSUME SwitchInv, Serving, UNCHANGED <<windows, counted>>
    PROVE  WindowWay'
BY DEF SwitchInv, Serving, launchVars, WindowWay, ResetReachesTheStage

LEMMA ArriveSwitches ==
    ASSUME AInv, SwitchInv, NEW r \in Requests, Arrive(r)
    PROVE  SwitchInv'
<1> USE DEF Arrive
<1>1. asks' \in [Requests -> Objections]
  BY DEF SwitchInv
<1>2. ASSUME NEW s \in Requests, s # r PROVE CauseWay(s)'
  BY <1>2, CauseStays DEF AInv, RequestTypes, SwitchInv
<1>3. CauseWay(r)'
  <2>1. verdict'[r] = "none" /\ outcome'[r] = "pending" /\ asks'[r] \in Objections
    BY <1>1 DEF AInv, RequestTypes
  <2> QED BY <2>1 DEF CauseWay
<1> QED BY <1>1, <1>2, <1>3, WindowsStay, ServingSwitches

\* A refusal names its cause: the IP gate or a check stage that enforces, or
\* the engine's own detection or limiter, and none of them is passive.
LEMMA RefusalIsBlamed ==
    ASSUME SwitchInv, NEW i, FirstGuard(i), NEW ask \in Objections,
           EvaluateAnswer(InCharge, EngineOf(InCharge), ask) = "refused"
    PROVE  Blamed(ask)
<1> DEFINE f == InCharge
<1>1. FairingWay(f)
  BY InChargeIsFirst
<1>2. /\ RefusesBefore(f, ask) =>
            f.origin # "passive" /\ ask \notin {"metadata", "body"}
  BY <1>1 DEF RefusesBefore, FairingWay, Stages
<1>3. /\ EngineOf(f).stage.passive_mode = f.passive_mode
      /\ EngineOf(f).stage.limiter = f.rate_limiter
  BY DEF EngineOf, BuildStage
<1>4. \/ RefusesBefore(f, ask)
      \/ f.rate_limiter # 0 /\ ~f.passive_mode
      \/ ask = "metadata" /\ f.penetration /\ ~f.passive_mode
  BY <1>3 DEF EvaluateAnswer, OverLimit
<1> HIDE DEF f
<1>5. f.origin # "passive"
  BY <1>1, <1>2, <1>4 DEF FairingWay
<1>6. ask \in {"metadata", "body"} /\ ~f.penetration => f.rate_limiter # 0
  BY <1>2, <1>4
<1> QED BY <1>5, <1>6 DEF Blamed, f

\* A request with no verdict yet is at the fairing in charge.
LEMMA FirstMeetsInCharge ==
    ASSUME AInv, SwitchInv, NEW r \in Requests, OnRequest(r), IsGuard(chain[at[r]])
    PROVE  /\ EngineFor(chain[at[r]].guard) = EngineOf(InCharge)
           /\ \E i : FirstGuard(i)
           /\ verdict[r] = "none" => FirstGuard(at[r])
<1>1. /\ phase = "serving" /\ at[r] \in Nat \ {0} /\ at[r] <= Len(chain)
      /\ ignited = Len(chain) /\ ignited \in Nat /\ MetGuards(r)
  BY DEF OnRequest, Serving, AInv, RequestTypes, LaunchWay, RequestWay
<1>2. DOMAIN chain = 1..Len(chain)
  BY DEF SwitchInv, BuildWay
<1>3. managed # {}
  BY <1>1 DEF AInv, EngineWay
<1>4. EngineFor(chain[at[r]].guard) \in managed
  BY <1>3 DEF EngineFor
<1>5. PICK i : FirstGuard(i) /\ EngineFor(chain[at[r]].guard) = EngineOf(chain[i].guard)
  BY <1>4 DEF SwitchInv, ChargeWay
<1>6. InCharge = chain[i].guard
  BY <1>5, InChargeIsFirst
<1>7. ASSUME verdict[r] = "none" PROVE FirstGuard(at[r])
  <2>1. at[r] \in GuardLinks
    BY <1>1, <1>2 DEF GuardLinks
  <2>2. ASSUME NEW j \in GuardLinks PROVE at[r] <= j
    BY <1>1, <1>2, <1>7 DEF MetGuards, GuardLinks
  <2> QED BY <2>1, <2>2 DEF FirstGuard
<1> QED BY <1>5, <1>6, <1>7

\* The limiter's windows grow only by hits that are counted.
LEMMA OnRequestSwitches ==
    ASSUME AInv, SwitchInv, NEW r \in Requests, OnRequest(r)
    PROVE  SwitchInv'
<1> DEFINE link == chain[at[r]]
           e == EngineFor(link.guard)
           answer == EvaluateAnswer(link.guard, e, asks[r])
<1>1. /\ Serving /\ outcome' = outcome /\ asks' = asks /\ managed' = managed
      /\ phase = "serving" /\ phase' = phase
  BY DEF OnRequest, Serving, launchVars
<1>2. ASSUME NEW s \in Requests, s # r PROVE CauseWay(s)'
  <2>1. verdict'[s] = verdict[s]
    BY <1>2 DEF OnRequest, AInv, RequestTypes
  <2> QED BY <1>1, <2>1, CauseStays
<1>3. CASE ~IsGuard(link)
  <2>1. UNCHANGED <<windows, verdict, counted>>
    BY <1>3 DEF OnRequest
  <2>2. CauseWay(r)'
    BY <1>1, <2>1, CauseStays
  <2> QED BY <1>1, <1>2, <2>1, <2>2, WindowsStay, ServingSwitches DEF SwitchInv
<1>4. CASE IsGuard(link)
  <2>1. /\ windows' = WindowsAfter(link.guard, e, asks[r])
        /\ verdict' = [verdict EXCEPT ![r] = Stash(verdict[r], answer)]
        /\ counted' = IF windows' = windows THEN counted ELSE counted + 1
    BY <1>4 DEF OnRequest
  <2>2. /\ e = EngineOf(InCharge) /\ \E i : FirstGuard(i)
        /\ verdict[r] = "none" => FirstGuard(at[r])
    BY <1>4, FirstMeetsInCharge
  <2>3. FairingWay(InCharge) /\ GuardLinks # {}
    BY <2>2, InChargeIsFirst
  <2>4. CauseWay(r)'
    <3>1. verdict'[r] = Stash(verdict[r], answer)
      BY <2>1 DEF AInv, RequestTypes
    <3>2. CASE verdict[r] # "none"
      <4>1. verdict'[r] = verdict[r]
        BY <3>1, <3>2 DEF Stash
      <4> QED BY <1>1, <4>1, CauseStays
    <3>3. CASE verdict[r] = "none"
      <4>1. link.guard = InCharge
        BY <2>2, <3>3, InChargeIsFirst
      <4>2. asks[r] \in Objections
        BY DEF SwitchInv, CauseWay
      <4>3. verdict'[r] = "refused" => Blamed(asks[r])
        BY <2>2, <3>1, <3>3, <4>1, <4>2, RefusalIsBlamed DEF Stash
      <4>4. CauseWay(r) /\ chain' = chain
        BY <1>1 DEF SwitchInv, Serving, buildVars
      <4> HIDE DEF link, e, answer
      <4> QED BY <1>1, <2>3, <4>3, <4>4 DEF CauseWay, Blamed, GuardLinks, InCharge
    <3> QED BY <3>2, <3>3
  <2>5. WindowWay'
    <3> DEFINE l == e.stage.limiter
    <3>1. l \in Stores
      BY <2>2, <2>3 DEF FairingWay, Fairing, EngineOf, BuildStage
    <3>2. /\ windows \in [Stores -> 0..(Limit + 1)] /\ counted \in Nat /\ Limit \in Nat
          /\ \A d \in managed : d.stage.limiter # 0 => windows[d.stage.limiter] <= counted
      BY ApplicationAssumption DEF SwitchInv, WindowWay, ResetReachesTheStage
    <3>3. \/ windows' = windows
          \/ windows' = [windows EXCEPT ![l] = IF windows[l] > Limit THEN windows[l]
                                               ELSE windows[l] + 1]
      BY <2>1 DEF WindowsAfter
    <3>4. \A d \in managed : d = e
      <4>1. \A d \in managed : \E i : FirstGuard(i) /\ d = EngineOf(chain[i].guard)
        BY DEF SwitchInv, ChargeWay
      <4> QED BY <2>2, <4>1, InChargeIsFirst
    <3>5. /\ counted' \in Nat /\ counted <= counted'
          /\ windows' # windows => counted' = counted + 1
      BY <2>1, <3>2
    <3> HIDE DEF l
    <3>6. windows' \in [Stores -> 0..(Limit + 1)]
      BY <3>1, <3>2, <3>3
    <3> HIDE DEF e, link
    <3>7. l # 0 /\ e \in managed => windows[l] <= counted
      BY <3>2 DEF l
    <3>8. l # 0 /\ e \in managed => windows'[l] <= counted'
      <4>1. windows[l] \in Nat
        BY <3>1, <3>2
      <4>2. CASE windows' = windows
        BY <3>2, <3>5, <3>7, <4>1, <4>2
      <4>3. CASE windows' # windows
        <5>1. windows'[l] = windows[l] + 1
          BY <3>1, <3>2, <3>3, <4>3
        <5>2. counted' = counted + 1
          BY <3>5, <4>3
        <5> QED BY <3>2, <3>7, <4>1, <5>1, <5>2
      <4> QED BY <4>2, <4>3
    <3>9. \A d \in managed : d.stage.limiter # 0 => windows'[d.stage.limiter] <= counted'
      BY <3>4, <3>8 DEF l
    <3>10. managed' = managed /\ phase' = "serving"
      BY <1>1
    <3> QED BY <3>5, <3>6, <3>9, <3>10 DEF WindowWay, ResetReachesTheStage
  <2> QED BY <1>1, <1>2, <2>4, <2>5, ServingSwitches DEF SwitchInv
<1> QED BY <1>3, <1>4

\* The guard refuses for the verdict, for the body or, with no engine, always.
LEMMA RunGuardSwitches ==
    ASSUME AInv, SwitchInv, NEW r \in Requests, RunGuard(r)
    PROVE  SwitchInv'
<1>1. /\ Serving /\ outcome[r] = "pending"
      /\ phase = "serving" /\ phase' = phase /\ chain' = chain
      /\ outcome' = [outcome EXCEPT ![r] = IF Passes(r) THEN "ran" ELSE "refused"]
      /\ UNCHANGED <<windows, asks, verdict, counted>>
  BY DEF RunGuard, Serving, buildVars
<1>2. ASSUME NEW s \in Requests, s # r PROVE CauseWay(s)'
  <2>1. outcome'[s] = outcome[s]
    BY <1>1, <1>2 DEF AInv, RequestTypes
  <2> QED BY <1>1, <2>1, CauseStays
<1>3. ASSUME ~Passes(r), GuardLinks # {} PROVE Blamed(asks[r])
  <2>1. CASE verdict[r] = "refused"
    BY <2>1 DEF SwitchInv, CauseWay
  <2>2. CASE verdict[r] # "refused"
    <3>1. managed # {}
      <4>1. ignited = Len(chain) /\ DOMAIN chain = 1..Len(chain)
        BY <1>1 DEF AInv, LaunchWay, SwitchInv, BuildWay
      <4> QED BY <1>3, <4>1 DEF GuardLinks, AInv, EngineWay
    <3>2. PICK e \in managed : BodyRefused(e, asks[r])
      BY <1>3, <2>2, <3>1 DEF Passes
    <3>3. PICK i : FirstGuard(i) /\ e = EngineOf(chain[i].guard)
      BY DEF SwitchInv, ChargeWay
    <3>4. e = EngineOf(InCharge) /\ FairingWay(InCharge)
      BY <3>3, InChargeIsFirst
    <3>5. InCharge.penetration /\ ~InCharge.passive_mode
      BY <3>2, <3>4 DEF BodyRefused, EngineOf, BuildStage
    <3> QED BY <3>4, <3>5 DEF FairingWay, Blamed
  <2> QED BY <2>1, <2>2
<1>4. CauseWay(r)'
  <2>1. outcome'[r] = (IF Passes(r) THEN "ran" ELSE "refused") /\ CauseWay(r)
    BY <1>1 DEF AInv, RequestTypes, SwitchInv
  <2> QED BY <1>1, <1>3, <2>1 DEF CauseWay, Blamed, GuardLinks, InCharge
<1> QED BY <1>1, <1>2, <1>4, WindowsStay, ServingSwitches DEF SwitchInv

\* A reset of the charged limiter zeroes the count with the windows.
LEMMA OperatorSwitches ==
    ASSUME AInv, SwitchInv, Reset \/ RefreshCloud \/ Background
    PROVE  SwitchInv'
<1>1. Serving /\ UNCHANGED <<asks, verdict, outcome>>
  BY DEF Reset, RefreshCloud, Background, requestVars
<1>2. \A r \in Requests : CauseWay(r)'
  BY <1>1, CauseStays
<1>3. CASE RefreshCloud \/ Background
  <2>1. UNCHANGED <<windows, counted>>
    BY <1>3 DEF RefreshCloud, Background, requestVars
  <2> QED BY <1>1, <1>2, <2>1, WindowsStay, ServingSwitches DEF SwitchInv
<1>4. CASE Reset
  <2>1. /\ windows' = [windows EXCEPT ![kept.rate_limiter] = 0]
        /\ counted' = IF GuardLinks # {} /\ kept.rate_limiter = InCharge.rate_limiter
                      THEN 0 ELSE counted
        /\ phase = "serving" /\ phase' = phase /\ managed' = managed
    BY <1>4 DEF Reset, Serving, launchVars
  <2>2. /\ windows \in [Stores -> 0..(Limit + 1)] /\ counted \in Nat
        /\ kept.rate_limiter \in Stores /\ 0 \in 0..(Limit + 1)
        /\ \A d \in managed : d.stage.limiter # 0 => windows[d.stage.limiter] <= counted
    BY ApplicationAssumption
    DEF SwitchInv, WindowWay, ResetReachesTheStage, BuildWay, FairingWay, Fairing
  <2>3. \A d \in managed :
          /\ d.stage.limiter = InCharge.rate_limiter
          /\ d.stage.limiter \in Stores
          /\ GuardLinks # {}
    <3>1. \A d \in managed : \E i : FirstGuard(i) /\ d = EngineOf(chain[i].guard)
      BY DEF SwitchInv, ChargeWay
    <3>2. \A d \in managed :
            d = EngineOf(InCharge) /\ FairingWay(InCharge) /\ GuardLinks # {}
      BY <3>1, InChargeIsFirst
    <3> QED BY <3>2 DEF FairingWay, Fairing, EngineOf, BuildStage
  <2>4. windows' \in [Stores -> 0..(Limit + 1)] /\ counted' \in Nat
    BY <2>1, <2>2
  <2>5. \A d \in managed : d.stage.limiter # 0 => windows'[d.stage.limiter] <= counted'
    BY <2>1, <2>2, <2>3
  <2>6. WindowWay'
    BY <2>1, <2>4, <2>5 DEF WindowWay, ResetReachesTheStage
  <2> QED BY <1>1, <1>2, <2>6, ServingSwitches DEF SwitchInv
<1> QED BY <1>3, <1>4

----------------------------------------------------------------------------

LEMMA InitSwitchInv == Init => SwitchInv
<1> SUFFICES ASSUME Init PROVE SwitchInv
  OBVIOUS
<1>1. BuildWay
  BY NewWay, BuilderAssumption, ApplicationAssumption DEF Init, BuildWay, Stores
<1>2. CatcherWay /\ ChargeWay
  BY DEF Init, CatcherWay, ChargeWay
<1>3. WindowWay
  BY ApplicationAssumption DEF Init, WindowWay, ResetReachesTheStage
<1>4. asks \in [Requests -> Objections] /\ \A r \in Requests : CauseWay(r)
  BY DEF Init, Objections, CauseWay
<1> QED BY <1>1, <1>2, <1>3, <1>4 DEF SwitchInv

LEMMA NextSwitchInv == AInv /\ SwitchInv /\ [Next]_allVars => SwitchInv'
<1> SUFFICES ASSUME AInv, SwitchInv, [Next]_allVars PROVE SwitchInv'
  OBVIOUS
<1>1. CASE BuildStep
  <2>1. Building
    BY <1>1, BuildStepIsBuilding
  <2>2. BuildWay'
    BY <1>1, BuildStepWay DEF SwitchInv
  <2> QED BY <2>1, <2>2, BuildingSwitches
<1>2. CASE UNCHANGED allVars
  BY <1>2
  DEF allVars, appVars, SwitchInv, BuildWay, CatcherWay, ChargeWay, FirstGuard, GuardLinks,
      WindowWay, ResetReachesTheStage, CauseWay, Blamed, InCharge
<1> QED
  BY <1>1, <1>2, RegisterCatcherSwitches, LaunchSwitches, OnIgniteSwitches, ArriveSwitches,
     OnRequestSwitches, RunGuardSwitches, OperatorSwitches
  DEF Next, BuildStep

LEMMA AlwaysSwitchInv == Spec => []SwitchInv
BY InitAInv, NextAInv, InitSwitchInv, NextSwitchInv, PTL DEF Spec

\* Every copy of the passive switch and of the detection switch, in the
\* fairing's own checks, in its stages and in the engine the guards read,
\* decides alike: a server built from a passive configuration refuses nothing
\* and one without detection refuses for no scan, for any builder calls, any
\* attached fairings and any limit.
THEOREM SwitchesReach == Spec => []SwitchesReachEveryCopy
<1>1. SwitchInv => SwitchesReachEveryCopy
  BY DEF SwitchInv, CauseWay, Blamed, SwitchesReachEveryCopy
<1> QED BY <1>1, AlwaysSwitchInv, PTL

\* A reset through any clone that shares the charged limiter empties the
\* windows its checks read: no hit of before the reset throttles a request.
THEOREM ResetReaches == Spec => []ResetReachesTheStage
<1>1. SwitchInv => ResetReachesTheStage
  BY DEF SwitchInv, WindowWay
<1> QED BY <1>1, AlwaysSwitchInv, PTL

\* The types of the application and of the cloud table: no fairing is built
\* with a store nobody created, no catcher is registered for a code that is
\* none, one engine at most is managed and no window passes the limit by more
\* than one, for any bounds.
THEOREM ApplicationTypes == Spec => []TypeOK
<1>1. AInv /\ SwitchInv => ApplicationTypeOK
  <2> SUFFICES ASSUME AInv, SwitchInv PROVE ApplicationTypeOK
    OBVIOUS
  <2>1. /\ phase \in {"building", "igniting", "serving", "aborted"}
        /\ at \in [Requests -> Nat] /\ asks \in [Requests -> Objections]
        /\ verdict \in [Requests -> Answers]
        /\ outcome \in [Requests -> {"idle", "pending", "ran", "refused"}]
    BY DEF AInv, LaunchWay, RequestTypes, SwitchInv
  <2>2. /\ {draft, kept} \subseteq Fairing /\ created \in Stores /\ calls \in 0..MaxCalls
        /\ chain \in Seq([code : Nat, guard : Fairing])
    BY DEF SwitchInv, BuildWay, FairingWay
  <2>3. /\ catchers \subseteq [code : Nat, base : Bases \cup {"/"}, by : Nat]
        /\ ignited \in 0..Len(chain)
    BY DEF AInv, LaunchWay, SwitchInv, CatcherWay, BuildWay
  <2>4. managed \subseteq GuardEngine
    <3> SUFFICES ASSUME NEW e \in managed PROVE e \in GuardEngine
      OBVIOUS
    <3>1. PICK i : FirstGuard(i) /\ e = EngineOf(chain[i].guard)
      BY DEF SwitchInv, ChargeWay
    <3>2. e = EngineOf(InCharge) /\ InCharge \in Fairing
      BY <3>1, InChargeIsFirst DEF FairingWay
    <3> QED BY <3>2 DEF Fairing, EngineOf, BuildStage, GuardEngine, RateLimitStage
  <2>5. Cardinality(managed) <= 1
    BY AtMostOne DEF AInv, EngineWay
  <2>6. windows \in [Stores -> 0..(Limit + 1)] /\ counted \in Nat
    BY DEF SwitchInv, WindowWay
  <2> QED BY <2>1, <2>2, <2>3, <2>4, <2>5, <2>6 DEF ApplicationTypeOK
<1>2. CloudWay /\ PayloadWay => CloudTypeOK
  <2> SUFFICES ASSUME CloudWay, PayloadWay PROVE CloudTypeOK
    OBVIOUS
  <2>1. \A i \in Rows : table[i] \in Version /\ newest[i] \in Version
    BY CloudAssumption DEF CloudWay, Version
  <2>2. rows \in Seq(Version) /\ Len(rows) <= Len(Providers)
    <3>1. rows \in Seq(Nat) /\ Len(rows) \in Nat
      BY DEF PayloadWay
    <3>2. ASSUME NEW i \in 1..Len(rows) PROVE rows[i] \in Version
      <4>1. rows # <<>> /\ i \in Rows /\ rows[i] \in Nat
        BY <3>1, RowsType DEF PayloadWay
      <4>2. rows[i] <= scheduled
        BY <4>1 DEF PayloadWay
      <4> QED BY <4>1, <4>2, CloudAssumption DEF CloudWay, Version
    <3>3. Len(rows) <= Len(Providers)
      BY RowsType DEF PayloadWay
    <3> QED BY <3>1, <3>2, <3>3
  <2>3. report \in Seq(Version) /\ Len(report) <= Len(Providers)
    <3>1. report \in Seq(Nat) /\ Len(report) \in Nat
      BY DEF PayloadWay
    <3>2. ASSUME NEW i \in 1..Len(report) PROVE report[i] \in Version
      <4>1. report # <<>> /\ i \in Rows /\ report[i] \in Nat
        BY <3>1, RowsType DEF PayloadWay
      <4>2. report[i] <= scheduled
        BY <4>1 DEF PayloadWay
      <4> QED BY <4>1, <4>2, CloudAssumption DEF CloudWay, Version
    <3>3. Len(report) <= Len(Providers)
      BY RowsType DEF PayloadWay
    <3> QED BY <3>1, <3>2, <3>3
  <2>4. jobs \subseteq [number : Version, left : SUBSET Rows]
    BY DEF CloudWay
  <2>5. table \in [Rows -> Version] /\ newest \in [Rows -> Version] /\ scheduled \in Version
    BY <2>1 DEF CloudWay
  <2> QED BY <2>2, <2>3, <2>4, <2>5 DEF CloudTypeOK
<1>3. CloudWay /\ PayloadWay /\ [Next]_allVars => CloudWay' /\ PayloadWay'
  BY NextCloudWay
<1> QED
  BY <1>1, <1>2, <1>3, InitAInv, NextAInv, InitSwitchInv, NextSwitchInv, InitCloudWay, PTL
  DEF Spec, TypeOK

=============================================================================
