---------------------------- MODULE CloudStatus -----------------------------
(***************************************************************************)
(* The cloud-range table: the refreshes refresh_cloud_ip_ranges schedules, *)
(* each a background job that replaces one provider's row after another,   *)
(* and the status route, which reads the rows one after another while they *)
(* are being replaced.                                                     *)
(*                                                                         *)
(* A row is the number of the refresh whose ranges it holds, and the       *)
(* provider is ready and stamped; 0 when it holds none, before the first   *)
(* refresh or after one that failed.                                       *)
(***************************************************************************)
EXTENDS Naturals, Sequences

CONSTANTS
    Providers,     \* the providers, in the order the payload lists them
    MaxRefreshes   \* bound: refreshes scheduled

ASSUME CloudAssumption ==
    /\ Providers \in Seq(STRING) \ {<<>>}
    /\ \A i, j \in DOMAIN Providers : Providers[i] = Providers[j] => i = j
    /\ MaxRefreshes \in Nat

VARIABLES
    table,      \* row of each provider
    jobs,       \* the refreshes in flight: number and rows still to fetch
    scheduled,  \* refreshes scheduled so far
    rows,       \* rows the payload being composed has read
    report,     \* rows of the last payload answered, empty before the first
    \* History, read by properties only:
    newest      \* newest row of each provider any payload showed

cloudVars == <<table, jobs, scheduled, rows, report, newest>>

Rows == DOMAIN Providers
Version == 0..MaxRefreshes

CloudTypeOK ==
    /\ table \in [Rows -> Version]
    /\ jobs \subseteq [number : Version, left : SUBSET Rows]
    /\ scheduled \in Version
    /\ \A payload \in {rows, report} :
          payload \in Seq(Version) /\ Len(payload) <= Len(Providers)
    /\ newest \in [Rows -> Version]

CloudInit ==
    /\ table = [i \in Rows |-> 0]
    /\ jobs = {}
    /\ scheduled = 0
    /\ rows = <<>>
    /\ report = <<>>
    /\ newest = [i \in Rows |-> 0]

\* Mutant: a second refresh may start while one is in flight.
StartsAlways(installed) == installed

\* What refresh_cloud_ip_ranges answers: it started a refresh.  Without a
\* scheduler there is none; with one, it refuses while another is in flight.
Starts(installed) == installed /\ jobs = {}

RefreshCloudIpRanges(installed) ==
    /\ scheduled < MaxRefreshes
    /\ Starts(installed)
    /\ scheduled' = scheduled + 1
    /\ jobs' = jobs \cup {[number |-> scheduled + 1, left |-> Rows]}
    /\ UNCHANGED <<table, rows, report, newest>>

\* A job is done with a row: the ranges it fetched replace the row, or the
\* fetch failed and the provider is dropped.  The last row ends the job.
FetchRow(job, i) ==
    /\ i \in job.left
    /\ \E fetched \in {job.number, 0} : table' = [table EXCEPT ![i] = fetched]
    /\ LET rest == [job EXCEPT !.left = @ \ {i}]
       IN jobs' = (jobs \ {job}) \cup (IF rest.left = {} THEN {} ELSE {rest})
    /\ UNCHANGED <<scheduled, rows, report, newest>>

\* cloud_provider_status reads the next provider's row; with the last one the
\* payload is answered.
ReadRow ==
    /\ LET read == Append(rows, table[Len(rows) + 1])
       IN IF Len(read) = Len(Providers)
          THEN /\ rows' = <<>>
               /\ report' = read
               /\ newest' = [i \in Rows |-> IF read[i] > newest[i] THEN read[i] ELSE newest[i]]
          ELSE rows' = read /\ UNCHANGED <<report, newest>>
    /\ UNCHANGED <<table, jobs, scheduled>>

CloudBackground ==
    \/ \E job \in jobs, i \in Rows : FetchRow(job, i)
    \/ ReadRow

=============================================================================
