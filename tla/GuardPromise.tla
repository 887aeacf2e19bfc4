---------------------------- MODULE GuardPromise ----------------------------
(***************************************************************************)
(* What the guard promises of the requests it takes, without saying how it *)
(* screens them: a request is admitted or refused, once and for good; it   *)
(* is charged at most once; and what is done for one request neither bans  *)
(* a bystander nor lifts a ban.                                            *)
(***************************************************************************)
EXTENDS Naturals

CONSTANTS
    Requests,     \* the requests
    Addresses,    \* addresses that can be banned
    Nobody,       \* a client that has no address, and is none
    MayBan        \* an operator bans addresses by hand

VARIABLES
    phase,     \* how far each request is
    client,    \* its client's address
    charge,    \* units of rate budget it took
    banned     \* addresses under a live ban

vars == <<phase, client, charge, banned>>

Phases == {"waiting", "screening", "admitted", "served", "refused", "answered"}

Init ==
    /\ phase = [r \in Requests |-> "waiting"]
    /\ client = [r \in Requests |-> Nobody]
    /\ charge = [r \in Requests |-> 0]
    /\ banned = {}

Move(r, from, to) ==
    /\ phase[r] = from
    /\ phase' = [phase EXCEPT ![r] = to]
    /\ UNCHANGED client

\* A step for a request bans its own client or nobody, and lifts nothing.
OwnBan(r) == banned' \in {banned, banned \cup ({client[r]} \cap Addresses)}

Take(r) ==
    /\ phase[r] = "waiting"
    /\ phase' = [phase EXCEPT ![r] = "screening"]
    /\ \E c \in Addresses \cup {Nobody} : client' = [client EXCEPT ![r] = c]
    /\ UNCHANGED <<charge, banned>>

\* Screening goes on; this is where a request is charged, if at all.
Screen(r) ==
    /\ phase[r] = "screening"
    /\ OwnBan(r)
    /\ charge' \in {charge, [charge EXCEPT ![r] = 1]}
    /\ UNCHANGED <<phase, client>>

\* The request goes to its handler; nobody is banned by being admitted.
Admit(r) == Move(r, "screening", "admitted") /\ UNCHANGED <<charge, banned>>

\* The request goes to a catcher, or no route serves it.
Refuse(r) == Move(r, "screening", "refused") /\ OwnBan(r) /\ UNCHANGED charge

Serve(r) == Move(r, "admitted", "served") /\ UNCHANGED <<charge, banned>>

\* The answer leaves; a rule on it may still ban the client.
Answer(r) ==
    /\ \E from \in {"served", "refused"} : Move(r, from, "answered")
    /\ OwnBan(r)
    /\ UNCHANGED charge

\* Time or an operator ends bans; an operator begins one.
Pardon == banned' \in SUBSET banned /\ UNCHANGED <<phase, client, charge>>

Ban(a) ==
    /\ MayBan
    /\ banned' = banned \cup {a}
    /\ UNCHANGED <<phase, client, charge>>

Settle(r) == Admit(r) \/ Refuse(r)

Next ==
    \/ \E r \in Requests :
          Take(r) \/ Screen(r) \/ Settle(r) \/ Serve(r) \/ Answer(r)
    \/ Pardon
    \/ \E a \in Addresses : Ban(a)

Safe == Init /\ [][Next]_vars

=============================================================================
