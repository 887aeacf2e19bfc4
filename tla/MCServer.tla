------------------------------ MODULE MCServer ------------------------------
(***************************************************************************)
(* Instances of the server with both guards for TLC.                       *)
(***************************************************************************)
EXTENDS MCPipeline, GuardedServer

Friendly ==
    [ip |-> "plain", country |-> "allowed", scan |-> "clean", captures |-> TRUE,
     names |-> TRUE]

PeerList ==
    [friendly |-> Friendly,
     attacker |-> [Friendly EXCEPT !.scan = "threat"],
     whitelisted |-> [Friendly EXCEPT !.ip = "whitelisted", !.country = "blocked"],
     nameless |-> [Friendly EXCEPT !.ip = "exempt", !.names = FALSE],
     denied |-> [Friendly EXCEPT !.ip = "denied"],
     foreign |-> [Friendly EXCEPT !.ip = "exempt", !.country = "panic", !.captures = FALSE],
     garbled |-> [Friendly EXCEPT !.scan = "panic", !.captures = FALSE],
     unknown |-> [Friendly EXCEPT !.ip = NoIp]]

MCPeers == DOMAIN PeerList
MCPeerShape == [p \in Peers |-> PeerList[p]]

Everything ==
    [managed |-> TRUE, gate |-> TRUE, manager |-> TRUE, limiter |-> TRUE,
     countries |-> TRUE, feed |-> "bans", failSecure |-> FALSE]

MCWsConfigs ==
    {Everything,
     [Everything EXCEPT !.gate = FALSE, !.manager = FALSE, !.limiter = FALSE,
                        !.feed = "counts", !.failSecure = TRUE],
     [Everything EXCEPT !.managed = FALSE]}

SocketSymmetry == Permutations(Sockets)

SocketProfiles == Nicknamed({"clean"})
SocketConfigs == {[Full EXCEPT !.rate = FALSE, !.bus = FALSE]}

=============================================================================
