------------------------------ MODULE MCShared ------------------------------
(* Components that do not interact share one run: part says which of them  *)
(* a behaviour is about; the others stay in one initial state.              *)
EXTENDS MCReportPipeline, Firewall, DirectWireGuard, Balancer, RealityRelay

VARIABLE part

MCConfs == {[port |-> 1, kind |-> "hop"], [port |-> 2, kind |-> "landing"],
            [port |-> 2, kind |-> "guarded"], [port |-> 1, kind |-> "manual"]}

MCWgPeer(k, a) == [key |-> k, address |-> a]
MCWgUserSets == {NoUsers, <<MCWgPeer("k1", "a1")>>,
                 <<MCWgPeer("k1", "a2"), MCWgPeer("k2", "a1")>>}

MCTarget(i, a, p, o) == [id |-> i, address |-> a, priority |-> p, online |-> o]
MCTargetLists ==
    {<<MCTarget(1, "a", 1, TRUE), MCTarget(2, "b", 1, TRUE), MCTarget(3, "d", 1, FALSE)>>,
     <<MCTarget(1, "e", 1, TRUE), MCTarget(2, "b", 2, TRUE)>>,
     <<MCTarget(1, "a", 1, TRUE), MCTarget(1, "b", 2, TRUE)>>}

MCRoute(n, s, t) == [name |-> n, key |-> "k", sid |-> s, target |-> t]
MCRelay(l, rs, fb) ==
    [listen |-> l, names |-> {"w"}, keys |-> {"k"}, routes |-> rs, fallback |-> fb]
MCFirstRelay == MCRelay("l1", {MCRoute("a", "s1", "x"), MCRoute("b", "s2", "y")}, NoTarget)
MCRelayConfigs ==
    {MCFirstRelay, MCRelay("l1", {MCRoute("a", "s1", "y")}, "z"),
     MCRelay("l1", {MCRoute("a", "s1", "x"), MCRoute("b", "s1", "y")}, NoTarget),
     MCRelay("l2", {MCRoute("a", "s1", "x")}, NoTarget)}
MCFlight(n, s, timely) == [name |-> n, key |-> "k", sid |-> s, timely |-> timely]
MCFlights == {MCFlight("w", "s1", TRUE), MCFlight("w", "s2", TRUE),
              MCFlight("w", "s1", FALSE), MCFlight("v", "s1", TRUE)}

SharedInit ==
    /\ part \in {"reports", "firewall", "wireguard", "balancer", "relay"}
    /\ PipelineInit /\ FirewallInit /\ BalancerInit /\ RelayInit
    /\ WgInit /\ (part # "wireguard" => wgGated)

\* The parts that p leaves alone.
Others(p) ==
    /\ IF p = "reports" THEN TRUE ELSE UNCHANGED allVars
    /\ IF p = "firewall" THEN TRUE ELSE UNCHANGED firewallVars
    /\ IF p = "wireguard" THEN TRUE ELSE UNCHANGED wgVars
    /\ IF p = "balancer" THEN TRUE ELSE UNCHANGED balancerVars
    /\ IF p = "relay" THEN TRUE ELSE UNCHANGED relayVars

SharedNext ==
    /\ UNCHANGED part
    /\ \/ part = "reports" /\ Others("reports") /\ PipelineNext
       \/ part = "firewall" /\ Others("firewall") /\ FirewallNext
       \/ part = "wireguard" /\ Others("wireguard") /\ WgNext
       \/ part = "balancer" /\ Others("balancer") /\ BalancerNext
       \/ part = "relay" /\ Others("relay") /\ RelayNext

SharedSpec ==
    SharedInit /\ [][SharedNext]_<<part, allVars, firewallVars, wgVars, balancerVars,
                                   relayVars>>
=============================================================================
