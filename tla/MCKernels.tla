----------------------------- MODULE MCKernels ------------------------------
(* Components that do not interact share one run: part says which of them  *)
(* a behaviour is about; the others stay in one initial state.              *)
EXTENDS SingBoxTraffic, XrayTraffic, SingBoxAdmission, XrayAdmission, SingBoxKernel,
        XrayKernel, RoutePlan, RelayLink, Certificates, RemoteUpgrade

VARIABLE part

MCSbSnapshots == {{"s2"}}
MCXSnapshots == {{"s2"}}

\* What is admitted: a gated relay entry with one connection per user, an
\* entry whose panel counts, and an ordinary node.
MCAdmissions == {<<TRUE, TRUE, 1>>, <<FALSE, TRUE, 2>>, <<FALSE, FALSE, 1>>}

MCGrants == [u \in Routers |-> IF u = 1 THEN AllLines ELSE {2}]
MCRules ==
    {NoRoute} \cup [match : {{"site"}, {"cidr", "else"}, {"private"}}, out : {"direct"},
                    disabled : {FALSE}]
    \cup [match : {{"site"}}, out : {"out", "gone"}, disabled : BOOLEAN]
MCRaw == {NoRoute, [match |-> {"private"}, out |-> "direct"], [match |-> {"site"}, out |-> "block"]}
MCFiles == {NoRoute, [match |-> {"cidr"}, out |-> "direct"]}
MCPanel == {NoRoute} \cup [match : {{}, {"*."}, {"site", "cidr"}, {"*.", "cidr"}},
                          proto : {{}, {"bt"}, {"bad"}}, action : {"proxy"}, value : {"out"}]
MCChild == {NoRoute, [tag |-> "line", route |-> 1]} \cup [tag : {"line", "out"}, route : {2}]
\* A panel with rules and a landing, one whose outbounds include its own
\* direct, and one with everything a node adds itself.
MCPlainNodes ==
    [kernel : {"singbox", "xray"}, child : MCChild, rule : MCRules, raw : {NoRoute},
     file : {NoRoute}, panel : MCPanel, policy : {"ready"}, guard : {FALSE},
     custom : {<<"out">>}, local : {<<>>}]
MCOwnDirect ==
    [kernel : {"singbox", "xray"}, child : {NoRoute, [tag |-> "line", route |-> 2]},
     rule : {r \in MCRules : r = NoRoute \/ r.out = "gone"}, raw : {NoRoute},
     file : {NoRoute}, panel : MCPanel, policy : {"off"}, guard : BOOLEAN,
     custom : {<<"out", "direct">>, <<"direct", "out">>, <<"out", "out">>, <<"block">>},
     local : {<<>>, <<"direct">>}]
MCFullNodes ==
    [kernel : {"singbox", "xray"}, child : {[tag |-> "line", route |-> 2]},
     rule : {NoRoute, [match |-> {"cidr"}, out |-> "block", disabled |-> FALSE]}, raw : MCRaw,
     file : MCFiles,
     panel : {NoRoute} \cup [match : {{}}, proto : {{"bt"}}, action : {"dns"}, value : {"out"}]
             \cup [match : {{}}, proto : {{"bt"}}, action : {"proxy"}, value : {"gone"}],
     policy : {"off", "ready", "unready"}, guard : BOOLEAN, custom : {<<>>, <<"out">>},
     local : {<<"out">>}]
MCNodeSpecs == MCPlainNodes \cup MCOwnDirect \cup MCFullNodes
MCOneSpec == [kernel |-> "xray", child |-> NoRoute, rule |-> NoRoute, raw |-> NoRoute,
              file |-> NoRoute, panel |-> NoRoute, policy |-> "ready", guard |-> FALSE,
              custom |-> <<"out">>, local |-> <<>>]

MCVersions == {<<1, 0, 0, 1>>, <<1, 0, 0, 0>>}

MCCert(m, d, g) == [mode |-> m, domain |-> d, given |-> g]
MCFirstConfig == MCCert("self", "d1", "-")
MCCertConfigs == {MCFirstConfig, MCCert("none", "d1", "-"), MCCert("http", "d1", "-"),
                  MCCert("dns", "d1", "bad"), MCCert("dns", "d1", "good"),
                  MCCert("content", "d1", "absent"), MCCert("file", "d1", "good"),
                  MCCert("http", "d2", "-"), MCCert("self", "d2", "-")}

\* The certificates in two parts: all configurations of a domain with one
\* request of the panel that stays, and both requests while domains change.
OneRequest ==
    CertificatesNext /\ config'.domain = "d1" /\ request'.asked \in {request.asked, 1}
MCDomainConfigs ==
    {MCFirstConfig, MCCert("self", "d2", "-")} \cup {MCCert("http", d, "-") : d \in {"d1", "d2"}}
BothRequests == CertificatesNext /\ config' \in MCDomainConfigs

\* Every combination of transport and security of the usual landing, and the
\* protocols of a landing and of an ordinary inbound.
MCLines ==
    [protocol : {"vless"}, network : {"", "raw", "ws", "xhttp", "kcp", "hysteria", "h2"},
     tls : 0..2, flow : {"", "vision"}, encryption : {"", "none", "key"}, header : BOOLEAN,
     auth : {TRUE}, sound : {TRUE}]
    \cup [protocol : {"shadowsocks", "wireguard", "vless", "odd"}, network : {"hysteria"},
          tls : {1}, flow : {"odd", ""}, encryption : {"none"}, header : {FALSE},
          auth : BOOLEAN, sound : BOOLEAN]
MCNodes ==
    [protocol : Protocols("singbox"), version : {1, 2}, tls : {0, 1}, reality : {FALSE}]
    \cup [protocol : {"vless", "trojan"}, version : {2}, tls : {2}, reality : BOOLEAN]
MCOneLine == [protocol |-> "vless", network |-> "", tls |-> 1, flow |-> "", encryption |-> "none",
              header |-> FALSE, auth |-> TRUE, sound |-> TRUE]
MCOneNode == [protocol |-> "socks", version |-> 2, tls |-> 0, reality |-> FALSE]
Engines == [Ends -> {"singbox", "xray"}]
Certified(ends) == {c \in [Ends -> BOOLEAN] : \A e \in ends : c[e]}
AnyLine ==
    /\ line \in MCLines /\ ordinary = MCOneNode
    /\ engine \in {e \in Engines : e["ordinary"] = "xray"}
    /\ certified \in Certified({"ordinary", "entry"})
AnyNode ==
    /\ line = MCOneLine /\ ordinary \in MCNodes
    /\ engine \in {e \in Engines : e["entry"] = e["landing"]}
    /\ certified \in Certified({"entry", "landing"})
OneLink ==
    /\ line = MCOneLine /\ ordinary = MCOneNode
    /\ engine = [e \in Ends |-> "xray"] /\ certified = [e \in Ends |-> TRUE]

KernelsInit ==
    /\ part \in {"sbtraffic", "xtraffic", "sbadmission", "xadmission", "sbkernel", "xkernel",
                 "plan", "link", "certificates", "requests", "upgrade"}
    /\ SbTrafficInit /\ XTrafficInit
    /\ SbAdmissionInit /\ <<gated, relayEntry, connLimit>> \in MCAdmissions
    /\ part # "sbadmission" => gated
    /\ XAdmissionInit /\ <<xGated, xRelay, xLimit>> \in MCAdmissions \ {<<FALSE, TRUE, 2>>}
    /\ part # "xadmission" => xGated
    /\ SbKernelInit /\ (part # "sbkernel" => kRelay)
    /\ XKernelInit /\ (part # "xkernel" => hasManager)
    /\ IF part = "plan" THEN node \in MCNodeSpecs ELSE node = MCOneSpec
    /\ PlanInit
    /\ IF part = "link" THEN AnyLine \/ AnyNode ELSE OneLink
    /\ LinkInit
    /\ CertificatesInit /\ (part # "certificates" => twoFiles = "absent")
    /\ UpgradeInit /\ service = <<1, 0, 0, 1>> /\ latest = <<1, 0, 0, 0>>
    /\ part # "upgrade" => unified

\* The parts that p leaves alone.
Others(p) ==
    /\ IF p = "sbtraffic" THEN TRUE ELSE UNCHANGED sbVars
    /\ IF p = "xtraffic" THEN TRUE ELSE UNCHANGED xTrafficVars
    /\ IF p = "sbadmission" THEN TRUE ELSE UNCHANGED sbAdmissionVars
    /\ IF p = "xadmission" THEN TRUE ELSE UNCHANGED xAdmissionVars
    /\ IF p = "sbkernel" THEN TRUE ELSE UNCHANGED sbKernelVars
    /\ IF p = "xkernel" THEN TRUE ELSE UNCHANGED xKernelVars
    /\ IF p = "plan" THEN TRUE ELSE UNCHANGED planVars
    /\ IF p = "link" THEN TRUE ELSE UNCHANGED linkVars
    /\ IF p \in {"certificates", "requests"} THEN TRUE ELSE UNCHANGED certificateVars
    /\ IF p = "upgrade" THEN TRUE ELSE UNCHANGED upgradeVars

KernelsNext ==
    /\ UNCHANGED part
    /\ \/ part = "sbtraffic" /\ Others("sbtraffic") /\ SbTrafficNext
       \/ part = "xtraffic" /\ Others("xtraffic") /\ XTrafficNext
       \/ part = "sbadmission" /\ Others("sbadmission") /\ SbAdmissionNext
       \/ part = "xadmission" /\ Others("xadmission") /\ XAdmissionNext
       \/ part = "sbkernel" /\ Others("sbkernel") /\ SbKernelNext
       \/ part = "xkernel" /\ Others("xkernel") /\ XKernelNext
       \/ part = "plan" /\ Others("plan") /\ PlanNext
       \/ part = "link" /\ Others("link") /\ LinkNext
       \/ part = "certificates" /\ Others("certificates") /\ OneRequest
       \/ part = "requests" /\ Others("requests") /\ BothRequests
       \/ part = "upgrade" /\ Others("upgrade") /\ UpgradeNext

KernelsSpec ==
    KernelsInit /\ [][KernelsNext]_<<part, sbVars, xTrafficVars, sbAdmissionVars,
                                     xAdmissionVars, sbKernelVars, xKernelVars, planVars, linkVars, certificateVars, upgradeVars>>
=============================================================================
