----------------------------- MODULE RelayLink -----------------------------
(***************************************************************************)
(* The two ends of a relay line and an ordinary node, each given a         *)
(* specification by the panel, which it checks (validateNodeRuntime) and   *)
(* turns into an outbound or an inbound of its own kernel: what the ends   *)
(* speak to each other, what protects an inbound, and by which name the    *)
(* kernel later knows who a connection belongs to.                         *)
(*                                                                         *)
(* The panel describes a line to both ends from the same record.  Whether  *)
(* a key, a password, a port or an address is well formed is one field of  *)
(* it, "sound".                                                            *)
(***************************************************************************)
EXTENDS Naturals, FiniteSets

CONSTANTS
    Lines,        \* the descriptions of a line: see LineFields
    Nodes,        \* the descriptions of an ordinary node: see NodeFields
    LinkUsers,
    NotBuilt      \* there is no outbound or inbound

VARIABLES
    line,         \* what the panel says of the line
    ordinary,     \* and of the ordinary node
    engine,       \* engine[e]: the kernel of e
    certified,    \* certified[e]: e has a certificate
    stage,        \* stage[e]: "received", "refused" or "up"
    built         \* built[e]: the outbound or inbound

linkVars == <<line, ordinary, engine, certified, stage, built>>

Ends == {"entry", "landing", "ordinary"}
LineFields == {"protocol", "network", "tls", "flow", "encryption", "header", "auth", "sound"}
NodeFields == {"protocol", "version", "tls", "reality"}

ASSUME LinkAssumption ==
    /\ \A l \in Lines : DOMAIN l = LineFields
    /\ \A n \in Nodes : DOMAIN n = NodeFields

\* NormalizeRelayVLESSNetwork; an unknown name stays what it is.
Canonical(network) ==
    CASE network \in {"", "raw"} -> "tcp"
      [] network = "websocket" -> "ws"
      [] network = "splithttp" -> "xhttp"
      [] network = "mkcp" -> "kcp"
      [] OTHER -> network
Known == {"tcp", "ws", "grpc", "xhttp", "httpupgrade", "kcp", "hysteria"}

-----------------------------------------------------------------------------
(* Validation                                                               *)

\* validateSingBoxRelayVLESS.
SingBoxRelayVLESS(l) ==
    /\ Canonical(l.network) \in {"tcp", "ws", "grpc", "httpupgrade"}
    /\ l.encryption \in {"", "none"}
    /\ l.flow = "vision" => Canonical(l.network) = "tcp" /\ l.tls # 0
    /\ Canonical(l.network) = "tcp" => ~l.header

\* Mutant: what sing-box cannot do is not refused.
VLESSUnchecked(e, l) ==
    /\ Canonical(l.network) \in Known
    /\ l.flow \in {"", "vision"} /\ l.sound

\* validateRelayVLESS; validateXHTTPNode.  The landing takes an empty
\* encryption for none, at the entry it must be written.
RelayVLESSValid(e, l) ==
    LET network == Canonical(l.network) IN
    /\ network \in Known /\ l.tls \in 0..2
    /\ l.tls = 2 => network \in {"tcp", "xhttp", "grpc"}
    /\ network = "hysteria" => l.tls = 1 /\ l.auth
    /\ l.flow \in {"", "vision"}
    /\ e = "entry" => l.encryption # ""
    /\ network = "xhttp" /\ l.flow = "vision" => l.encryption = "key"
    /\ network = "kcp" => ~l.header
    /\ l.sound
    /\ engine[e] = "singbox" => SingBoxRelayVLESS(l)

\* validateRelayWireGuard: keys, peers and networks.
WireGuardValid(l) == l.sound

\* validateRelayEntry (the child) and validateRelayLanding.
LineValid(e) ==
    CASE line.protocol = "vless" -> RelayVLESSValid(e, line)
      [] line.protocol = "wireguard" -> WireGuardValid(line)
      [] OTHER -> line.protocol = "shadowsocks" /\ line.sound

\* validateNodeRuntime: Protocols, validateTLSRequirements (with
\* hasUsableTLSConfig), validateRealityRequirements.
Protocols(kernel) ==
    {"vmess", "vless", "trojan", "shadowsocks", "socks", "http", "hysteria"} \cup
    (IF kernel = "singbox" THEN {"tuic", "naive", "anytls", "mieru"} ELSE {})
NeedsCert(n) ==
    \/ n.protocol \in {"hysteria", "tuic", "anytls"}
    \/ n.protocol = "trojan" /\ n.tls # 2
HasUsableTLSConfig == certified["ordinary"]
RealityValid(n) == n.tls = 2 => n.reality
NodeValid ==
    /\ ordinary.protocol \in Protocols(engine["ordinary"])
    /\ NeedsCert(ordinary) => HasUsableTLSConfig
    /\ RealityValid(ordinary)

-----------------------------------------------------------------------------
(* Inbounds                                                                 *)

\* buildTLSConfig of sing-box: without a certificate no TLS at all.
TLSIf(cond) == IF cond THEN "tls" ELSE "open"
BuildTLSConfig(cert) == TLSIf(cert)

\* buildRealityConfig, buildRealitySettings: in place of TLS, without one.
RealityOr(tls, otherwise) == IF tls = 2 THEN "reality" ELSE otherwise

\* buildVMess, buildVLESS, buildTrojan.
SingBoxProxySecurity(protocol, tls, cert) ==
    CASE protocol = "vmess" -> TLSIf(tls = 1 /\ BuildTLSConfig(cert) = "tls")
      [] protocol = "vless" -> RealityOr(tls, TLSIf(tls = 1 /\ BuildTLSConfig(cert) = "tls"))
      [] protocol = "trojan" -> RealityOr(tls, BuildTLSConfig(cert))

\* buildHysteria, buildTUIC, buildAnyTLS, buildNaive, buildSocks, buildHTTP.
SingBoxOtherSecurity(protocol, tls, cert) ==
    CASE protocol \in {"http", "naive"} -> TLSIf(tls = 1 /\ BuildTLSConfig(cert) = "tls")
      [] protocol \in {"hysteria", "tuic", "anytls"} -> BuildTLSConfig(cert)
      [] OTHER -> "open"
SingBoxSecurity(protocol, tls, cert) ==
    IF protocol \in {"vmess", "vless", "trojan"} THEN SingBoxProxySecurity(protocol, tls, cert)
    ELSE SingBoxOtherSecurity(protocol, tls, cert)

\* applyStreamSettings; buildTrojan asks for TLS when there is neither.
ApplyStreamSettings(tls) == RealityOr(tls, TLSIf(tls = 1))
XrayTrojanTLS(tls) == IF tls \in {1, 2} THEN tls ELSE 1

\* buildShadowsocks, buildSocks, buildHTTP, buildHysteria.
XrayOtherSecurity(protocol, tls, cert) ==
    CASE protocol = "http" -> TLSIf(tls = 1)
      [] protocol = "hysteria" -> TLSIf(cert)
      [] OTHER -> "open"

\* buildVMess, buildVLESS, buildTrojan.
XraySecurity(protocol, tls, cert) ==
    CASE protocol \in {"vmess", "vless"} -> ApplyStreamSettings(tls)
      [] protocol = "trojan" -> ApplyStreamSettings(XrayTrojanTLS(tls))
      [] OTHER -> XrayOtherSecurity(protocol, tls, cert)

Security(kernel, protocol, tls, cert) ==
    IF kernel = "singbox" THEN SingBoxSecurity(protocol, tls, cert)
    ELSE XraySecurity(protocol, tls, cert)

\* The name under which a kernel reports a user it has let in: the UUID, the
\* number in naive, the mail address in xray.
UserName(kernel, protocol, u) ==
    IF kernel = "xray" THEN <<"email", u>>
    ELSE IF protocol = "naive" THEN <<"number", u>> ELSE <<"uuid", u>>

\* resolveUser by uuidMap, emailToUID: 0 when the name is not there.
ResolveUser(kernel, name) ==
    IF name \in (IF kernel = "xray" THEN {"email"} ELSE {"uuid"}) \X LinkUsers
    THEN name[2] ELSE 0

\* buildInbound with buildVMess, ..., buildHTTP: nothing for a protocol it
\* does not know; xray has no hysteria but version 2.
BuildInbound ==
    LET k == engine["ordinary"]  p == ordinary.protocol IN
    IF k = "xray" /\ p = "hysteria" /\ ordinary.version # 2 THEN NotBuilt
    ELSE [security |-> Security(k, p, ordinary.tls, certified["ordinary"]),
          users |-> {UserName(k, p, u) : u \in LinkUsers}]

-----------------------------------------------------------------------------
(* The ends of a line                                                       *)

\* applyTransport of sing-box, buildTransportStreamSettings of xray: a kernel
\* that does not know a field leaves it out.
SingBoxTransport(l) == [network |-> Canonical(l.network), encrypted |-> FALSE, header |-> FALSE]
XrayTransport(l) ==
    [network |-> Canonical(l.network), encrypted |-> l.encryption = "key",
     header |-> Canonical(l.network) = "tcp" /\ l.header]

\* What an end speaks.
Speaks(e, security) ==
    IF line.protocol # "vless" THEN [protocol |-> line.protocol]
    ELSE [protocol |-> "vless", security |-> security, flow |-> line.flow,
          transport |-> IF engine[e] = "xray" THEN XrayTransport(line) ELSE SingBoxTransport(line)]

\* buildRelayOutbounds, buildRelayVLESSClientStream, buildTransportStreamSettings.
BuildRelayOutbound ==
    Speaks("entry", IF line.tls = 2 THEN "reality" ELSE TLSIf(line.tls = 1))

\* buildRelayLandingInbound: one identity that belongs to no user.
Transit == <<"transit", 0>>
BuildLandingInbound ==
    [speaks |-> Speaks("landing",
                    Security(engine["landing"], "vless", line.tls, certified["landing"])),
     users |-> {Transit}]

-----------------------------------------------------------------------------
LinkInit ==
    /\ line \in Lines /\ ordinary \in Nodes
    /\ engine \in [Ends -> {"singbox", "xray"}]
    /\ certified \in [Ends -> BOOLEAN]
    /\ stage = [e \in Ends |-> "received"]
    /\ built = [e \in Ends |-> NotBuilt]

EndValid(e) == IF e = "ordinary" THEN NodeValid ELSE LineValid(e)
Result(e) ==
    CASE e = "entry" -> BuildRelayOutbound
      [] e = "landing" -> BuildLandingInbound
      [] e = "ordinary" -> BuildInbound

RefuseEnd(e) ==
    /\ stage[e] = "received" /\ ~EndValid(e)
    /\ stage' = [stage EXCEPT ![e] = "refused"]
    /\ UNCHANGED <<line, ordinary, engine, certified, built>>

BuildEnd(e) ==
    /\ stage[e] = "received" /\ EndValid(e)
    /\ stage' = [stage EXCEPT ![e] = "up"]
    /\ built' = [built EXCEPT ![e] = Result(e)]
    /\ UNCHANGED <<line, ordinary, engine, certified>>

LinkNext == \E e \in Ends : RefuseEnd(e) \/ BuildEnd(e)

LinkSpec == LinkInit /\ [][LinkNext]_linkVars

-----------------------------------------------------------------------------
\* Once both ends of a line have accepted it they speak the same, whichever
\* kernels they run, and in the clear only if the panel asked for that; an
\* inbound that wants TLS has it; and everybody an inbound lets in is a user
\* the counters know, nobody's on a landing.  A node that asks for TLS has
\* its certificate; naive is left out: its names are not the tracker's.
LinkAgrees ==
    /\ stage["entry"] = "up" /\ stage["landing"] = "up" /\ (line.tls = 1 => certified["landing"]) =>
          built["landing"].speaks = built["entry"]
    /\ stage["entry"] = "up" /\ line.protocol = "vless" /\ line.tls # 0 =>
          built["entry"].security # "open"
    /\ stage["landing"] = "up" =>
          \A name \in built["landing"].users : ResolveUser(engine["landing"], name) = 0
    /\ stage["ordinary"] = "up" /\ built["ordinary"] # NotBuilt =>
          /\ ordinary.tls = 1 /\ certified["ordinary"]
                /\ ordinary.protocol \notin {"shadowsocks", "socks", "mieru"} =>
                built["ordinary"].security = "tls"
          /\ ordinary.protocol \in {"trojan", "hysteria", "tuic", "anytls"} =>
                built["ordinary"].security # "open"
          /\ ordinary.protocol # "naive" =>
                {ResolveUser(engine["ordinary"], name) : name \in built["ordinary"].users}
                    = LinkUsers

-----------------------------------------------------------------------------
(* Types, and why it holds.                                                 *)

\* Type invariant.
LinkTypeOK ==
    /\ line \in Lines /\ ordinary \in Nodes
    /\ engine \in [Ends -> {"singbox", "xray"}] /\ certified \in [Ends -> BOOLEAN]
    /\ stage \in [Ends -> {"received", "refused", "up"}]
    /\ DOMAIN built = Ends

\* What is up was accepted, and is what its end builds.
BuiltFits == \A e \in Ends : stage[e] = "up" => EndValid(e) /\ built[e] = Result(e)
=============================================================================
