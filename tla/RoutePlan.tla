----------------------------- MODULE RoutePlan -----------------------------
(***************************************************************************)
(* From the panel's specification of a node to the way a connection        *)
(* leaves it: ValidateNodeSpec, buildConfig with its outbounds and its     *)
(* list of routing rules, for both kernels, and the routing of a request   *)
(* by the first rule that matches.                                         *)
(*                                                                         *)
(* Addresses are the classes the rules tell apart: the networks "private", *)
(* "cidr" (one a rule names) and "other", and the names "site" (one a rule *)
(* names) and "else".  "*." is an entry of a list that names nothing.      *)
(***************************************************************************)
EXTENDS Naturals, Sequences, FiniteSets

CONSTANTS
    Routers,      \* users of the node
    Grants,       \* Grants[u]: the lines of user u, or AllLines
    AllLines,
    NodeSpecs,    \* the specifications the panel may send
    NoRoute       \* no rule, no panel route, no relay

\* Custom and local outbounds come in the order of their lists.
ASSUME PlanAssumption ==
    \A n \in NodeSpecs : n.custom \in Seq(STRING) /\ n.local \in Seq(STRING)

VARIABLES
    node,         \* the NodeSpec with the local file's additions
    phase,        \* what became of it
    outbounds,    \* their tags, in order
    rules         \* the rules, in order

planVars == <<node, phase, outbounds, rules>>

EntryRoute == 1
BlockedRoute == 3
IsRelayEntry == node.child # NoRoute

-----------------------------------------------------------------------------
(* ValidateNodeSpec and ValidateSourcePolicy                                *)

TagsOf(list) == {list[i] : i \in DOMAIN list}
NoRepeats(list) == \A i, j \in DOMAIN list : list[i] = list[j] => i = j

\* buildAvailableOutboundTags: lower case, with the two that are always there.
AvailableTags(n) == {"direct", "block"} \cup TagsOf(n.custom) \cup TagsOf(n.local)

\* validateOutboundTagCollisions, ValidateCustomOutboundsForKernel.
CustomOutboundsValid(n) ==
    /\ NoRepeats(n.custom) /\ NoRepeats(n.local)
    /\ TagsOf(n.custom) \cap TagsOf(n.local) = {}

\* ValidateCustomRouteRules: a disabled rule is not looked at.
CustomRouteValid(n) ==
    n.rule # NoRoute =>
        (~n.rule.disabled => n.rule.match # {} /\ n.rule.out \in AvailableTags(n))

\* validateRelayEntry: the tags and the numbers of the lines.
RelayEntryValid(n) ==
    n.child # NoRoute =>
        /\ n.child.tag \notin AvailableTags(n)
        /\ n.child.route \notin {EntryRoute, BlockedRoute}

\* ValidateSourcePolicy: a policy without networks must not start open.
SourcePolicyValid(n) == n.policy # "unready"

ValidateNodeSpec(n) ==
    /\ CustomOutboundsValid(n) /\ CustomRouteValid(n)
    /\ RelayEntryValid(n) /\ SourcePolicyValid(n)

-----------------------------------------------------------------------------
(* Outbounds                                                                *)

Only(cond, list) == IF cond THEN list ELSE <<>>

\* outboundConfigToSingbox, outboundConfigToXray: the panel's, then those of the
\* local configuration; buildRelayOutbounds, buildRelayWireGuardEndpoints.
CustomOutbounds(n) == n.custom \o n.local
RelayOutbounds(n) == Only(n.child # NoRoute, <<n.child.tag>>)

\* direct and block, unless the node has its own.
Default(n, tag) == Only(tag \notin TagsOf(CustomOutbounds(n)), <<tag>>)

\* Mutant: direct is added like block, behind the others.
DirectAppended(n) == CustomOutbounds(n) \o Default(n, "direct")

\* direct goes before all others, block behind them.
FrontOutbounds(n) == Default(n, "direct") \o CustomOutbounds(n)
BackOutbounds(n) ==
    IF n.kernel = "singbox" THEN Default(n, "block") \o RelayOutbounds(n)
    ELSE RelayOutbounds(n) \o Default(n, "block")
BuildOutbounds(n) == FrontOutbounds(n) \o BackOutbounds(n)

-----------------------------------------------------------------------------
(* Rules                                                                    *)

\* A rule: where the request came in, its source, its identity, its address
\* and its protocol, an empty set meaning any, and what to do.
Anything == [inb |-> {}, src |-> {}, line |-> {}, addr |-> {}, proto |-> {}, out |-> "none"]
Rule(out) == [Anything EXCEPT !.out = out]
Action(name) == <<Rule(name)>>
Networks == {"private", "cidr", "other"}
Blanks == {"*."}

\* One rule for the names and one for the networks of a list.
NamesOf(rule, match) ==
    Only(match \ Networks # {}, <<[rule EXCEPT !.addr = match \ Networks]>>)
NetworksOf(rule, match) ==
    Only(match \cap Networks # {}, <<[rule EXCEPT !.addr = match \cap Networks]>>)
NamesAndNetworks(rule, match) == NamesOf(rule, match) \o NetworksOf(rule, match)

\* compileCustomRouteRule of sing-box and of xray: every kind of matcher is a
\* rule of its own.  The raw routes follow.
SingBoxCompileCustom(r) == NamesAndNetworks(Rule(r.out), r.match)
XrayCompileCustom(r) == NamesAndNetworks(Rule(r.out), r.match)
Enabled(n) == n.rule # NoRoute /\ ~n.rule.disabled
RawRule(n) == <<[Rule(n.raw.out) EXCEPT !.addr = n.raw.match]>>
CustomRules(n) ==
    Only(Enabled(n), IF n.kernel = "singbox" THEN SingBoxCompileCustom(n.rule)
                     ELSE XrayCompileCustom(n.rule))
    \o Only(n.raw # NoRoute, RawRule(n))

\* PanelRouteConditions: one value that is not understood drops the route.
PanelRouteConditions(p) ==
    [ok |-> "bad" \notin p.proto, proto |-> p.proto]

\* compilePanelRouteRule: names and networks in a rule each, the conditions
\* in every rule; a route whose addresses are all unusable is dropped.
CompilePanelTo(p, out) ==
    LET addr == p.match \ Blanks
        c == PanelRouteConditions(p)
        rule == [Rule(out) EXCEPT !.proto = c.proto]
    IN Only(c.ok, NamesAndNetworks(rule, addr) \o Only(p.match = {} /\ c.proto # {}, <<rule>>))

\* The outbound a route names; only sing-box knows the action "dns".
XrayPanelOutbound(p) ==
    CASE p.action = "direct" -> "direct"
      [] p.action = "proxy" /\ p.value # "" -> p.value
      [] OTHER -> "block"
SingBoxPanelOutbound(p) ==
    IF p.action = "dns" THEN (IF p.value # "" THEN p.value ELSE "dns-out")
    ELSE XrayPanelOutbound(p)
PanelOutbound(n) ==
    IF n.kernel = "singbox" THEN SingBoxPanelOutbound(n.panel) ELSE XrayPanelOutbound(n.panel)

SingBoxCompilePanel(n) ==
    Only(n.panel # NoRoute, CompilePanelTo(n.panel, SingBoxPanelOutbound(n.panel)))
XrayCompilePanel(n) ==
    Only(n.panel # NoRoute, CompilePanelTo(n.panel, XrayPanelOutbound(n.panel)))

\* RouteSniffProtocols.
RouteSniffProtocols(n) ==
    n.panel # NoRoute /\ n.panel.proto # {} /\ PanelRouteConditions(n.panel).ok

PrivateRule == <<[Rule("block") EXCEPT !.addr = {"private"}]>>

\* RelayRouteIDs and AllowsRelayRoute; configureRelayUsers, SetRelayAccess.
RelayRouteIDs(n) == {EntryRoute, n.child.route}
AllowsRelayRoute(u, r) == Grants[u] = AllLines \/ r \in Grants[u]
RelayUsers(n) ==
    IF n.child = NoRoute THEN Routers \X {0}
    ELSE {l \in Routers \X RelayRouteIDs(n) : AllowsRelayRoute(l[1], l[2])}

\* buildRelayRoutingRules of sing-box: a rule for the identities of a line,
\* none when nobody may use it; of xray: by the number of the line alone.
LineRule(n, r, tag) ==
    LET served == IF n.kernel = "singbox" THEN {l \in RelayUsers(n) : l[2] = r}
                  ELSE Routers \X {r}
    IN Only(served # {}, <<[Rule(tag) EXCEPT !.line = served]>>)
ChildRules(n) ==
    Only(n.child # NoRoute,
         Only(n.kernel = "xray", LineRule(n, BlockedRoute, "block"))
         \o LineRule(n, n.child.route, n.child.tag))
EntryRules(n) == Only(n.child # NoRoute, LineRule(n, EntryRoute, "direct"))

\* applyRealityGuard.
GuardRules(n) ==
    Only(n.guard /\ n.kernel = "xray",
         <<[Rule("direct") EXCEPT !.inb = {"guard"}, !.addr = {"site"}],
           [Rule("block") EXCEPT !.inb = {"guard"}]>>)

\* applySourcePolicy: before everything, by a way out of its own.
SourceRules(n) ==
    Only(n.policy = "ready", <<[Rule("reject") EXCEPT !.inb = {"node"}, !.src = {"denied"}]>>)

\* LoadCustomConfig, MergePrependList: mergeCustomSingboxRoute and
\* mergeCustomXrayRouting put the rules of the file before the generated ones.
FileRules(n) == Only(n.file # NoRoute, <<[Rule(n.file.out) EXCEPT !.addr = n.file.match]>>)
MergeCustomSingbox(n, generated) == FileRules(n) \o generated
MergeCustomXray(n, generated) == FileRules(n) \o generated

\* buildRoutes: what needs an address is asked once more after the resolve.
AfterResolve(n) ==
    Only(Enabled(n), NetworksOf(Rule(n.rule.out), n.rule.match))
    \o Only(n.raw # NoRoute /\ n.raw.match \cap Networks # {}, RawRule(n))
BuildRoutes(n) ==
    CustomRules(n) \o PrivateRule \o ChildRules(n)
    \o Action("resolve") \o AfterResolve(n) \o PrivateRule
    \o Only(RouteSniffProtocols(n), Action("sniff")) \o SingBoxCompilePanel(n)
    \o EntryRules(n)
SingBoxRules(n) == SourceRules(n) \o MergeCustomSingbox(n, BuildRoutes(n))

\* Mutant: the lines come after the panel's routes.
LinesLast(n) ==
    GuardRules(n) \o CustomRules(n) \o PrivateRule
    \o XrayCompilePanel(n) \o ChildRules(n) \o EntryRules(n)

\* buildRouting.
BuildRouting(n) ==
    GuardRules(n) \o CustomRules(n) \o PrivateRule
    \o ChildRules(n) \o XrayCompilePanel(n) \o EntryRules(n)
XrayRules(n) == SourceRules(n) \o MergeCustomXray(n, BuildRouting(n))

BuildRules(n) == IF n.kernel = "singbox" THEN SingBoxRules(n) ELSE XrayRules(n)

-----------------------------------------------------------------------------
(* Routing a request (the kernels)                                          *)

Requests ==
    [inb : {"node"}, src : {"denied", "fine"}, line : RelayUsers(node),
     name : {"literal", "site", "else"}, net : Networks, proto : {"bt", "plain"}]
GuardRequests ==
    [inb : {"guard"}, src : {"fine"}, line : {<<0, 0>>},
     name : {"literal", "site", "else"}, net : Networks, proto : {"plain"}]

Before(action, i) == \E j \in 1..(i - 1) : rules[j].out = action

\* A name has an address only after a resolve, a protocol after sniffing.
RuleMatches(i, q) ==
    LET r == rules[i]
        resolved == q.name = "literal" \/ Before("resolve", i)
        sniffed == node.kernel = "xray" \/ Before("sniff", i)
    IN /\ r.out \notin {"resolve", "sniff"}
       /\ r.inb # {} => q.inb \in r.inb
       /\ r.src # {} => q.src \in r.src
       /\ r.line # {} => q.line \in r.line
       /\ r.addr # {} => q.name \in r.addr \/ (resolved /\ q.net \in r.addr)
       /\ r.proto # {} => sniffed /\ q.proto \in r.proto

\* What no rule matches: sing-box has final: direct, xray takes the first
\* outbound.
Final == IF node.kernel = "singbox" THEN "direct" ELSE outbounds[1]

RouteOf(q) ==
    IF \E i \in DOMAIN rules : RuleMatches(i, q)
    THEN rules[CHOOSE i \in DOMAIN rules :
                  RuleMatches(i, q) /\ \A j \in 1..(i - 1) : ~RuleMatches(j, q)].out
    ELSE Final

-----------------------------------------------------------------------------
PlanInit ==
    /\ node \in NodeSpecs
    /\ phase = "received" /\ outbounds = <<>> /\ rules = <<>>

Refuse ==
    /\ phase = "received" /\ ~ValidateNodeSpec(node)
    /\ phase' = "refused"
    /\ UNCHANGED <<node, outbounds, rules>>

Build ==
    /\ phase = "received" /\ ValidateNodeSpec(node)
    /\ phase' = "built"
    /\ outbounds' = BuildOutbounds(node) /\ rules' = BuildRules(node)
    /\ UNCHANGED node

Tags == TagsOf(outbounds) \cup {"reject", "resolve", "sniff"}
AllKnown == \A i \in DOMAIN rules : rules[i].out \in Tags

\* sing-box does not start with a rule for an outbound that is not there;
\* xray drops what such a rule matches.
StartPlan ==
    /\ phase = "built"
    /\ phase' = IF node.kernel = "singbox" /\ ~AllKnown THEN "refused" ELSE "running"
    /\ UNCHANGED <<node, outbounds, rules>>

PlanNext == Refuse \/ Build \/ StartPlan

PlanSpec == PlanInit /\ [][PlanNext]_planVars

-----------------------------------------------------------------------------
\* The rules an administrator may put before the others: what they match.
Overrides(n) ==
    {o \in {n.rule, n.raw, n.file} : o # NoRoute /\ (o = n.rule => ~o.disabled)}
PanelMatches(q) ==
    /\ node.panel # NoRoute /\ "bad" \notin node.panel.proto
    /\ node.panel.match # {} \/ node.panel.proto # {}
    /\ node.panel.match = {} \/ q.name \in node.panel.match
          \/ (q.net \in node.panel.match /\ (q.name = "literal" \/ node.kernel = "singbox"))
    /\ node.panel.proto = {} \/ q.proto \in node.panel.proto
\* sing-box resolves a name before it looks; xray (AsIs) never does.
IsPrivate(q) == q.net = "private" /\ (q.name = "literal" \/ node.kernel = "singbox")

\* Traffic that nothing names: an ordinary node of xray with a direct of its own
\* has the first of its own outbounds as its default.
Unnamed ==
    IF node.kernel = "xray" /\ ~IsRelayEntry /\ "direct" \in TagsOf(CustomOutbounds(node))
    THEN Head(CustomOutbounds(node)) ELSE "direct"
MeantFor(q) ==
    IF IsRelayEntry /\ q.line[2] = node.child.route
    THEN IF q.name = "literal" /\ q.net = "private" THEN "block" ELSE node.child.tag
    ELSE IF IsPrivate(q) THEN "block"
    ELSE IF PanelMatches(q) THEN PanelOutbound(node) ELSE Unnamed

\* A connection of a running node leaves the way the panel means it to: a
\* denied source never gets past the policy; what the camouflage guard takes
\* goes to the camouflage site or nowhere; the line of a landing leaves by
\* that landing's outbound and by no panel route; other traffic leaves by the
\* panel route that names it and else by the node's default, which is direct
\* unless an ordinary node of xray defines direct itself.  An address in a
\* private network is blocked where it is written as an address, and on
\* sing-box also behind a name (not on a landing's line, which resolves
\* nothing).  Only rules of the administrator change that.  And a tag stands
\* for one outbound.
RoutedAsMeant ==
    phase = "running" =>
        /\ NoRepeats(outbounds)
        /\ \A q \in Requests :
              IF q.src = "denied" /\ node.policy = "ready"
              THEN RouteOf(q) = "reject"
              ELSE \/ RouteOf(q) = MeantFor(q)
                   \/ \E o \in Overrides(node) :
                         {q.name, q.net} \cap o.match # {} /\ RouteOf(q) = o.out
        /\ node.guard /\ node.kernel = "xray" /\ node.file = NoRoute =>
              \A q \in GuardRequests :
                 RouteOf(q) = IF q.name = "site" THEN "direct" ELSE "block"

-----------------------------------------------------------------------------
(* What holds of every specification, whatever the rules match.             *)

\* Type invariant.
PlanTypeOK == node \in NodeSpecs /\ phase \in {"received", "refused", "built", "running"}

\* What runs was accepted and is what the kernel's builder makes of it.
PlanFits ==
    phase \in {"built", "running"} =>
        /\ ValidateNodeSpec(node)
        /\ outbounds = BuildOutbounds(node) /\ rules = BuildRules(node)

\* The parts of RoutedAsMeant that no rule of the administrator or the panel
\* can change: the tags, the denied sources and the camouflage guard.
GuardedPlan ==
    phase = "running" =>
        /\ NoRepeats(outbounds)
        /\ \A q \in Requests :
              q.src = "denied" /\ node.policy = "ready" => RouteOf(q) = "reject"
        /\ node.guard /\ node.kernel = "xray" /\ node.file = NoRoute =>
              \A q \in GuardRequests :
                 RouteOf(q) = IF q.name = "site" THEN "direct" ELSE "block"
=============================================================================
