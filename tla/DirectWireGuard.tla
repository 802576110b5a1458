-------------------------- MODULE DirectWireGuard --------------------------
(***************************************************************************)
(* The WireGuard entry of a node (internal/directwg): Managed takes the    *)
(* calls of the service, Runtime owns the WireGuard device, State the      *)
(* users.  A user whose key or address changes gets a new userState (a     *)
(* generation here); connections, sources and permits belong to one.       *)
(*                                                                         *)
(* Packets come in at any time between the steps of a replacement of the   *)
(* users, of the reaper of expired users, of the goroutines that ask the   *)
(* device gate and of those that close what belongs to a revoked permit.   *)
(* The first packet of a connection stands for the connection until the    *)
(* network stack reports it.  The device, the stack and the core behind    *)
(* Managed are external; the gate is module DeviceGate.                    *)
(***************************************************************************)
EXTENDS Naturals, Sequences, FiniteSets

CONSTANTS
    WgUserSets,   \* lists of users the service sends: functions from ids to
                  \* records of a key and an address
    WgSources,    \* public addresses of clients
    WgConns,      \* connections
    WgLimit,      \* DeviceLimit and MaxConnByUserID of each user
    MaxWgGens,    \* bound: userStates
    MaxWgPermits, \* bound: permits
    MaxWgEvents   \* bound: calls, revocations and expiries

WgIds == UNION {DOMAIN users : users \in WgUserSets}
NoUsers == [i \in {} |-> 0]

ASSUME WgAssumption ==
    /\ WgIds \subseteq Nat \ {0} /\ NoUsers \in WgUserSets
    /\ {WgLimit, MaxWgGens, MaxWgPermits, MaxWgEvents} \subseteq Nat

VARIABLES
    wgGated,    \* deviceGate.Enabled(), fixed
    wgUp,       \* Managed.runtime # nil
    wgLive,     \* Runtime.ctx is not cancelled
    wgOpen,     \* the device is not closed
    wgPeers,    \* peers of the device: records of a key and an address
    wgTable,    \* State.users: generation of each id, or 0
    wgGens,     \* every userState, oldest first
    wgEvents,   \* calls, revocations and expiries so far
    wgPermits,  \* permits: held, revoked or released, and bound or not
    wgConn,     \* connections
    wgProcs,    \* the service's call and the reaper
    wgAsks,     \* goroutines of admitManagedSourceLocked
    wgClosers,  \* goroutines in closeDeviceSource or closeUser
    wgRevived   \* history: the reaper put users back while Close ran

wgRuntime == <<wgGated, wgUp, wgLive, wgOpen, wgPeers>>
wgVars == <<wgRuntime, wgTable, wgGens, wgEvents, wgPermits, wgConn, wgProcs, wgAsks,
            wgClosers, wgRevived>>

NewGen(i, spec) ==
    [id |-> i, spec |-> spec, ctx |-> TRUE, expired |-> FALSE, latest |-> {},
     sources |-> [s \in WgSources |-> "none"], permits |-> [s \in WgSources |-> 0],
     pending |-> {}, retry |-> {}]
NoWgConn == [at |-> "none", from |-> 0, owner |-> 0, id |-> 0, source |-> {},
             permit |-> 0, late |-> FALSE]
WgIdle == [at |-> "idle", users |-> NoUsers, conns |-> {}, permits |-> {}, next |-> "idle",
           restart |-> FALSE]

WgInit ==
    /\ wgGated \in BOOLEAN
    /\ wgUp = FALSE /\ wgLive = FALSE /\ wgOpen = FALSE /\ wgPeers = {}
    /\ wgTable = [i \in WgIds |-> 0] /\ wgGens = <<>>
    /\ wgEvents = 0
    /\ wgPermits = <<>>
    /\ wgConn = [c \in WgConns |-> NoWgConn]
    /\ wgProcs = [p \in {"call", "reap"} |-> WgIdle]
    /\ wgAsks = {} /\ wgClosers = {} /\ wgRevived = FALSE

WgEvent == wgEvents < MaxWgEvents /\ wgEvents' = wgEvents + 1
WgValid(g) == g # 0 /\ ~wgGens[g].expired
PermitValid(p) == wgPermits[p].at = "held"
WgPermitsOf(g) == {wgGens[g].permits[s] : s \in WgSources} \ {0}
OpenConns(gs) == {c \in WgConns : wgConn[c].at = "open" /\ wgConn[c].owner \in gs}
WgReleased(ps) == [p \in DOMAIN wgPermits |-> IF p \in ps THEN [wgPermits[p] EXCEPT !.at = "released"]
                                              ELSE wgPermits[p]]
\* What is left of a connection that was closed: its goroutine calls release.
WgClosed(cs) == [c \in WgConns |-> IF c \in cs /\ wgConn[c].at = "open"
                                   THEN [wgConn[c] EXCEPT !.at = "closed"] ELSE wgConn[c]]

-----------------------------------------------------------------------------
(* replaceUsers: a user that is the same keeps its userState; the others'   *)
(* contexts end under the lock, their connections and permits after it.     *)

WgKept(users) ==
    {i \in DOMAIN users : wgTable[i] # 0 /\ wgGens[wgTable[i]].spec = users[i]
                                         /\ wgGens[wgTable[i]].ctx}
WgGone(users) == {wgTable[i] : i \in WgIds \ WgKept(users)} \ {0}

ReplaceUsers(users) ==
    LET same == WgKept(users)
        new == DOMAIN users \ same
        place(i) == Len(wgGens) + Cardinality({j \in new : j <= i})
        gone == WgGone(users)
    IN  /\ Len(wgGens) + Cardinality(new) <= MaxWgGens
        /\ wgTable' = [i \in WgIds |-> IF i \in same THEN wgTable[i]
                                       ELSE IF i \in new THEN place(i) ELSE 0]
        /\ wgGens' = [g \in 1..(Len(wgGens) + Cardinality(new)) |->
               IF g > Len(wgGens) THEN LET i == CHOOSE i \in new : place(i) = g
                                       IN NewGen(i, users[i])
               ELSE [wgGens[g] EXCEPT !.ctx = @ /\ g \notin gone,
                                      !.expired = @ /\ g \notin {wgTable[i] : i \in same}]]
        \* history: the packet passed its check and is not yet in the stack
        /\ wgConn' = [c \in WgConns |->
               [wgConn[c] EXCEPT !.late = @ \/ (wgConn[c].at \in {"checked", "reported"}
                                                 /\ wgConn[c].from \in gone)]]

\* The step of process p that holds the lock, and the two after it.
Replacing(p, users, next) ==
    /\ ReplaceUsers(users)
    /\ wgProcs' = [wgProcs EXCEPT ![p] =
           [at |-> "closing", users |-> users, next |-> next, restart |-> FALSE,
            conns |-> OpenConns(WgGone(users)),
            permits |-> UNION {WgPermitsOf(g) : g \in WgGone(users)}]]

ReplaceCloses(p) ==
    /\ wgProcs[p].at = "closing"
    /\ wgConn' = WgClosed(wgProcs[p].conns)
    /\ wgProcs' = [wgProcs EXCEPT ![p].at = "releasing", ![p].conns = {}]
    /\ UNCHANGED <<wgRuntime, wgTable, wgGens, wgEvents, wgPermits, wgAsks, wgClosers,
                   wgRevived>>

ReplaceReleases(p) ==
    /\ wgProcs[p].at = "releasing"
    /\ wgPermits' = WgReleased(wgProcs[p].permits)
    /\ wgProcs' = [wgProcs EXCEPT ![p].at = wgProcs[p].next, ![p].permits = {}]
    /\ UNCHANGED <<wgRuntime, wgTable, wgGens, wgEvents, wgConn, wgAsks, wgClosers, wgRevived>>

-----------------------------------------------------------------------------
(* Managed and Runtime.  Managed.mu: one call at a time.  Runtime.mu is     *)
(* held by updateUsersLocked of a call or of the reaper, and for the end of *)
(* Close.                                                                   *)

Updating(p) == wgProcs[p].at \in {"update", "closing", "releasing", "ipc", "clear"}
                   /\ wgProcs[p].next \notin {"closedevice"}
Frame == UNCHANGED <<wgEvents, wgPermits, wgAsks, wgClosers>>
CallFrame == WgEvent /\ UNCHANGED <<wgPermits, wgAsks, wgClosers>>

\* Start and Reload: the list is checked, an old runtime closed first.
CallStart(users) ==
    /\ wgProcs["call"].at = "idle"
    /\ wgProcs' = [wgProcs EXCEPT !["call"] =
           [WgIdle EXCEPT !.at = IF wgUp THEN "close" ELSE "start", !.users = users,
                          !.restart = wgUp]]
    /\ UNCHANGED <<wgRuntime, wgTable, wgGens, wgConn, wgRevived>> /\ CallFrame

CallStop ==
    /\ wgProcs["call"].at = "idle" /\ wgUp
    /\ wgProcs' = [wgProcs EXCEPT !["call"] = [WgIdle EXCEPT !.at = "close"]]
    /\ UNCHANGED <<wgRuntime, wgTable, wgGens, wgConn, wgRevived>> /\ CallFrame

\* start: a new device; updateUsers runs before it is up.
StartDevice ==
    /\ wgProcs["call"].at = "start"
    /\ wgLive' = TRUE /\ wgOpen' = TRUE /\ wgPeers' = {} /\ wgUp' = FALSE
    /\ wgProcs' = [wgProcs EXCEPT !["call"].at = "update"]
    /\ UNCHANGED <<wgGated, wgTable, wgGens, wgConn, wgRevived>> /\ Frame

\* UpdateUsers, AddUsers and RemoveUsers: updateLocked with the resulting list.
CallUpdate(users) ==
    /\ wgProcs["call"].at = "idle" /\ wgUp
    /\ wgProcs["reap"].at = "idle"
    /\ wgProcs' = [wgProcs EXCEPT !["call"] =
           IF wgLive THEN [WgIdle EXCEPT !.at = "update", !.users = users] ELSE WgIdle]
    /\ UNCHANGED <<wgRuntime, wgTable, wgGens, wgConn, wgRevived>> /\ CallFrame

\* reap: the users that have not expired, when one has.
ReapStarts ==
    LET valid == {i \in WgIds : WgValid(wgTable[i])} IN
    /\ wgProcs["reap"].at = "idle" /\ wgLive /\ wgUp
    /\ ~Updating("call")
    /\ valid # {i \in WgIds : wgTable[i] # 0}
    /\ wgProcs' = [wgProcs EXCEPT !["reap"] =
           [WgIdle EXCEPT !.at = "update",
                          !.users = [i \in valid |-> wgGens[wgTable[i]].spec]]]
    /\ UNCHANGED <<wgRuntime, wgTable, wgGens, wgConn, wgRevived>> /\ Frame

\* updateUsersLocked: the old users lose their rights before the device
\* learns of the change.
UpdateReplaces(p) ==
    /\ wgProcs[p].at = "update"
    /\ Replacing(p, wgProcs[p].users, "ipc")
    /\ wgRevived' = (wgRevived \/ ~wgLive)
    /\ UNCHANGED wgRuntime /\ Frame

\* IpcSet: the peers are set, or the runtime ends and the list is emptied.
\* A call that started the device has it up after that.
SetPeers(p) ==
    /\ wgProcs[p].at = "ipc"
    /\ \/ /\ wgPeers' = {wgProcs[p].users[i] : i \in DOMAIN wgProcs[p].users}
          /\ wgProcs' = [wgProcs EXCEPT ![p] = WgIdle]
          /\ wgUp' = (wgUp \/ p = "call")
          /\ UNCHANGED wgLive
       \/ /\ wgLive' = FALSE
          /\ wgProcs' = [wgProcs EXCEPT ![p].at = "clear"]
          /\ UNCHANGED <<wgPeers, wgUp>>
    /\ UNCHANGED <<wgGated, wgOpen, wgTable, wgGens, wgConn, wgRevived>> /\ Frame

\* After a failed start the device is closed as well.
ClearUsers(p) ==
    /\ wgProcs[p].at = "clear"
    /\ Replacing(p, NoUsers, IF wgUp THEN "idle" ELSE "closedevice")
    /\ UNCHANGED <<wgRuntime, wgRevived>> /\ Frame

\* Runtime.Close: the context and the users end without Runtime.mu ...
CloseStarts ==
    /\ wgProcs["call"].at = "close"
    /\ wgLive' = FALSE
    /\ wgProcs' = [wgProcs EXCEPT !["call"].at = "drop"]
    /\ UNCHANGED <<wgGated, wgUp, wgOpen, wgPeers, wgTable, wgGens, wgConn, wgRevived>> /\ Frame

\* ... the list the call has to start with is kept beside.
CloseReplaces ==
    /\ wgProcs["call"].at = "drop"
    /\ ReplaceUsers(NoUsers)
    /\ wgProcs' = [wgProcs EXCEPT !["call"] =
           [@ EXCEPT !.at = "closing", !.next = "closedevice",
                     !.conns = OpenConns(WgGone(NoUsers)),
                     !.permits = UNION {WgPermitsOf(g) : g \in WgGone(NoUsers)}]]
    /\ UNCHANGED <<wgRuntime, wgRevived>> /\ Frame

\* ... then the device is closed under Runtime.mu and the reaper awaited.  Start
\* goes on.
CloseDevice ==
    LET its == wgProcs["call"] IN
    /\ its.at = "closedevice" /\ wgProcs["reap"].at = "idle"
    /\ wgOpen' = FALSE /\ wgPeers' = {} /\ wgUp' = FALSE
    /\ wgProcs' = [wgProcs EXCEPT !["call"] =
           IF its.restart THEN [WgIdle EXCEPT !.at = "start", !.users = its.users]
           ELSE WgIdle]
    /\ UNCHANGED <<wgGated, wgLive, wgTable, wgGens, wgConn, wgRevived>> /\ Frame

-----------------------------------------------------------------------------
(* Packets                                                                  *)

\* pruneSourcesLocked: sources not heard of for sourceTTL go; a permit is
\* closed by a goroutine of its own.
Stale(g) == {s \in WgSources : wgGens[g].sources[s] = "stale"}
WgPruned(g) == [wgGens[g] EXCEPT
    !.sources = [s \in WgSources |-> IF s \in Stale(g) THEN "none" ELSE @[s]],
    !.permits = [s \in WgSources |-> IF s \in Stale(g) THEN 0 ELSE @[s]]]
PruneClosers(g) ==
    {[at |-> "start", gen |-> g, source |-> s, permits |-> {wgGens[g].permits[s]}, conns |-> {}] :
        s \in {s \in Stale(g) : wgGens[g].permits[s] # 0}}

\* admitLocked without the gate: the number of sources is limited here.
WithinLimit(gen, s) ==
    Cardinality({t \in WgSources : gen.sources[t] # "none"} \cup {s}) <= WgLimit

\* FromPeer and authenticated, for the first packet c of a connection from
\* source s: admitLocked, and the note that Write consumes.  With the gate the
\* first packet of a source only has it asked for.
Authenticated(c, i, s) ==
    LET g == wgTable[i]
        gen == WgPruned(g)
        p == gen.permits[s]
        heard == [gen EXCEPT !.sources[s] = "live", !.latest = {s}]
        noted == wgConn' = [wgConn EXCEPT ![c] = [NoWgConn EXCEPT !.at = "noted", !.from = g]]
    IN  /\ wgConn[c].at = "none" /\ wgOpen
        /\ WgValid(g) /\ wgGens[g].spec \in wgPeers
        /\ wgClosers' = wgClosers \cup PruneClosers(g)
        /\ \/ /\ IF wgGated THEN p # 0 /\ PermitValid(p) ELSE WithinLimit(gen, s)
              /\ wgGens' = [wgGens EXCEPT ![g] = heard]
              /\ noted /\ UNCHANGED wgAsks
           \/ /\ wgGated /\ p = 0 /\ s \notin gen.pending \cup gen.retry
              /\ wgGens' = [wgGens EXCEPT ![g] = [gen EXCEPT !.pending = @ \cup {s}]]
              /\ wgAsks' = wgAsks \cup {[gen |-> g, source |-> s, at |-> "asking", permit |-> 0]}
              /\ UNCHANGED wgConn
    /\ UNCHANGED <<wgRuntime, wgTable, wgEvents, wgPermits, wgProcs, wgRevived>>

\* trackedDevice.Write: the note is consumed, its owner must still be the one
\* of the address.  reap drops a note nobody consumed.
CheckPacket(c) ==
    LET g == wgConn[c].from IN
    /\ wgConn[c].at = "noted"
    /\ wgConn' = [wgConn EXCEPT ![c] =
           IF wgTable[wgGens[g].id] = g /\ WgValid(g) THEN [@ EXCEPT !.at = "checked"]
           ELSE NoWgConn]
    /\ UNCHANGED <<wgRuntime, wgTable, wgGens, wgEvents, wgPermits, wgProcs, wgAsks,
                   wgClosers, wgRevived>>

DropNote(c) ==
    /\ wgConn[c].at = "noted"
    /\ wgConn' = [wgConn EXCEPT ![c] = NoWgConn]
    /\ UNCHANGED <<wgRuntime, wgTable, wgGens, wgEvents, wgPermits, wgProcs, wgAsks,
                   wgClosers, wgRevived>>

\* NewConnectionEx, NewPacketConnectionEx: userForAddress.
ReportConn(c) ==
    LET address == wgGens[wgConn[c].from].spec.address
        owners == {i \in WgIds : WgValid(wgTable[i])
                                 /\ wgGens[wgTable[i]].spec.address = address}
    IN  /\ wgConn[c].at = "checked"
        /\ wgConn' = [wgConn EXCEPT ![c] =
               IF owners = {} THEN NoWgConn
               ELSE LET i == CHOOSE i \in owners : TRUE
                    IN [@ EXCEPT !.at = "reported", !.id = i, !.source = wgGens[wgTable[i]].latest]]
        /\ UNCHANGED <<wgRuntime, wgTable, wgGens, wgEvents, wgPermits, wgProcs, wgAsks,
                       wgClosers, wgRevived>>

\* track, with the permit of the source; a source nobody reported yet has none
\* and needs none.
Track(c) ==
    LET g == wgTable[wgConn[c].id]
        need == wgGated /\ wgConn[c].source # {}
        p == IF need /\ g # 0 THEN wgGens[g].permits[CHOOSE s \in wgConn[c].source : TRUE] ELSE 0
        tracked == {d \in WgConns : wgConn[d].owner = g /\ wgConn[d].at \in {"open", "closed"}}
    IN  /\ wgConn[c].at = "reported"
        /\ wgConn' = [wgConn EXCEPT ![c] =
               IF /\ WgValid(g) /\ Cardinality(tracked) < WgLimit
                  /\ need => p # 0 /\ PermitValid(p)
               THEN [@ EXCEPT !.at = "open", !.owner = g, !.permit = p] ELSE NoWgConn]
        /\ UNCHANGED <<wgRuntime, wgTable, wgGens, wgEvents, wgPermits, wgProcs, wgAsks,
                       wgClosers, wgRevived>>

\* The connection ends by itself, or was closed: done and release.
Finish(c) ==
    /\ wgConn[c].at \in {"open", "closed"}
    /\ wgConn' = [wgConn EXCEPT ![c] = NoWgConn]
    /\ UNCHANGED <<wgRuntime, wgTable, wgGens, wgEvents, wgPermits, wgProcs, wgAsks,
                   wgClosers, wgRevived>>

-----------------------------------------------------------------------------
(* Permits                                                                  *)

WithoutAsk(a, new) == wgAsks' = (wgAsks \ {a}) \cup new
Retry(g, s) == [wgGens EXCEPT ![g].pending = @ \ {s}, ![g].retry = @ \cup {s}]

GateGrants(a) ==
    /\ a.at = "asking" /\ Len(wgPermits) < MaxWgPermits
    /\ wgPermits' = Append(wgPermits, [at |-> "held", bound |-> {}])
    /\ WithoutAsk(a, {[a EXCEPT !.at = "granted", !.permit = Len(wgPermits) + 1]})
    /\ UNCHANGED <<wgRuntime, wgTable, wgGens, wgEvents, wgConn, wgProcs, wgClosers, wgRevived>>

\* Also when the context of the user ended.
GateRefuses(a) ==
    /\ a.at = "asking"
    /\ wgGens' = Retry(a.gen, a.source)
    /\ WithoutAsk(a, {})
    /\ UNCHANGED <<wgRuntime, wgTable, wgEvents, wgPermits, wgConn, wgProcs, wgClosers,
                   wgRevived>>

\* Mutant: only the context of the user is checked, not the list of users.
ValidWithoutList(a) == PermitValid(a.permit) /\ WgValid(a.gen)

\* The answer still counts when the lock is taken.
AnswerValid(a) ==
    /\ PermitValid(a.permit) /\ WgValid(a.gen)
    /\ wgTable[wgGens[a.gen].id] = a.gen /\ wgGens[a.gen].ctx

RegisterPermit(a) ==
    /\ a.at = "granted"
    /\ IF AnswerValid(a)
       THEN /\ wgGens' = [wgGens EXCEPT ![a.gen] =
                   [@ EXCEPT !.pending = @ \ {a.source}, !.permits[a.source] = a.permit,
                             !.sources[a.source] = "live", !.latest = {a.source}]]
            /\ WithoutAsk(a, {[a EXCEPT !.at = "bind"]})
       ELSE /\ wgGens' = Retry(a.gen, a.source)
            /\ WithoutAsk(a, {[a EXCEPT !.at = "discard"]})
    /\ UNCHANGED <<wgRuntime, wgTable, wgEvents, wgPermits, wgConn, wgProcs, wgClosers,
                   wgRevived>>

DiscardPermit(a) ==
    /\ a.at = "discard"
    /\ wgPermits' = WgReleased({a.permit})
    /\ WithoutAsk(a, {})
    /\ UNCHANGED <<wgRuntime, wgTable, wgGens, wgEvents, wgConn, wgProcs, wgClosers, wgRevived>>

CloserOf(g, s, p) == [at |-> "start", gen |-> g, source |-> s, permits |-> {p}, conns |-> {}]

\* Bind: a permit that is closing has its closer called at once.
BindPermit(a) ==
    /\ a.at = "bind"
    /\ IF PermitValid(a.permit)
       THEN /\ wgPermits' = [wgPermits EXCEPT ![a.permit].bound = {<<a.gen, a.source>>}]
            /\ UNCHANGED wgClosers
       ELSE /\ wgClosers' = wgClosers \cup {CloserOf(a.gen, a.source, a.permit)}
            /\ UNCHANGED wgPermits
    /\ WithoutAsk(a, {})
    /\ UNCHANGED <<wgRuntime, wgTable, wgGens, wgEvents, wgConn, wgProcs, wgRevived>>

\* The gate takes a permit back and calls what is bound to it.
GateRevokes(p) ==
    /\ wgPermits[p].at = "held"
    /\ wgPermits' = [wgPermits EXCEPT ![p] = [at |-> "revoked", bound |-> {}]]
    /\ wgClosers' = wgClosers \cup {CloserOf(b[1], b[2], p) : b \in wgPermits[p].bound}
    /\ WgEvent
    /\ UNCHANGED <<wgRuntime, wgTable, wgGens, wgConn, wgProcs, wgAsks, wgRevived>>

\* closeDeviceSource: under the lock, the source and its connections; closeUser
\* starts here with all of a user's.
CloserStarts(k) ==
    LET p == CHOOSE p \in k.permits : TRUE IN
    /\ k.at = "start"
    /\ wgGens' = IF wgGens[k.gen].permits[k.source] # p THEN wgGens
                 ELSE [wgGens EXCEPT ![k.gen].permits[k.source] = 0,
                                     ![k.gen].sources[k.source] = "none"]
    /\ wgClosers' = (wgClosers \ {k}) \cup
           {[k EXCEPT !.at = "close", !.conns = {c \in OpenConns({k.gen}) : wgConn[c].permit = p}]}
    /\ UNCHANGED <<wgRuntime, wgTable, wgEvents, wgPermits, wgConn, wgProcs, wgAsks, wgRevived>>

CloseUser(i) ==
    LET g == wgTable[i] IN
    /\ g # 0 /\ wgUp
    /\ wgGens' = [wgGens EXCEPT ![g].sources = [s \in WgSources |-> "none"],
                                ![g].permits = [s \in WgSources |-> 0]]
    /\ wgClosers' = wgClosers \cup
           {k \in {[at |-> "close", gen |-> g, source |-> CHOOSE s \in WgSources : TRUE,
                    permits |-> WgPermitsOf(g), conns |-> OpenConns({g})]} :
                k.permits \cup k.conns # {}}
    /\ WgEvent
    /\ UNCHANGED <<wgRuntime, wgTable, wgPermits, wgConn, wgProcs, wgAsks, wgRevived>>

CloserCloses(k) ==
    /\ k.at = "close"
    /\ wgConn' = WgClosed(k.conns)
    /\ wgClosers' = (wgClosers \ {k}) \cup {[k EXCEPT !.at = "release", !.conns = {}]}
    /\ UNCHANGED <<wgRuntime, wgTable, wgGens, wgEvents, wgPermits, wgProcs, wgAsks, wgRevived>>

CloserReleases(k) ==
    /\ k.at = "release"
    /\ wgPermits' = WgReleased(k.permits)
    /\ wgClosers' = wgClosers \ {k}
    /\ UNCHANGED <<wgRuntime, wgTable, wgGens, wgEvents, wgConn, wgProcs, wgAsks, wgRevived>>

-----------------------------------------------------------------------------
(* Time and reports                                                         *)

\* sourceTTL, the second after a refusal, the end of a subscription.
WgTimePasses(g) ==
    /\ wgTable[wgGens[g].id] = g
    /\ \/ \E s \in WgSources : /\ wgGens[g].sources[s] = "live"
                               /\ wgGens' = [wgGens EXCEPT ![g].sources[s] = "stale"]
       \/ wgGens[g].retry # {} /\ wgGens' = [wgGens EXCEPT ![g].retry = {}]
       \/ /\ ~wgGens[g].expired
          /\ wgGens' = [wgGens EXCEPT ![g].expired = TRUE]
    /\ WgEvent
    /\ UNCHANGED <<wgRuntime, wgTable, wgPermits, wgConn, wgProcs, wgAsks,
                   wgClosers, wgRevived>>

\* snapshot, for GetUserTraffic: sources are pruned here as well.
Snapshot(i) ==
    LET g == wgTable[i] IN
    /\ WgValid(g) /\ Stale(g) # {}
    /\ wgGens' = [wgGens EXCEPT ![g] = WgPruned(g)]
    /\ wgClosers' = wgClosers \cup PruneClosers(g)
    /\ UNCHANGED <<wgRuntime, wgTable, wgEvents, wgPermits, wgConn, wgProcs, wgAsks, wgRevived>>

WgNext ==
    \/ \E users \in WgUserSets : CallStart(users) \/ CallUpdate(users)
    \/ CallStop \/ StartDevice \/ ReapStarts \/ CloseStarts \/ CloseReplaces \/ CloseDevice
    \/ \E p \in {"call", "reap"} : \/ UpdateReplaces(p) \/ SetPeers(p) \/ ClearUsers(p)
                                   \/ ReplaceCloses(p) \/ ReplaceReleases(p)
    \/ \E c \in WgConns : \/ CheckPacket(c) \/ DropNote(c) \/ ReportConn(c) \/ Track(c)
                          \/ Finish(c)
                          \/ \E i \in WgIds, s \in WgSources : Authenticated(c, i, s)
    \/ \E a \in wgAsks : \/ GateGrants(a) \/ GateRefuses(a) \/ RegisterPermit(a)
                         \/ DiscardPermit(a) \/ BindPermit(a)
    \/ \E p \in DOMAIN wgPermits : GateRevokes(p)
    \/ \E k \in wgClosers : CloserStarts(k) \/ CloserCloses(k) \/ CloserReleases(k)
    \/ \E i \in WgIds : CloseUser(i) \/ Snapshot(i)
    \/ \E g \in DOMAIN wgGens : WgTimePasses(g)

WgSpec == WgInit /\ [][WgNext]_wgVars

-----------------------------------------------------------------------------
(* Properties                                                               *)

WgQuiet == wgProcs["call"].at = "idle" /\ wgProcs["reap"].at = "idle"
           /\ wgAsks = {} /\ wgClosers = {}

\* A device slot is given back only after the connections that used it are
\* closed.
SlotOutlivesConnections ==
    \A c \in WgConns : wgConn[c].at = "open" /\ wgConn[c].permit # 0
                       => wgPermits[wgConn[c].permit].at # "released"

\* Nothing of a user who is gone stays: once the goroutines are through, an
\* open connection belongs to a user of the list, a held permit is known to
\* one, and the device knows the users of the list and no others.
NothingLeftOfTheGone ==
    WgQuiet /\ ~wgRevived =>
        /\ \A c \in WgConns : wgConn[c].at = "open" => wgConn[c].owner \in {wgTable[i] : i \in WgIds}
        /\ \A p \in DOMAIN wgPermits : PermitValid(p) =>
               \E i \in WgIds : wgTable[i] # 0 /\ p \in WgPermitsOf(wgTable[i])
        /\ wgUp /\ wgLive => wgPeers = {wgGens[wgTable[i]].spec : i \in {i \in WgIds : wgTable[i] # 0}}
        /\ ~wgLive => \A i \in WgIds : wgTable[i] = 0

\* A connection is carried and counted for the user whose key its first packet
\* was authenticated with, under a permit if there is a gate.  A packet that
\* passed the check of Write before its user was replaced is the exception.
CarriedForItsUser ==
    \A c \in WgConns : wgConn[c].at = "open" /\ ~wgConn[c].late =>
        /\ wgConn[c].owner = wgConn[c].from
        /\ wgGated => wgConn[c].permit # 0

\* The properties of the WireGuard entry, together.
WireGuardHolds ==
    SlotOutlivesConnections /\ NothingLeftOfTheGone /\ CarriedForItsUser
=============================================================================
