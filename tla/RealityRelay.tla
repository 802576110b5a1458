---------------------------- MODULE RealityRelay ----------------------------
(***************************************************************************)
(* The experimental entry that picks a route by the REALITY first flight   *)
(* (internal/realityrelay) and the command that runs it and follows its    *)
(* file (internal/agentcli/reality_relay.go).  Reload replaces the         *)
(* configuration and closes every registered connection; handlers run      *)
(* beside it, each with the configuration it loaded when it began.         *)
(*                                                                         *)
(* The flight is what identify learns from it: the server name, the key it *)
(* is sealed for, the short id and whether its time is within the window.  *)
(* Bytes, deadlines and the way bytes are copied are left out.             *)
(***************************************************************************)
EXTENDS Naturals, FiniteSets

CONSTANTS
    Peers,          \* connections that arrive
    Flights,        \* first flights: name, key, sid and whether the time fits
    RelayConfigs,   \* what the file may hold, valid or not
    FirstRelay,     \* the configuration the command starts with
    NoTarget,       \* no route and no target
    MaxHandling,    \* Config.MaxConnections
    MaxHandshakes,  \* Config.MaxHandshakes
    MaxWrites       \* bound: changes of the file

\* Finitely many connections arrive.
ASSUME RelayAssumption == IsFiniteSet(Peers)

VARIABLES
    relay,      \* Server: the current configuration, closed, counters by route
    peer,       \* the handler of every connection
    tracked,    \* Server.connections
    relayFile,  \* the file: its modification time and content
    follower    \* relayConfigWatcher: appliedMod and the Stat of a check

relayVars == <<relay, peer, tracked, relayFile, follower>>

NoPeer == [pc |-> "none", config |-> FirstRelay, flight |-> NoTarget, route |-> NoTarget,
           counters |-> 0, client |-> FALSE, remote |-> FALSE]
NoStat == 0

(***************************************************************************)
(* compileConfig and identify                                              *)
(***************************************************************************)
Compiles(c) ==
    /\ c.names # {} /\ c.keys # {} /\ c.routes # {}
    /\ \A r \in c.routes : r.key \in c.keys /\ r.name # "fallback" /\ r.target # NoTarget
    /\ \A r, q \in c.routes :
          r # q => r.name # q.name /\ <<r.key, r.sid>> # <<q.key, q.sid>>

\* The fallback is one more route.
AllRoutes(c) ==
    c.routes \cup (IF c.fallback = NoTarget THEN {}
                   ELSE {[name |-> "fallback", key |-> NoTarget, sid |-> NoTarget,
                          target |-> c.fallback]})

\* identify: the route whose key and short id the flight was made with, in time.
Identify(c, f) == {r \in c.routes : f.timely /\ f.key = r.key /\ f.sid = r.sid}

\* handle: an unknown name is refused; a flight that is not authenticated or
\* names no route goes to the fallback, if there is one.
RouteOf(c, f) ==
    LET matching == Identify(c, f)
    IN  IF f.name \notin c.names THEN NoTarget
        ELSE IF matching # {} THEN CHOOSE r \in matching : TRUE
        ELSE IF c.fallback = NoTarget THEN NoTarget
        ELSE CHOOSE r \in AllRoutes(c) : r.name = "fallback"

Handling == {p \in Peers : peer[p].pc # "none"}
Handshaking == {p \in Peers : peer[p].pc \in {"accepted", "start", "hello"}}

\* Counters are shared by routes of one name through every Reload.
NewCounters(c) ==
    [n \in {r.name : r \in AllRoutes(c)} |->
        IF n \in DOMAIN relay.counters THEN relay.counters[n]
        ELSE [id |-> relay.made + 1, active |-> 0]]

RelayInit ==
    /\ relay = [config |-> FirstRelay, closed |-> FALSE, made |-> 1,
                counters |-> [n \in {r.name : r \in AllRoutes(FirstRelay)} |->
                                 [id |-> 1, active |-> 0]]]
    /\ peer = [p \in Peers |-> NoPeer]
    /\ tracked = {}
    /\ relayFile = [mod |-> 1, content |-> FirstRelay]
    /\ follower = [applied |-> 1, stat |-> NoStat]

-----------------------------------------------------------------------------
(* Serve *)

\* A connection takes a slot and a place among the handshakes, or is refused.
AcceptPeer(p) ==
    /\ ~relay.closed /\ peer[p].pc = "none"
    /\ Cardinality(Handling) < MaxHandling
    /\ Cardinality(Handshaking) < MaxHandshakes
    /\ peer' = [peer EXCEPT ![p] = [NoPeer EXCEPT !.pc = "accepted", !.client = TRUE]]
    /\ UNCHANGED <<relay, tracked, relayFile, follower>>

\* Under the lock: dropped when Close came between.
TrackPeer(p) ==
    /\ peer[p].pc = "accepted"
    /\ IF relay.closed
       THEN peer' = [peer EXCEPT ![p] = NoPeer] /\ UNCHANGED tracked
       ELSE /\ peer' = [peer EXCEPT ![p].pc = "start"]
            /\ tracked' = tracked \cup {<<p, "client">>}
    /\ UNCHANGED <<relay, relayFile, follower>>

\* Close and Reload close what is registered.
CloseTracked ==
    peer' = [p \in Peers |-> [peer[p] EXCEPT !.client = @ /\ <<p, "client">> \notin tracked,
                                             !.remote = @ /\ <<p, "remote">> \notin tracked]]

CloseRelay ==
    /\ ~relay.closed
    /\ relay' = [relay EXCEPT !.closed = TRUE]
    /\ CloseTracked
    /\ UNCHANGED <<tracked, relayFile, follower>>

-----------------------------------------------------------------------------
(* handle *)

LeaveRelay(p) ==
    /\ peer' = [peer EXCEPT ![p] = NoPeer]
    /\ tracked' = tracked \ {<<p, "client">>, <<p, "remote">>}

\* The handler begins with the configuration of this moment.
BeginHandler(p) ==
    /\ peer[p].pc = "start"
    /\ peer' = [peer EXCEPT ![p].pc = "hello", ![p].config = relay.config]
    /\ UNCHANGED <<relay, tracked, relayFile, follower>>

\* The flight is read and identified; the handshake's place is given back.
ReadFlight(p, f) ==
    LET r == RouteOf(peer[p].config, f) IN
    /\ peer[p].pc = "hello" /\ peer[p].client /\ r # NoTarget
    /\ peer' = [peer EXCEPT ![p].pc = "dial", ![p].flight = f, ![p].route = r]
    /\ UNCHANGED <<relay, tracked, relayFile, follower>>

\* A refused flight, a closed connection, a deadline, a failed dial.
FailHandler(p) ==
    /\ peer[p].pc \in {"hello", "dial"}
    /\ LeaveRelay(p)
    /\ UNCHANGED <<relay, relayFile, follower>>

DialRoute(p) ==
    /\ peer[p].pc = "dial"
    /\ peer' = [peer EXCEPT ![p].pc = "dialled", ![p].remote = TRUE]
    /\ UNCHANGED <<relay, tracked, relayFile, follower>>

\* The handler's counters are those its configuration's route points to.
CountersOf(p) ==
    LET n == peer[p].route.name
    IN  IF n \in DOMAIN relay.counters THEN relay.counters[n].id ELSE 0

Enter(p) ==
    /\ peer' = [peer EXCEPT ![p].pc = "copy", ![p].counters = CountersOf(p)]
    /\ tracked' = tracked \cup {<<p, "remote">>}
    /\ relay' = IF CountersOf(p) = 0 THEN relay
                ELSE [relay EXCEPT !.counters[peer[p].route.name].active = @ + 1]

\* Mutant: only Close is looked for, not a Reload.
StillServed(p) == ~relay.closed

\* Neither Close nor a Reload came between.
StillCurrent(p) == ~relay.closed /\ relay.config = peer[p].config

RegisterRemote(p) ==
    /\ peer[p].pc = "dialled"
    /\ IF StillCurrent(p) THEN Enter(p) ELSE LeaveRelay(p) /\ UNCHANGED relay
    /\ UNCHANGED <<relayFile, follower>>

\* Both copies ended; the counters are settled in the object the handler has.
FinishCopy(p) ==
    LET n == peer[p].route.name IN
    /\ peer[p].pc = "copy"
    /\ LeaveRelay(p)
    /\ relay' = IF n \in DOMAIN relay.counters /\ relay.counters[n].id = peer[p].counters
                THEN [relay EXCEPT !.counters[n].active = @ - 1] ELSE relay
    /\ UNCHANGED <<relayFile, follower>>

-----------------------------------------------------------------------------
(* The file and Server.Reload *)

WriteRelayFile(c) ==
    /\ relayFile.mod <= MaxWrites /\ c # relayFile.content
    /\ relayFile' = [mod |-> relayFile.mod + 1, content |-> c]
    /\ UNCHANGED <<relay, peer, tracked, follower>>

\* relayConfigWatcher.check: Stat first, the file is read after it.
StatRelayFile ==
    /\ follower.stat = NoStat /\ relayFile.mod # follower.applied
    /\ follower' = [follower EXCEPT !.stat = relayFile.mod]
    /\ UNCHANGED <<relay, peer, tracked, relayFile>>

\* LoadConfig and Reload; a failure is tried again later.
ReloadRelay ==
    LET c == relayFile.content
        ok == Compiles(c) /\ ~relay.closed /\ c.listen = relay.config.listen
    IN  /\ follower.stat # NoStat
        /\ follower' = [applied |-> IF ok THEN follower.stat ELSE follower.applied,
                        stat |-> NoStat]
        /\ IF ok /\ c # relay.config
           THEN /\ relay' = [relay EXCEPT !.config = c, !.counters = NewCounters(c),
                                          !.made = @ + 1]
                /\ CloseTracked
           ELSE UNCHANGED <<relay, peer>>
        /\ UNCHANGED <<tracked, relayFile>>

RelayNext ==
    \/ CloseRelay \/ StatRelayFile \/ ReloadRelay
    \/ \E c \in RelayConfigs : WriteRelayFile(c)
    \/ \E p \in Peers :
          \/ AcceptPeer(p) \/ TrackPeer(p) \/ BeginHandler(p) \/ FailHandler(p)
          \/ DialRoute(p) \/ RegisterRemote(p) \/ FinishCopy(p)
          \/ \E f \in Flights : ReadFlight(p, f)

RelaySpec == RelayInit /\ [][RelayNext]_relayVars

-----------------------------------------------------------------------------
\* Whoever is still connected both ways is where the configuration of now
\* would send the flight: a Reload leaves no revoked connection.
NobodyRevoked ==
    \A p \in Peers :
        peer[p].pc = "copy" /\ (peer[p].client \/ peer[p].remote) =>
            ~relay.closed /\ RouteOf(relay.config, peer[p].flight) = peer[p].route

\* A route counts as active exactly the handlers that will settle in it.
ActiveIsExact ==
    \A n \in DOMAIN relay.counters :
        relay.counters[n].active =
            Cardinality({p \in Peers : /\ peer[p].pc = "copy" /\ peer[p].route.name = n
                                       /\ peer[p].counters = relay.counters[n].id})

\* A file whose modification time was taken as applied is applied.
FileIsFollowed ==
    follower.applied = relayFile.mod /\ ~relay.closed => relay.config = relayFile.content

\* Server.Reload, handle and relayConfigWatcher.check (realityrelay/server.go,
\* agentcli/reality_relay.go): revocation, statistics and the file agree.
RelayEntryHolds == NobodyRevoked /\ ActiveIsExact /\ FileIsFollowed

-----------------------------------------------------------------------------
(***************************************************************************)
(* Types.  A configuration, a flight and a route are whatever the file and *)
(* the connections bring.                                                  *)
(***************************************************************************)
Configs == RelayConfigs \cup {FirstRelay}
Routes == {NoTarget} \cup UNION {AllRoutes(c) : c \in Configs}
Handlers == [pc : {"none", "accepted", "start", "hello", "dial", "dialled", "copy"},
             config : Configs, flight : Flights \cup {NoTarget}, route : Routes,
             counters : Nat, client : BOOLEAN, remote : BOOLEAN]

RelayTypeOK ==
    /\ relay = [config |-> relay.config, closed |-> relay.closed, made |-> relay.made,
                counters |-> relay.counters]
    /\ relay.config \in Configs /\ relay.closed \in BOOLEAN /\ relay.made \in Nat
    /\ relay.counters \in [DOMAIN relay.counters -> [id : Nat, active : Nat]]
    /\ peer \in [Peers -> Handlers]
    /\ tracked \in SUBSET (Peers \X {"client", "remote"})
    /\ relayFile \in [mod : Nat, content : Configs]
    /\ follower \in [applied : Nat, stat : Nat]

(***************************************************************************)
(* The inductive invariant behind RelayEntryHolds: both connections of a   *)
(* handler that copies are registered, so whatever ends its configuration  *)
(* closes them; a counter that is made anew has a number of its own; the   *)
(* file is never older than what is known of it.                           *)
(***************************************************************************)
HandlersRegistered ==
    \A p \in Peers :
        /\ peer[p].pc \notin {"none", "accepted"} => <<p, "client">> \in tracked
        /\ peer[p].pc \in {"dial", "dialled", "copy"} =>
              peer[p].route = RouteOf(peer[p].config, peer[p].flight)
        /\ peer[p].pc = "copy" =>
              /\ <<p, "remote">> \in tracked
              /\ peer[p].client \/ peer[p].remote =>
                    ~relay.closed /\ relay.config = peer[p].config

CountersAreNew ==
    /\ \A n \in DOMAIN relay.counters : relay.counters[n].id \in 1..relay.made
    /\ \A p \in Peers : peer[p].counters <= relay.made

FileIsNewer == follower.applied <= relayFile.mod /\ follower.stat <= relayFile.mod

RelayInv ==
    HandlersRegistered /\ CountersAreNew /\ ActiveIsExact /\ FileIsNewer /\ FileIsFollowed
=============================================================================
