-------------------------- MODULE SingBoxAdmission --------------------------
(***************************************************************************)
(* Admission of connections by the ConnTracker of the sing-box kernel      *)
(* (conntracker.go, relay.go) and by RelayAccess (relay_access.go): the    *)
(* goroutines of several connections of one user run through the device    *)
(* check, the connection check, the device gate, the registration and the  *)
(* binding of the permit, while connections are closed, permits revoked,   *)
(* the list of users replaced and the counters of a removed user retired.  *)
(*                                                                         *)
(* One user with one name (on a relay entry: one line) is modelled; TCP    *)
(* and UDP differ only in connMap.  A source is what CountKey makes of the *)
(* address; the ones outside of Countable (private or listed) have no key. *)
(***************************************************************************)
EXTENDS Integers, Sequences, FiniteSets

CONSTANTS
    AdConns,      \* connections
    AdSources,    \* addresses they come from
    Countable,    \* the ones that take a device slot
    ConnLimits,   \* values of MaxConnByUserID
    DeviceLimit,  \* deviceLimitFunc
    NoSnapshot,   \* no fresh state of the other nodes
    Snapshots,    \* states of the other nodes the panel sends
    MaxStats      \* bound: userStats objects of the user

ASSUME SbAdmissionAssumption ==
    /\ IsFiniteSet(AdConns) /\ AdSources # {}
    /\ Countable \subseteq AdSources /\ IsFiniteSet(Countable)
    /\ Snapshots \subseteq SUBSET Countable
    /\ ConnLimits \cup {DeviceLimit, MaxStats} \subseteq Nat \ {0}

VARIABLES
        \* what does not change: deviceGate is enabled, the node is a relay
        \* entry, the limit of the user's connections
    gated, relayEntry, connLimit,
        \* ConnTracker
    listed,      \* the name is in uuidMap
    stats,       \* every userStats of the user, oldest first
    entry,     \* index of users[uid], or 0
    global,      \* fresh globalDevices of the user, or NoSnapshot
    sources,     \* relaySources: references per source
        \* RelayAccess
    allowed,     \* the name is in allowed
    accesses,    \* connections: the registered connections
        \* goroutines
    updater,     \* replaceNodeUsers: idle, or before one of its later steps
    conns,       \* the connections
    vouched      \* history: sources let in because other nodes know them

trackerVars == <<gated, relayEntry, connLimit, listed, stats, entry, global, sources>>
sbAdmissionVars == <<trackerVars, allowed, accesses, updater, conns, vouched>>

NewStats == [ips |-> [s \in AdSources |-> 0], connCount |-> 0, pending |-> 0]
NewConn == [at |-> "none", life |-> "none", source |-> CHOOSE s \in AdSources : TRUE,
            us |-> 0, permit |-> "none"]
NoUpdate == [at |-> "idle", close |-> {}]

SbAdmissionInit ==
    /\ gated \in BOOLEAN /\ relayEntry \in BOOLEAN /\ connLimit \in ConnLimits
    /\ listed = TRUE /\ stats = <<NewStats>> /\ entry = 1
    /\ global = NoSnapshot /\ sources = [s \in AdSources |-> 0]
    /\ allowed = TRUE /\ accesses = {}
    /\ updater = NoUpdate
    /\ conns = [c \in AdConns |-> NewConn]
    /\ vouched = {}

UsOf(c) == stats[conns[c].us]
Become(c, at, life, permit) ==
    conns' = [conns EXCEPT ![c] = [at |-> at, life |-> life, source |-> @.source, us |-> @.us,
                                   permit |-> permit]]
Step(c, at) == Become(c, at, conns[c].life, conns[c].permit)
Die(c, life) == Become(c, conns[c].at, life, conns[c].permit)
Recount(i, bag, n, waiting) ==
    stats' = [stats EXCEPT ![i] = [ips |-> bag, connCount |-> n, pending |-> waiting]]
Add(bag, s) == [bag EXCEPT ![s] = @ + 1]
Drop(bag, s) == [bag EXCEPT ![s] = IF @ > 0 THEN @ - 1 ELSE 0]

\* The end of a connection that was not let in; its goroutine returns.
Refused(c) == conns' = [conns EXCEPT ![c] = NewConn]

-----------------------------------------------------------------------------
(* RoutedConnection and RoutedPacketConnection                              *)

\* resolveUser.  A name that is gone (of a session authenticated earlier) is
\* refused on a relay entry and counted nowhere on other nodes.
ResolveUserName(c) ==
    /\ conns[c].at = "none"
    /\ listed
    /\ \E s \in AdSources :
          conns' = [conns EXCEPT ![c] = [at |-> "resolved", life |-> "none", source |-> s,
                                         us |-> entry, permit |-> "none"]]
    /\ UNCHANGED <<trackerVars, allowed, accesses, updater, vouched>>

\* admissionMu is held from the device check to the end of the connection check.
AdmissionFree(c) == \A d \in AdConns : conns[d].us = conns[c].us => conns[d].at # "checked"

Keys(u) == {s \in Countable : u.ips[s] > 0}

\* checkDeviceGate: the source is refused.
NoDeviceSlot(u, s) ==
    /\ ~gated /\ s \in Countable /\ s \notin Keys(u)
    /\ IF global = NoSnapshot THEN Cardinality(Keys(u)) >= DeviceLimit
       ELSE s \notin global /\ Cardinality(Keys(u) \cup global) >= DeviceLimit

\* Mutant: the check does not wait for admissionMu.
CheckDeviceUnlocked(c) ==
    /\ conns[c].at = "resolved"
    /\ \/ /\ NoDeviceSlot(UsOf(c), conns[c].source)
          /\ Refused(c) /\ UNCHANGED vouched
       \/ /\ ~NoDeviceSlot(UsOf(c), conns[c].source)
          /\ Step(c, "checked")
          /\ vouched' = IF global # NoSnapshot /\ conns[c].source \in global
                        THEN vouched \cup {conns[c].source} ELSE vouched
    /\ UNCHANGED <<trackerVars, allowed, accesses, updater>>

CheckDeviceGate(c) == AdmissionFree(c) /\ CheckDeviceUnlocked(c)

\* checkConnGate under us.mu: the check and the count are one step.  The
\* token of AllowNewConn may be missing.
CheckConnGate(c) ==
    LET i == conns[c].us IN
    /\ conns[c].at = "checked"
    /\ \/ Refused(c) /\ UNCHANGED stats
       \/ /\ UsOf(c).connCount + UsOf(c).pending < connLimit
          /\ IF gated
             THEN /\ Recount(i, UsOf(c).ips, UsOf(c).connCount, UsOf(c).pending + 1)
                  /\ Step(c, "acquiring")
             ELSE /\ Recount(i, Add(UsOf(c).ips, conns[c].source), UsOf(c).connCount + 1,
                             UsOf(c).pending)
                  /\ Step(c, "counted")
    /\ UNCHANGED <<gated, relayEntry, connLimit, listed, entry, global, sources,
                   allowed, accesses, updater, vouched>>

\* acquireDevice up to the answer of the gate (external), which may deny.
GateAcquire(c) ==
    /\ conns[c].at = "acquiring"
    /\ \/ Become(c, "granted", conns[c].life, "held")
       \/ Step(c, "denied")
    /\ UNCHANGED <<trackerVars, allowed, accesses, updater, vouched>>

\* The gate revokes the permit; a bound callback closes the connection.
GateRevoke(c) ==
    /\ conns[c].permit = "held"
    /\ IF conns[c].at = "open" /\ conns[c].life = "open"
       THEN Become(c, "open", "closing", "revoked")
       ELSE Become(c, conns[c].at, conns[c].life, "revoked")
    /\ UNCHANGED <<trackerVars, allowed, accesses, updater, vouched>>

\* Is the user still the one the connection was counted for?
Revalidate(c) ==
    /\ conns[c].at = "granted"
    /\ IF entry = conns[c].us THEN Step(c, "valid")
       ELSE Become(c, "denied", conns[c].life, "none")
    /\ UNCHANGED <<trackerVars, allowed, accesses, updater, vouched>>

\* The rest of acquireDevice: the waiting connection becomes a counted one.
Settle(c) ==
    LET i == conns[c].us IN
    /\ \/ /\ conns[c].at = "valid"
          /\ Recount(i, Add(UsOf(c).ips, conns[c].source), UsOf(c).connCount + 1,
                     UsOf(c).pending - 1)
          /\ Step(c, "counted")
       \/ /\ conns[c].at = "denied"
          /\ Recount(i, UsOf(c).ips, UsOf(c).connCount, UsOf(c).pending - 1)
          /\ Refused(c)
    /\ UNCHANGED <<gated, relayEntry, connLimit, listed, entry, global, sources,
                   allowed, accesses, updater, vouched>>

\* trackRelaySource and connMap.
TrackSource(c) ==
    /\ conns[c].at = "counted"
    /\ sources' = IF relayEntry THEN Add(sources, conns[c].source) ELSE sources
    /\ Become(c, "tracked", "open", conns[c].permit)
    /\ UNCHANGED <<gated, relayEntry, connLimit, listed, stats, entry, global,
                   allowed, accesses, updater, vouched>>

\* RelayAccess.Register: refused, the wrapped connection is closed.
RegisterAccess(c) ==
    /\ conns[c].at = "tracked"
    /\ IF relayEntry /\ ~allowed THEN Become(c, "registered", "closing", conns[c].permit)
       ELSE Step(c, "registered")
    /\ accesses' = IF relayEntry /\ allowed THEN accesses \cup {c} ELSE accesses
    /\ UNCHANGED <<trackerVars, allowed, updater, vouched>>

\* permit.Bind: a permit that is gone by now closes at once.
BindPermit(c) ==
    /\ conns[c].at = "registered"
    /\ IF conns[c].life = "open" /\ conns[c].permit = "revoked"
       THEN Become(c, "open", "closing", "revoked") ELSE Step(c, "open")
    /\ UNCHANGED <<trackerVars, allowed, accesses, updater, vouched>>

-----------------------------------------------------------------------------
(* Close of trackedConn and trackedPacketConn.  Several callers may come;   *)
(* closed.CompareAndSwap lets the first one through.                        *)

\* The core closes the connection that RoutedConnection returned to it.
CoreCloses(c) ==
    /\ conns[c].at = "open" /\ conns[c].life = "open"
    /\ Die(c, "closing")
    /\ UNCHANGED <<trackerVars, allowed, accesses, updater, vouched>>

\* userStats.removeConn.
RemoveConn(c) ==
    LET i == conns[c].us IN
    /\ conns[c].life = "closing"
    /\ Recount(i, Drop(UsOf(c).ips, conns[c].source), UsOf(c).connCount - 1, UsOf(c).pending)
    /\ Die(c, "uncounted")
    /\ UNCHANGED <<gated, relayEntry, connLimit, listed, entry, global, sources,
                   allowed, accesses, updater, vouched>>

\* relaySource and removeConnRef.
RemoveConnRef(c) ==
    /\ conns[c].life = "uncounted"
    /\ sources' = IF relayEntry THEN Drop(sources, conns[c].source) ELSE sources
    /\ accesses' = accesses \ {c}
    /\ Die(c, "unreferenced")
    /\ UNCHANGED <<gated, relayEntry, connLimit, listed, stats, entry, global,
                   allowed, updater, vouched>>

\* Conn.Close and permit.Release; the goroutine that admits it is done too.
CloseConn(c) ==
    /\ conns[c].life = "unreferenced" /\ conns[c].at = "open"
    /\ Refused(c)
    /\ UNCHANGED <<trackerVars, allowed, accesses, updater, vouched>>

-----------------------------------------------------------------------------
(* The kernel and the panel                                                 *)

\* replaceNodeUsers: the maps under usersMu.
ReplaceUsers ==
    /\ updater = NoUpdate
    /\ listed' = ~listed
    /\ IF listed' /\ entry = 0
       THEN /\ Len(stats) < MaxStats
            /\ stats' = Append(stats, NewStats) /\ entry' = Len(stats')
       ELSE UNCHANGED <<stats, entry>>
    /\ updater' = [at |-> "maps", close |-> {}]
    /\ UNCHANGED <<gated, relayEntry, connLimit, global, sources, allowed, accesses, conns,
                   vouched>>

\* RelayAccess.Replace: what is no longer allowed is taken out under the lock
\* and closed after it.  Without a relay allowed is nil.
ReplaceAllowed ==
    /\ updater.at = "maps"
    /\ allowed' = listed
    /\ updater' = [at |-> "close", close |-> IF listed THEN {} ELSE accesses]
    /\ accesses' = IF listed THEN accesses ELSE {}
    /\ UNCHANGED <<trackerVars, conns, vouched>>

CloseDisallowed ==
    /\ updater.at = "close"
    /\ updater' = NoUpdate
    /\ conns' = [c \in AdConns |->
          IF c \in updater.close /\ conns[c].life = "open"
          THEN [conns[c] EXCEPT !.life = "closing"] ELSE conns[c]]
    /\ UNCHANGED <<trackerVars, allowed, accesses, vouched>>

\* RetireTraffic gives up the userStats of a user that is gone and idle.
RetireStats ==
    /\ updater = NoUpdate /\ ~listed /\ entry # 0
    /\ stats[entry].connCount = 0 /\ stats[entry].pending = 0
    /\ entry' = 0
    /\ UNCHANGED <<gated, relayEntry, connLimit, listed, stats, global, sources,
                   allowed, accesses, updater, conns, vouched>>

\* UpdateGlobalDevices; ClearGlobalDevices or globalDeviceStateTTL end it.
UpdateGlobalDevices ==
    /\ ~gated
    /\ global' \in Snapshots \cup {NoSnapshot} /\ global' # global
    /\ UNCHANGED <<gated, relayEntry, connLimit, listed, stats, entry, sources,
                   allowed, accesses, updater, conns, vouched>>

SbAdmissionNext ==
    \/ \E c \in AdConns :
          \/ ResolveUserName(c) \/ CheckDeviceGate(c) \/ CheckConnGate(c)
          \/ GateAcquire(c) \/ GateRevoke(c) \/ Revalidate(c) \/ Settle(c)
          \/ TrackSource(c) \/ RegisterAccess(c) \/ BindPermit(c)
          \/ CoreCloses(c) \/ RemoveConn(c) \/ RemoveConnRef(c) \/ CloseConn(c)
    \/ ReplaceUsers \/ ReplaceAllowed \/ CloseDisallowed
    \/ RetireStats \/ UpdateGlobalDevices

SbAdmissionSpec == SbAdmissionInit /\ [][SbAdmissionNext]_sbAdmissionVars

-----------------------------------------------------------------------------
InStats(c) == conns[c].at = "counted" \/ conns[c].life \in {"open", "closing"}
Waiting(c) == conns[c].at \in {"acquiring", "granted", "valid", "denied"}

\* The limits hold and nothing is lost, however admission, closing and
\* revocation interleave: per userStats the counts are those of the
\* connections, waiting and open ones together stay within the limit, and
\* with the gate that is so for the user as a whole; without the gate the
\* sources the node lets in on its own stay within the device limit; every
\* open connection of a gated node has its permit or is being closed for it;
\* and once a list without the line is in force no registered connection of
\* the line stays open.
SbAdmissionHolds ==
    /\ \A i \in DOMAIN stats :
          LET mine == {c \in AdConns : conns[c].us = i} IN
          /\ stats[i].connCount = Cardinality({c \in mine : InStats(c)})
          /\ stats[i].pending = Cardinality({c \in mine : Waiting(c)})
          /\ stats[i].connCount + stats[i].pending <= connLimit
          /\ \A s \in AdSources : stats[i].ips[s] =
                Cardinality({c \in mine : InStats(c) /\ conns[c].source = s})
          /\ ~gated => Cardinality(Keys(stats[i]) \ vouched) <= DeviceLimit
    /\ gated => Cardinality({c \in AdConns : InStats(c)}) <= connLimit
    /\ \A s \in AdSources : sources[s] = IF ~relayEntry THEN 0 ELSE Cardinality(
          {c \in AdConns : conns[c].life \in {"open", "closing", "uncounted"}
                           /\ conns[c].source = s})
    /\ \A c \in AdConns : gated /\ conns[c].at = "open" /\ conns[c].life = "open"
          => conns[c].permit = "held"
    /\ relayEntry /\ updater = NoUpdate /\ ~allowed =>
          \A c \in AdConns : ~(conns[c].at \in {"registered", "open"} /\ conns[c].life = "open")

-----------------------------------------------------------------------------
(***************************************************************************)
(* Types.  Counts are int32 in the code; that they are not negative is     *)
(* part of SbAdmissionHolds.                                               *)
(***************************************************************************)
BeforeCounted == {"none", "resolved", "checked", "acquiring", "granted", "valid", "denied"}
Listened == {"registered", "open"}
UserStats == [ips : [AdSources -> Int], connCount : Int, pending : Int]
TrackedConns ==
    [at : BeforeCounted \cup {"counted", "tracked"} \cup Listened,
     life : {"none", "open", "closing", "uncounted", "unreferenced"},
     source : AdSources, us : Nat, permit : {"none", "held", "revoked"}]

SbAdmissionTypeOK ==
    /\ gated \in BOOLEAN /\ relayEntry \in BOOLEAN /\ connLimit \in ConnLimits
    /\ listed \in BOOLEAN /\ stats \in Seq(UserStats) /\ entry \in 0..Len(stats)
    /\ global \in Snapshots \cup {NoSnapshot} /\ sources \in [AdSources -> Int]
    /\ allowed \in BOOLEAN /\ accesses \subseteq AdConns
    /\ updater \in [at : {"idle", "maps", "close"}, close : SUBSET AdConns]
    /\ conns \in [AdConns -> TrackedConns] /\ vouched \subseteq AdSources

(***************************************************************************)
(* The inductive invariant behind SbAdmissionHolds.                        *)
(***************************************************************************)
\* Only the goroutine of a connection moves it; until it is tracked nobody
\* else can close it.
ConnPhases ==
    \A c \in AdConns :
      /\ conns[c].at # "none" => conns[c].us \in 1..Len(stats)
      /\ conns[c].at \in BeforeCounted \cup {"counted"} <=> conns[c].life = "none"
      /\ conns[c].at = "tracked" => conns[c].life = "open"
      /\ Waiting(c) => gated
      /\ gated /\ conns[c].at \in {"granted", "valid", "counted", "tracked", "registered"}
            => conns[c].permit # "none"
      /\ conns[c].at \in {"none", "resolved", "checked", "acquiring"}
            => conns[c].permit = "none"

\* A user that is listed has its userStats.
ListedInUse == listed => entry # 0

\* admissionMu.
OneCheck ==
    \A c, d \in AdConns :
       conns[c].at = "checked" /\ conns[d].at = "checked" /\ conns[c].us = conns[d].us => c = d

\* With the gate nothing is counted for a userStats that was given up.
CountedInEntry ==
    gated => \A c \in AdConns : InStats(c) \/ conns[c].at = "valid" => conns[c].us = entry

\* A source that has passed the device check finds its place.
RoomIsKept ==
    ~gated => \A c \in AdConns :
        conns[c].at = "checked" /\ conns[c].source \in Countable =>
           Cardinality((Keys(UsOf(c)) \cup {conns[c].source}) \ vouched) <= DeviceLimit

\* Who is registered while the line is taken away will be closed: a
\* connection that is open is in accesses or with whoever emptied them.
ClosersKnow ==
    /\ ~allowed => accesses = {}
    /\ updater.at # "close" => updater.close = {}
    /\ updater.close # {} => ~listed
    /\ \A c \in accesses : conns[c].at \in Listened /\ conns[c].life # "unreferenced"
    /\ \A c \in updater.close : conns[c].at \in Listened \cup {"none"}
    /\ relayEntry => \A c \in AdConns :
          conns[c].at \in Listened /\ conns[c].life = "open" =>
              c \in accesses \cup updater.close

SbAdmissionInv ==
    /\ ConnPhases /\ ListedInUse /\ OneCheck /\ CountedInEntry /\ RoomIsKept /\ ClosersKnow
    /\ SbAdmissionHolds
=============================================================================
