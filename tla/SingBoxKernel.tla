--------------------------- MODULE SingBoxKernel ----------------------------
(***************************************************************************)
(* The sing-box kernel (singbox.go, relay_users.go): start, reload, stop   *)
(* and the replacement of the users of a running box, each with the steps  *)
(* that can fail, while clients connect and send requests.  On a relay     *)
(* entry every identity (a user on a line) has a routing rule that leads   *)
(* to its landing node; a request no rule matches leaves by the default    *)
(* outbound.  The router first matches a request and then asks the         *)
(* tracker, so both lists must fit together at every moment of a change.   *)
(*                                                                         *)
(* A list of users is the set of its identities.  setNodeUsers is one step *)
(* here (SingBoxAdmission has its parts).                                  *)
(***************************************************************************)
EXTENDS Naturals, FiniteSets

CONSTANTS
    Identities,  \* relayUserName of the users and lines
    KReqs,       \* requests
    Trusts       \* settings of proxyTrust that configurations have

VARIABLES
    kRelay,       \* the node is a relay entry
        \* the box
    box,          \* none, up, or closing: its inbounds are closed
    inboundUsers, \* identities the inbounds accept
    ruleUsers,    \* identities with a routing rule
    trackerUsers, \* identities the tracker lets through
    proxyTrust,   \* prefixes of proxyTrust, shared with the inbounds
    wgRunning,    \* systemWG
        \* the kernel's books
    kUsers, kTrust,
    job,          \* the call that holds s.mu
        \* clients
    sessions,     \* identities with an authenticated session
    requests

boxVars == <<box, inboundUsers, ruleUsers, trackerUsers, wgRunning>>
books == <<kUsers, kTrust>>
sessionVars == <<sessions, requests>>
sbKernelVars == <<kRelay, boxVars, proxyTrust, books, job, sessionVars>>

NoJob == [at |-> "idle"]
NoRequest == [at |-> "none"]

SbKernelInit ==
    /\ kRelay \in BOOLEAN
    /\ box = "none" /\ inboundUsers = {} /\ ruleUsers = {} /\ trackerUsers = {}
    /\ proxyTrust = "none" /\ wgRunning = FALSE
    /\ kUsers = {} /\ kTrust = "none" /\ job = NoJob
    /\ sessions = {} /\ requests = [r \in KReqs |-> NoRequest]

To(at) == job' = [job EXCEPT !.at = at]
Return == job' = NoJob

\* setNodeUsers on the tracker of the box: RelayAccess closes what is gone.
SetNodeUsers(ids) ==
    /\ trackerUsers' = ids
    /\ requests' = [r \in KReqs |->
          IF kRelay /\ requests[r].at = "open" /\ requests[r].id \notin ids
          THEN NoRequest ELSE requests[r]]

-----------------------------------------------------------------------------
(* Start: startLocked                                                       *)

\* Up to the new trust: validateRelay, buildConfig, Prepare and
\* directOutboundContext may fail, and nothing has changed then.
StartLocked(ids, trust) ==
    /\ job' = [at |-> "create", ids |-> ids, trust |-> trust, old |-> proxyTrust]
    /\ proxyTrust' = trust
    /\ UNCHANGED <<kRelay, boxVars, books, sessionVars>>

Start ==
    /\ job = NoJob
    /\ \E ids \in SUBSET Identities, trust \in Trusts : StartLocked(ids, trust)

\* The deferred functions of a start that fails.
RestoreTrust == proxyTrust' = job.old

\* The options cannot be parsed or box.New fails.
CreateFails ==
    /\ job.at = "create"
    /\ RestoreTrust /\ Return
    /\ UNCHANGED <<kRelay, boxVars, books, sessionVars>>

\* The new box and its tracker are ready: the old box stops.
Created ==
    /\ job.at = "create"
    /\ IF box = "none" THEN To("start") /\ UNCHANGED <<box, inboundUsers>>
       ELSE To("drain") /\ box' = "closing" /\ inboundUsers' = {}
    /\ UNCHANGED <<kRelay, ruleUsers, trackerUsers, proxyTrust, wgRunning, books, sessionVars>>

\* stopImmediately after its inbounds are closed: the drain ends with the last
\* connection, after drainTimeout or at once, and the box goes.
BoxGone ==
    /\ box' = "none" /\ inboundUsers' = {} /\ ruleUsers' = {} /\ trackerUsers' = {}
    /\ wgRunning' = FALSE /\ sessions' = {}
    /\ requests' = [r \in KReqs |-> NoRequest]

Drained ==
    /\ job.at = "drain" /\ To("start") /\ BoxGone
    /\ UNCHANGED <<kRelay, proxyTrust, books>>

\* instance.Start or wgRuntime.Start fails.
StartFails ==
    /\ job.at = "start"
    /\ RestoreTrust /\ Return
    /\ UNCHANGED <<kRelay, boxVars, books, sessionVars>>

Started ==
    /\ job.at = "start"
    /\ box' = "up" /\ wgRunning' = TRUE
    /\ inboundUsers' = job.ids /\ ruleUsers' = job.ids /\ trackerUsers' = job.ids
    /\ kUsers' = job.ids /\ kTrust' = job.trust
    /\ Return
    /\ UNCHANGED <<kRelay, proxyTrust, sessionVars>>

-----------------------------------------------------------------------------
(* Reload, Stop and StopNow                                                 *)

\* onlyRouteRulesChanged: the identities are part of the inbounds, so a hot
\* reload leaves them as they are.  UpdateRules is all or nothing.
Reload ==
    /\ job = NoJob /\ box = "up"
    /\ \E ids \in SUBSET Identities, trust \in Trusts :
          IF ids = kUsers /\ trust = kTrust
          THEN /\ ruleUsers' = ids /\ SetNodeUsers(ids)
               /\ UNCHANGED <<kRelay, box, inboundUsers, wgRunning, proxyTrust, books, job,
                              sessions>>
          ELSE StartLocked(ids, trust)

Stop ==
    /\ job = NoJob /\ box = "up"
    /\ box' = "closing" /\ inboundUsers' = {}
    /\ job' = [at |-> "stopping"]
    /\ UNCHANGED <<kRelay, ruleUsers, trackerUsers, wgRunning, proxyTrust, books, sessionVars>>

Stopped ==
    /\ job.at = "stopping" /\ Return /\ BoxGone
    /\ UNCHANGED <<kRelay, proxyTrust, books>>

-----------------------------------------------------------------------------
(* AddUsers, RemoveUsers, UpdateUsers: reloadInboundsLocked                 *)

\* The new list; AddUsers and RemoveUsers merge it with the old one.  Nothing
\* has changed when it cannot be validated or built.
UpdateUsers ==
    /\ job = NoJob /\ box = "up"
    /\ \E ids \in SUBSET Identities \ {kUsers} :
          job' = [at |-> IF kRelay THEN "prepare" ELSE "inbounds", ids |-> ids]
    /\ UNCHANGED <<kRelay, boxVars, proxyTrust, books, sessionVars>>

\* updateInboundUsersLocked: of several inbounds the first ones may have the
\* new users when one fails.
InboundsFail(ids) ==
    /\ inboundUsers' \in {inboundUsers, inboundUsers \cup ids, ids}

\* A node without relay: the inbounds, then the tracker.
SwapInbounds ==
    /\ job.at = "inbounds"
    /\ \/ inboundUsers' = job.ids /\ To("tracker")
       \/ InboundsFail(job.ids) /\ Return
    /\ UNCHANGED <<kRelay, box, ruleUsers, trackerUsers, wgRunning, proxyTrust, books,
                   sessionVars>>

SwapTracker ==
    /\ job.at = "tracker"
    /\ SetNodeUsers(job.ids)
    /\ kUsers' = job.ids /\ Return
    /\ UNCHANGED <<kRelay, box, inboundUsers, ruleUsers, wgRunning, proxyTrust, kTrust,
                   sessions>>

\* reloadRelayUsersLocked: rules for the old and the new identities ...
PrepareRoutes ==
    /\ job.at = "prepare"
    /\ \/ ruleUsers' = kUsers \cup job.ids /\ To("combine")
       \/ Return /\ UNCHANGED ruleUsers
    /\ UNCHANGED <<kRelay, box, inboundUsers, trackerUsers, wgRunning, proxyTrust, books,
                   sessionVars>>

\* ... both lists in the tracker ...
CombineTracker ==
    /\ job.at = "combine"
    /\ SetNodeUsers(kUsers \cup job.ids) /\ To("authenticate")
    /\ UNCHANGED <<kRelay, box, inboundUsers, ruleUsers, wgRunning, proxyTrust, books,
                   sessions>>

\* ... the new users in the inbounds ...
Authenticate ==
    /\ job.at = "authenticate"
    /\ \/ inboundUsers' = job.ids /\ To("revoke")
       \/ InboundsFail(job.ids) /\ To("rollback")
    /\ UNCHANGED <<kRelay, box, ruleUsers, trackerUsers, wgRunning, proxyTrust, books,
                   sessionVars>>

\* Mutant: the old rules go before the old identities.
RevokeLater ==
    /\ job.at = "revoke"
    /\ ruleUsers' = job.ids /\ To("finish")
    /\ UNCHANGED <<kRelay, box, inboundUsers, trackerUsers, wgRunning, proxyTrust, books,
                   sessionVars>>

\* ... only the new list in the tracker ...
Revoke ==
    /\ job.at = "revoke"
    /\ SetNodeUsers(job.ids) /\ To("finish")
    /\ UNCHANGED <<kRelay, box, inboundUsers, ruleUsers, wgRunning, proxyTrust, books,
                   sessions>>

\* ... and at last the rules of the old identities go.
FinishRoutes ==
    /\ job.at = "finish"
    /\ \/ ruleUsers' = job.ids /\ kUsers' = job.ids /\ Return
       \/ To("rollback") /\ UNCHANGED <<ruleUsers, kUsers>>
    /\ UNCHANGED <<kRelay, box, inboundUsers, trackerUsers, wgRunning, proxyTrust, kTrust,
                   sessionVars>>

\* rollback: inbounds, rules, tracker; the box stops when one did not work.
RestoreInbounds ==
    /\ job.at = "rollback"
    /\ \/ inboundUsers' = kUsers /\ job' = [at |-> "routes", ok |-> TRUE]
       \/ InboundsFail(kUsers) /\ job' = [at |-> "routes", ok |-> FALSE]
    /\ UNCHANGED <<kRelay, box, ruleUsers, trackerUsers, wgRunning, proxyTrust, books,
                   sessionVars>>

RestoreRoutes ==
    /\ job.at = "routes"
    /\ \/ ruleUsers' = kUsers /\ job' = [at |-> "restore", ok |-> job.ok]
       \/ job' = [at |-> "restore", ok |-> FALSE] /\ UNCHANGED ruleUsers
    /\ UNCHANGED <<kRelay, box, inboundUsers, trackerUsers, wgRunning, proxyTrust, books,
                   sessionVars>>

RestoreTracker ==
    /\ job.at = "restore"
    /\ SetNodeUsers(kUsers)
    /\ IF job.ok THEN Return /\ UNCHANGED <<box, inboundUsers>>
       ELSE job' = [at |-> "stopping"] /\ box' = "closing" /\ inboundUsers' = {}
    /\ UNCHANGED <<kRelay, ruleUsers, wgRunning, proxyTrust, books, sessions>>

-----------------------------------------------------------------------------
(* Clients                                                                  *)

\* A session keeps the name it was authenticated with.
Authenticated ==
    /\ box = "up"
    /\ \E i \in inboundUsers \ sessions : sessions' = sessions \cup {i}
    /\ UNCHANGED <<kRelay, boxVars, proxyTrust, books, job, requests>>

\* The router (external) matches the rules.  allowed and rolling remember the
\* state of the tracker and of the kernel at that moment.
RouteRequest(r) ==
    /\ requests[r].at = "none"
    /\ \E i \in sessions : requests' = [requests EXCEPT ![r] =
          [at |-> "routed", id |-> i, ruled |-> i \in ruleUsers,
           allowed |-> i \in trackerUsers, rolling |-> job.at = "restore"]]
    /\ UNCHANGED <<kRelay, boxVars, proxyTrust, books, job, sessions>>

\* RoutedConnection: resolveUser and Register.
TrackRequest(r) ==
    /\ requests[r].at = "routed"
    /\ requests' = [requests EXCEPT ![r] = IF kRelay /\ @.id \notin trackerUsers
                                           THEN NoRequest ELSE [@ EXCEPT !.at = "open"]]
    /\ UNCHANGED <<kRelay, boxVars, proxyTrust, books, job, sessions>>

EndRequest(r) ==
    /\ requests[r].at = "open"
    /\ requests' = [requests EXCEPT ![r] = NoRequest]
    /\ UNCHANGED <<kRelay, boxVars, proxyTrust, books, job, sessions>>

SbKernelNext ==
    \/ Start \/ CreateFails \/ Created \/ Drained \/ StartFails \/ Started
    \/ Reload \/ Stop \/ Stopped
    \/ UpdateUsers \/ SwapInbounds \/ SwapTracker
    \/ PrepareRoutes \/ CombineTracker \/ Authenticate \/ Revoke \/ FinishRoutes
    \/ RestoreInbounds \/ RestoreRoutes \/ RestoreTracker
    \/ Authenticated
    \/ \E r \in KReqs : RouteRequest(r) \/ TrackRequest(r) \/ EndRequest(r)

SbKernelSpec == SbKernelInit /\ [][SbKernelNext]_sbKernelVars

-----------------------------------------------------------------------------
Open(r) == kRelay /\ requests[r].at = "open"

\* A request took the line of its identity.  Two kinds may not have: one the
\* tracker did not let through when it was matched, whose identity came back
\* before resolveUser looked (OldSessionsRefused), and one matched while a failed
\* update had put the old rules back and not yet the old tracker.
OnItsLine(r) == requests[r].ruled \/ ~requests[r].allowed \/ requests[r].rolling

\* Between calls a running box does what the books say (on a relay entry also
\* after a failed update: inbounds, rules and tracker have the users of the
\* books, or the box is stopped), with the trust of its configuration and its
\* tunnels.  At every moment of a change a request on a relay entry is open
\* only while the tracker lets its identity through, and took its line but for
\* the two cases of OnItsLine.
BoxMatchesBooks ==
    /\ job = NoJob /\ box # "none" =>
          /\ box = "up" /\ wgRunning /\ proxyTrust = kTrust
          /\ kRelay => /\ inboundUsers = kUsers /\ ruleUsers = kUsers
                       /\ trackerUsers = kUsers
    /\ \A r \in KReqs : Open(r) => requests[r].id \in trackerUsers /\ OnItsLine(r)

\* What relay.go:425 says of sessions that outlive their identity: a request of
\* a removed identity is refused and never leaves by the default outbound.
\* It does when the identity comes back between its match and resolveUser.
OldSessionsRefused ==
    \A r \in KReqs : Open(r) => requests[r].allowed \/ requests[r].ruled

-----------------------------------------------------------------------------
(* Types, and why it holds.                                                 *)

Starting == [at : {"create", "drain", "start"}, ids : SUBSET Identities, trust : Trusts,
             old : Trusts \cup {"none"}]
Updating == [at : {"inbounds", "tracker", "prepare", "combine", "authenticate", "revoke",
                   "finish", "rollback"}, ids : SUBSET Identities]
Restoring == [at : {"routes", "restore"}, ok : BOOLEAN]
Stopping == [at |-> "stopping"]
Routed == [at : {"routed", "open"}, id : Identities, ruled : BOOLEAN, allowed : BOOLEAN,
           rolling : BOOLEAN]

\* Type invariant.
SbKernelTypeOK ==
    /\ kRelay \in BOOLEAN /\ box \in {"none", "up", "closing"}
    /\ inboundUsers \subseteq Identities /\ ruleUsers \subseteq Identities
    /\ trackerUsers \subseteq Identities /\ wgRunning \in BOOLEAN
    /\ proxyTrust \in Trusts \cup {"none"} /\ kTrust \in Trusts \cup {"none"}
    /\ kUsers \subseteq Identities
    /\ job \in {NoJob, Stopping} \cup Starting \cup Updating \cup Restoring
    /\ sessions \subseteq Identities
    /\ requests \in [KReqs -> {NoRequest} \cup Routed]

\* The box fits the call, and has the trust and the tunnels of its start.
BoxFits ==
    /\ job.at \in {"idle", "create"} => box \in {"none", "up"}
    /\ job.at \in {"drain", "stopping"} => box = "closing"
    /\ job.at = "start" => box = "none"
    /\ job \in Updating \cup Restoring => box = "up"
    /\ job \in Updating => (kRelay <=> job.at \notin {"inbounds", "tracker"})
    /\ job \in Restoring => kRelay
    /\ job \in Starting => job.trust = proxyTrust
    /\ box = "up" => /\ wgRunning
                     /\ kTrust = IF job.at = "create" THEN job.old ELSE proxyTrust

\* The rules cover the tracker at every step but between the two steps of the
\* restoration, which ends with the users of the books.
ListsFit ==
    kRelay =>
        /\ job.at # "restore" => trackerUsers \subseteq ruleUsers
        /\ box = "up" /\ job.at \in {"idle", "create", "prepare"} =>
               inboundUsers = kUsers /\ ruleUsers = kUsers /\ trackerUsers = kUsers
        /\ job.at \in {"combine", "authenticate", "revoke", "finish", "rollback"} =>
               ruleUsers = kUsers \cup job.ids
        /\ job.at \in {"revoke", "finish"} => inboundUsers = job.ids
        /\ job.at = "finish" => trackerUsers = job.ids
        /\ job \in Restoring => kUsers \subseteq ruleUsers /\ (job.ok => inboundUsers = kUsers)
        /\ job.at = "restore" /\ job.ok => ruleUsers = kUsers

\* No box, no client; whoever is open is let through now, and whom the tracker
\* let through had a rule.
RequestsFit ==
    /\ box = "none" => sessions = {} /\ \A r \in KReqs : requests[r] = NoRequest
    /\ \A r \in KReqs : kRelay /\ requests[r] # NoRequest =>
          /\ requests[r].at = "open" => requests[r].id \in trackerUsers
          /\ OnItsLine(r)

SbKernelInv == BoxFits /\ ListsFit /\ RequestsFit
=============================================================================
