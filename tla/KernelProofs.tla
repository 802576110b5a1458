----------------------------- MODULE KernelProofs -----------------------------
(***************************************************************************)
(* Theorems about the kernels and what they are configured with: the lists *)
(* of users of sing-box (SingBoxKernel) and xray (XrayKernel) follow the   *)
(* books through updates that fail half-way, the two ends of a relay line  *)
(* agree (RelayLink), and the first rules of a plan cannot be overridden   *)
(* (RoutePlan).                                                            *)
(***************************************************************************)
EXTENDS SingBoxKernel, XrayKernel, RelayLink, RoutePlan, SequenceTheorems, TLAPS

-----------------------------------------------------------------------------
(* The box of sing-box and the lists of users in it.                        *)

\* A call is at one step, and the step says what kind of call it is.
LEMMA JobSteps ==
    ASSUME SbKernelTypeOK
    PROVE  /\ job = NoJob <=> job.at = "idle"
           /\ job = Stopping <=> job.at = "stopping"
           /\ job \in Starting <=> job.at \in {"create", "drain", "start"}
           /\ job \in Updating <=> job.at \in {"inbounds", "tracker", "prepare", "combine",
                                               "authenticate", "revoke", "finish", "rollback"}
           /\ job \in Restoring <=> job.at \in {"routes", "restore"}
    BY DEF SbKernelTypeOK, NoJob, Stopping, Starting, Updating, Restoring

\* No box, no call and no request.
LEMMA SbKernelStarts == SbKernelInit => SbKernelTypeOK /\ SbKernelInv
<1> SUFFICES ASSUME SbKernelInit PROVE SbKernelTypeOK /\ SbKernelInv
    OBVIOUS
<1>1. SbKernelTypeOK
    BY DEF SbKernelInit, SbKernelTypeOK
<1>2. job.at = "idle" /\ job \notin Updating \cup Restoring
    BY <1>1, JobSteps DEF SbKernelInit
<1>3. job \notin Starting
    BY <1>2 DEF Starting
<1> QED BY <1>1, <1>2, <1>3 DEF SbKernelInit, SbKernelInv, BoxFits, ListsFit, RequestsFit

\* Requests that are only closed stay as they should be when those who are
\* left open have the tracker on their side.
LEMMA RequestsClosed ==
    ASSUME SbKernelTypeOK, RequestsFit, UNCHANGED <<kRelay, sessions>>,
           box' = "none" => box = "none", NEW S,
           requests' = [r \in KReqs |-> IF r \in S THEN NoRequest ELSE requests[r]],
           \A r \in KReqs \ S : kRelay /\ requests[r].at = "open" =>
                                    requests[r].id \in trackerUsers'
    PROVE  requests' \in [KReqs -> {NoRequest} \cup Routed] /\ RequestsFit'
    BY DEF SbKernelTypeOK, RequestsFit, OnItsLine

\* SetNodeUsers: the tracker has the list and closes whom it does not have.
LEMMA TrackerSet ==
    ASSUME SbKernelTypeOK, RequestsFit, UNCHANGED <<kRelay, sessions>>,
           box' = "none" => box = "none", NEW ids \in SUBSET Identities, SetNodeUsers(ids)
    PROVE  /\ trackerUsers' = ids /\ requests' \in [KReqs -> {NoRequest} \cup Routed]
           /\ RequestsFit'
<1> DEFINE S == {r \in KReqs : kRelay /\ requests[r].at = "open" /\ requests[r].id \notin ids}
<1>1. trackerUsers' = ids
    BY DEF SetNodeUsers
<1>2. requests' = [r \in KReqs |-> IF r \in S THEN NoRequest ELSE requests[r]]
    BY DEF SetNodeUsers
<1>3. \A r \in KReqs \ S : kRelay /\ requests[r].at = "open" => requests[r].id \in trackerUsers'
    BY <1>1
<1> HIDE DEF S
<1> QED BY <1>1, <1>2, <1>3, RequestsClosed

\* A box that is gone takes its requests with it.
LEMMA BoxGoes ==
    ASSUME SbKernelTypeOK, RequestsFit, UNCHANGED kRelay, BoxGone
    PROVE  requests' \in [KReqs -> {NoRequest} \cup Routed] /\ RequestsFit'
    BY DEF BoxGone, RequestsFit

\* Nothing happens to the requests.
LEMMA RequestsSame ==
    ASSUME SbKernelTypeOK, RequestsFit, UNCHANGED <<kRelay, trackerUsers, sessions, requests>>,
           box' = "none" => box = "none"
    PROVE  requests' \in [KReqs -> {NoRequest} \cup Routed] /\ RequestsFit'
    BY DEF SbKernelTypeOK, RequestsFit, OnItsLine

\* A jump of a start, and of an update.
LEMMA StartSteps ==
    ASSUME SbKernelTypeOK, NEW at \in {"drain", "start"}, To(at), job.at \in {"create", "drain"}
    PROVE  /\ job' \in Starting /\ job'.at = at /\ job'.ids = job.ids
           /\ job'.trust = job.trust /\ job'.old = job.old
<1>1. job \in Starting
    BY JobSteps
<1> QED BY <1>1 DEF Starting, To

\* A jump of an update.
LEMMA UpdateSteps ==
    ASSUME SbKernelTypeOK, job \in Updating,
           NEW at \in {"tracker", "combine", "authenticate", "revoke", "finish", "rollback"}, To(at)
    PROVE  job' \in Updating /\ job'.at = at /\ job'.ids = job.ids
    BY DEF Updating, To

\* singbox.go Start, Reload: a start sets the trust first.
LEMMA StartKeeps ==
    ASSUME SbKernelTypeOK, SbKernelInv, NEW ids \in SUBSET Identities, NEW trust \in Trusts,
           job = NoJob, StartLocked(ids, trust)
    PROVE  SbKernelTypeOK' /\ SbKernelInv'
<1>1. /\ job' \in Starting /\ job'.at = "create" /\ job'.old = proxyTrust
      /\ proxyTrust' = trust /\ job'.trust = trust
      /\ UNCHANGED <<kRelay, box, inboundUsers, ruleUsers, trackerUsers, wgRunning, kUsers,
                     kTrust, sessions, requests>>
    BY DEF StartLocked, Starting, SbKernelTypeOK, boxVars, books, sessionVars
<1>2. SbKernelTypeOK'
    BY <1>1 DEF SbKernelTypeOK
<1>3. job' \notin Updating \cup Restoring /\ job.at = "idle"
    BY <1>1, <1>2, JobSteps DEF Starting, Updating, Restoring
<1>4. RequestsFit'
    BY <1>1, RequestsSame DEF SbKernelInv
<1> QED BY <1>1, <1>2, <1>3, <1>4 DEF SbKernelInv, BoxFits, ListsFit

\* The trust is put back, or nothing happens but the return of the call.
LEMMA FailsKeeps ==
    ASSUME SbKernelTypeOK, SbKernelInv, CreateFails \/ StartFails
    PROVE  SbKernelTypeOK' /\ SbKernelInv'
<1>1. /\ job.at \in {"create", "start"} /\ job' = NoJob /\ proxyTrust' = job.old
      /\ UNCHANGED <<kRelay, box, inboundUsers, ruleUsers, trackerUsers, wgRunning, kUsers,
                     kTrust, sessions, requests>>
    BY DEF CreateFails, StartFails, RestoreTrust, Return, boxVars, books, sessionVars
<1>2. job.old \in Trusts \cup {"none"}
    BY <1>1, JobSteps DEF Starting
<1>3. SbKernelTypeOK'
    BY <1>1, <1>2 DEF SbKernelTypeOK
<1>4. job'.at = "idle" /\ job' \notin Starting \cup Updating \cup Restoring
    BY <1>1 DEF NoJob, Starting, Updating, Restoring
<1>5. RequestsFit'
    BY <1>1, RequestsSame DEF SbKernelInv
<1> QED BY <1>1, <1>3, <1>4, <1>5 DEF SbKernelInv, BoxFits, ListsFit

\* The new box exists; the old one, if any, is closed first.
LEMMA CreatedKeeps ==
    ASSUME SbKernelTypeOK, SbKernelInv, Created
    PROVE  SbKernelTypeOK' /\ SbKernelInv'
<1>1. /\ job.at = "create"
      /\ UNCHANGED <<kRelay, ruleUsers, trackerUsers, proxyTrust, wgRunning, kUsers,
                     kTrust, sessions, requests>>
      /\ \/ box = "none" /\ To("start") /\ UNCHANGED <<box, inboundUsers>>
         \/ box # "none" /\ To("drain") /\ box' = "closing" /\ inboundUsers' = {}
    BY DEF Created, books, sessionVars
<1>2. job' \in Starting /\ job'.trust = job.trust /\ job \in Starting
      /\ job'.at = IF box = "none" THEN "start" ELSE "drain"
    BY <1>1, StartSteps, JobSteps
<1>3. SbKernelTypeOK'
    BY <1>1, <1>2 DEF SbKernelTypeOK
<1>4. job' \notin Updating \cup Restoring
    BY <1>2 DEF Starting, Updating, Restoring
<1>5. RequestsFit'
    BY <1>1, RequestsSame DEF SbKernelInv
<1> QED BY <1>1, <1>2, <1>3, <1>4, <1>5 DEF SbKernelInv, BoxFits, ListsFit

\* The old box is gone.
LEMMA GoneKeeps ==
    ASSUME SbKernelTypeOK, SbKernelInv, Drained \/ Stopped
    PROVE  SbKernelTypeOK' /\ SbKernelInv'
<1>1. /\ BoxGone /\ UNCHANGED <<kRelay, proxyTrust, kUsers, kTrust>>
      /\ \/ job.at = "drain" /\ To("start")
         \/ job' = NoJob
    BY DEF Drained, Stopped, Return, books
<1>2. \/ job' \in Starting /\ job'.at = "start" /\ job'.trust = job.trust /\ job \in Starting
      \/ job' = NoJob /\ job'.at = "idle"
    BY <1>1, StartSteps, JobSteps DEF NoJob
<1>3. /\ box' = "none" /\ inboundUsers' = {} /\ ruleUsers' = {} /\ trackerUsers' = {}
      /\ wgRunning' = FALSE /\ sessions' = {}
    BY <1>1 DEF BoxGone
<1>4. requests' \in [KReqs -> {NoRequest} \cup Routed] /\ RequestsFit'
    BY <1>1, BoxGoes DEF SbKernelInv
<1>5. SbKernelTypeOK'
    BY <1>1, <1>2, <1>3, <1>4 DEF SbKernelTypeOK
<1>6. job' \notin Updating \cup Restoring /\ (job' = NoJob => job' \notin Starting)
    BY <1>2 DEF NoJob, Starting, Updating, Restoring
<1> QED BY <1>1, <1>2, <1>3, <1>4, <1>5, <1>6 DEF SbKernelInv, BoxFits, ListsFit

\* The new box runs and gets its rules, its tracker and its books.
LEMMA StartedKeeps ==
    ASSUME SbKernelTypeOK, SbKernelInv, Started
    PROVE  SbKernelTypeOK' /\ SbKernelInv'
<1>1. /\ job.at = "start" /\ box' = "up" /\ wgRunning' = TRUE
      /\ inboundUsers' = job.ids /\ ruleUsers' = job.ids /\ trackerUsers' = job.ids
      /\ kUsers' = job.ids /\ kTrust' = job.trust /\ job' = NoJob
      /\ UNCHANGED <<kRelay, proxyTrust, sessions, requests>>
    BY DEF Started, Return, sessionVars
<1>2. job.ids \subseteq Identities /\ job.trust \in Trusts /\ job \in Starting
    BY <1>1, JobSteps DEF Starting
<1>3. SbKernelTypeOK'
    BY <1>1, <1>2 DEF SbKernelTypeOK
<1>4. job'.at = "idle" /\ job' \notin Starting \cup Updating \cup Restoring
    BY <1>1 DEF NoJob, Starting, Updating, Restoring
<1>5. RequestsFit'
    BY <1>1 DEF SbKernelInv, BoxFits, RequestsFit
<1> QED BY <1>1, <1>2, <1>3, <1>4, <1>5 DEF SbKernelInv, BoxFits, ListsFit

\* Rules, tracker and trust of a running box between calls.
LEMMA ReloadKeeps ==
    ASSUME SbKernelTypeOK, SbKernelInv, Reload
    PROVE  SbKernelTypeOK' /\ SbKernelInv'
<1>1. job = NoJob /\ box = "up" /\ job.at = "idle"
    BY JobSteps DEF Reload
<1>2. ASSUME NEW ids \in SUBSET Identities, NEW trust \in Trusts, StartLocked(ids, trust)
      PROVE  SbKernelTypeOK' /\ SbKernelInv'
    BY <1>1, <1>2, StartKeeps
<1>3. CASE /\ ruleUsers' = kUsers /\ SetNodeUsers(kUsers)
           /\ UNCHANGED <<kRelay, box, inboundUsers, wgRunning, proxyTrust, books, job, sessions>>
    <2>1. UNCHANGED <<kUsers, kTrust>>
        BY <1>3 DEF books
    <2>2. /\ trackerUsers' = kUsers /\ requests' \in [KReqs -> {NoRequest} \cup Routed]
          /\ RequestsFit'
        BY <1>3, TrackerSet DEF SbKernelTypeOK, SbKernelInv
    <2>3. SbKernelTypeOK'
        BY <1>3, <2>1, <2>2 DEF SbKernelTypeOK
    <2>4. BoxFits'
        BY <1>3, <2>1 DEF SbKernelInv, BoxFits
    <2>5. ListsFit'
        BY <1>1, <1>3, <2>1, <2>2, JobSteps DEF SbKernelInv, ListsFit
    <2> QED BY <2>2, <2>3, <2>4, <2>5 DEF SbKernelInv
<1> QED BY <1>2, <1>3 DEF Reload

\* The box begins to stop.
LEMMA StopKeeps ==
    ASSUME SbKernelTypeOK, SbKernelInv, Stop
    PROVE  SbKernelTypeOK' /\ SbKernelInv'
<1>1. /\ job = NoJob /\ box' = "closing" /\ inboundUsers' = {} /\ job' = Stopping
      /\ UNCHANGED <<kRelay, ruleUsers, trackerUsers, wgRunning, proxyTrust, kUsers, kTrust,
                     sessions, requests>>
    BY DEF Stop, Stopping, books, sessionVars
<1>2. SbKernelTypeOK'
    BY <1>1 DEF SbKernelTypeOK
<1>3. job.at = "idle" /\ job'.at = "stopping" /\ job' \notin Starting \cup Updating \cup Restoring
    BY <1>1 DEF NoJob, Stopping, Starting, Updating, Restoring
<1>4. RequestsFit'
    BY <1>1, RequestsSame DEF SbKernelInv
<1> QED BY <1>1, <1>2, <1>3, <1>4 DEF SbKernelInv, BoxFits, ListsFit

\* An update begins.
LEMMA UpdateUsersKeeps ==
    ASSUME SbKernelTypeOK, SbKernelInv, UpdateUsers
    PROVE  SbKernelTypeOK' /\ SbKernelInv'
<1>1. /\ job = NoJob /\ box = "up" /\ job.at = "idle"
      /\ UNCHANGED <<kRelay, box, inboundUsers, ruleUsers, trackerUsers, wgRunning, proxyTrust,
                     kUsers, kTrust, sessions, requests>>
    BY JobSteps DEF UpdateUsers, boxVars, books, sessionVars
<1>2. job' \in Updating /\ job'.at = IF kRelay THEN "prepare" ELSE "inbounds"
    BY DEF UpdateUsers, Updating
<1>3. SbKernelTypeOK'
    BY <1>1, <1>2 DEF SbKernelTypeOK
<1>4. job' \notin Starting \cup Restoring
    BY <1>2 DEF Updating, Starting, Restoring
<1>5. RequestsFit'
    BY <1>1, RequestsSame DEF SbKernelInv
<1> QED BY <1>1, <1>2, <1>3, <1>4, <1>5 DEF SbKernelInv, BoxFits, ListsFit

\* What an update leaves behind when it returns, on a node without relay.
LEMMA PlainUpdate ==
    ASSUME SbKernelTypeOK, SbKernelInv, SwapInbounds \/ SwapTracker
    PROVE  SbKernelTypeOK' /\ SbKernelInv'
<1>1. /\ job \in Updating /\ ~kRelay /\ box = "up" /\ kRelay' = kRelay
      /\ job.ids \subseteq Identities
    BY JobSteps DEF SwapInbounds, SwapTracker, SbKernelInv, BoxFits, Updating
<1>2. /\ UNCHANGED <<box, ruleUsers, wgRunning, proxyTrust, kTrust, sessions>>
      /\ inboundUsers' \subseteq Identities /\ kUsers' \subseteq Identities
    BY <1>1 DEF SwapInbounds, SwapTracker, InboundsFail, SbKernelTypeOK, books, sessionVars
<1>3. /\ trackerUsers' \subseteq Identities /\ requests' \in [KReqs -> {NoRequest} \cup Routed]
      /\ RequestsFit'
    <2>1. CASE SwapInbounds
        BY <1>1, <2>1, RequestsSame DEF SwapInbounds, SbKernelTypeOK, SbKernelInv, sessionVars
    <2>2. CASE SwapTracker
        BY <1>1, <2>2, TrackerSet DEF SwapTracker, SbKernelInv
    <2> QED BY <2>1, <2>2
<1>4. job' = NoJob \/ (job' \in Updating /\ job'.at = "tracker")
    <2>1. job' = NoJob \/ To("tracker")
        BY DEF SwapInbounds, SwapTracker, Return
    <2> QED BY <1>1, <2>1, UpdateSteps
<1>5. SbKernelTypeOK'
    BY <1>1, <1>2, <1>3, <1>4 DEF SbKernelTypeOK
<1>6. CASE job' = NoJob
    <2>1. job'.at = "idle" /\ job' \notin Starting \cup Updating \cup Restoring
        BY <1>6 DEF NoJob, Starting, Updating, Restoring
    <2> QED BY <1>1, <1>2, <1>3, <1>5, <2>1, JobSteps DEF SbKernelInv, BoxFits, ListsFit
<1>7. CASE job' \in Updating /\ job'.at = "tracker"
    <2>1. job' \notin Starting \cup Restoring
        BY <1>7 DEF Starting, Updating, Restoring
    <2> QED BY <1>1, <1>2, <1>3, <1>5, <1>7, <2>1, JobSteps DEF SbKernelInv, BoxFits, ListsFit
<1> QED BY <1>4, <1>6, <1>7

\* The steps of an update on a relay entry that lead to the next one.
LEMMA RelayUpdate ==
    ASSUME SbKernelTypeOK, SbKernelInv, job \in Updating, job' \in Updating,
           job'.at \in {"combine", "authenticate", "revoke", "finish", "rollback"},
           job'.ids = job.ids, kRelay,
           UNCHANGED <<kRelay, box, wgRunning, proxyTrust, kUsers, kTrust, sessions>>,
           inboundUsers' \subseteq Identities, ruleUsers' \subseteq Identities,
           trackerUsers' \subseteq Identities,
           requests' \in [KReqs -> {NoRequest} \cup Routed], RequestsFit',
           trackerUsers' \subseteq ruleUsers', ruleUsers' = kUsers \cup job.ids,
           job'.at \in {"revoke", "finish"} => inboundUsers' = job.ids,
           job'.at = "finish" => trackerUsers' = job.ids
    PROVE  SbKernelTypeOK' /\ SbKernelInv'
<1>1. SbKernelTypeOK'
    BY DEF SbKernelTypeOK
<1>2. job' \notin Starting \cup Restoring
    BY DEF Starting, Updating, Restoring
<1>3. box = "up" /\ job.at # "create"
    BY JobSteps DEF SbKernelInv, BoxFits
<1>4. BoxFits'
    BY <1>2, <1>3 DEF SbKernelInv, BoxFits
<1>5. ListsFit'
    BY <1>2 DEF ListsFit
<1> QED BY <1>1, <1>4, <1>5 DEF SbKernelInv

\* Of an update on a relay entry, what stays as it is.
LEMMA RelaySame ==
    ASSUME SbKernelTypeOK, SbKernelInv,
           PrepareRoutes \/ CombineTracker \/ Authenticate \/ Revoke \/ FinishRoutes
    PROVE  /\ job \in Updating /\ job.ids \subseteq Identities /\ kRelay /\ box = "up"
           /\ trackerUsers \subseteq ruleUsers
           /\ UNCHANGED <<kRelay, box, wgRunning, proxyTrust, kTrust, sessions>>
    BY JobSteps DEF PrepareRoutes, CombineTracker, Authenticate, Revoke, FinishRoutes, Updating,
       SbKernelInv, BoxFits, ListsFit, books, sessionVars

\* The update ends: with the list of the books, or nothing was changed.
LEMMA UpdateReturns ==
    ASSUME SbKernelTypeOK, SbKernelInv, job \in Updating, job' = NoJob, kRelay,
           UNCHANGED <<kRelay, box, trackerUsers, wgRunning, proxyTrust, kTrust, sessions,
                       requests>>,
           kUsers' \subseteq Identities,
           inboundUsers' = kUsers', ruleUsers' = kUsers', trackerUsers' = kUsers'
    PROVE  SbKernelTypeOK' /\ SbKernelInv'
<1>1. SbKernelTypeOK'
    BY DEF SbKernelTypeOK
<1>2. job'.at = "idle" /\ job' \notin Starting \cup Updating \cup Restoring
    BY DEF NoJob, Starting, Updating, Restoring
<1>3. RequestsFit'
    BY RequestsSame DEF SbKernelInv
<1>4. box = "up" /\ job.at # "create"
    BY JobSteps DEF SbKernelInv, BoxFits
<1> QED BY <1>1, <1>2, <1>3, <1>4 DEF SbKernelInv, BoxFits, ListsFit

\* The rules get both lists of users, or the update is refused.
LEMMA PrepareKeeps ==
    ASSUME SbKernelTypeOK, SbKernelInv, PrepareRoutes
    PROVE  SbKernelTypeOK' /\ SbKernelInv'
<1>1. /\ job.at = "prepare" /\ job \in Updating /\ job.ids \subseteq Identities /\ kRelay
      /\ UNCHANGED <<kRelay, box, inboundUsers, trackerUsers, wgRunning, proxyTrust, kUsers,
                     kTrust, sessions, requests>>
    BY RelaySame DEF PrepareRoutes, books, sessionVars
<1>2. inboundUsers = kUsers /\ ruleUsers = kUsers /\ trackerUsers = kUsers
    BY <1>1, RelaySame DEF SbKernelInv, ListsFit
<1>3. requests' \in [KReqs -> {NoRequest} \cup Routed] /\ RequestsFit'
    BY <1>1, RequestsSame DEF SbKernelInv
<1>4. CASE ruleUsers' = kUsers \cup job.ids /\ To("combine")
    <2>1. job' \in Updating /\ job'.at = "combine" /\ job'.ids = job.ids
        BY <1>1, <1>4, UpdateSteps
    <2> QED BY <1>1, <1>2, <1>3, <1>4, <2>1, RelayUpdate DEF SbKernelTypeOK
<1>5. CASE Return /\ UNCHANGED ruleUsers
    BY <1>1, <1>2, <1>5, UpdateReturns DEF Return, SbKernelTypeOK
<1> QED BY <1>4, <1>5 DEF PrepareRoutes

\* Both lists in the tracker, and later only the new one.
LEMMA TrackerKeeps ==
    ASSUME SbKernelTypeOK, SbKernelInv, CombineTracker \/ Revoke
    PROVE  SbKernelTypeOK' /\ SbKernelInv'
<1>1. /\ job \in Updating /\ job.ids \subseteq Identities /\ kRelay
      /\ job.at \in {"combine", "revoke"}
      /\ UNCHANGED <<kRelay, box, inboundUsers, ruleUsers, wgRunning, proxyTrust, kUsers,
                     kTrust, sessions>>
    BY RelaySame DEF CombineTracker, Revoke, books
<1>2. ruleUsers = kUsers \cup job.ids /\ (job.at = "revoke" => inboundUsers = job.ids)
    BY <1>1 DEF SbKernelInv, ListsFit
<1>3. ASSUME NEW ids \in SUBSET (kUsers \cup job.ids), SetNodeUsers(ids)
      PROVE  /\ trackerUsers' = ids /\ requests' \in [KReqs -> {NoRequest} \cup Routed]
             /\ RequestsFit' /\ ids \subseteq Identities
    <2>1. ids \in SUBSET Identities
        BY <1>1 DEF SbKernelTypeOK
    <2> QED BY <1>1, <1>3, <2>1, TrackerSet DEF SbKernelInv
<1>4. CASE CombineTracker
    <2>1. job' \in Updating /\ job'.at = "authenticate" /\ job'.ids = job.ids
        BY <1>1, <1>4, UpdateSteps DEF CombineTracker
    <2>2. SetNodeUsers(kUsers \cup job.ids)
        BY <1>4 DEF CombineTracker
    <2>3. /\ trackerUsers' = kUsers \cup job.ids
          /\ requests' \in [KReqs -> {NoRequest} \cup Routed]
          /\ RequestsFit' /\ trackerUsers' \subseteq Identities
        BY <1>3, <2>2
    <2> QED BY <1>1, <1>2, <2>1, <2>3, RelayUpdate DEF SbKernelTypeOK
<1>5. CASE Revoke
    <2>1. job' \in Updating /\ job'.at = "finish" /\ job'.ids = job.ids /\ job.at = "revoke"
        BY <1>1, <1>5, UpdateSteps DEF Revoke
    <2>2. SetNodeUsers(job.ids)
        BY <1>5 DEF Revoke
    <2>3. /\ trackerUsers' = job.ids /\ requests' \in [KReqs -> {NoRequest} \cup Routed]
          /\ RequestsFit' /\ trackerUsers' \subseteq Identities
        BY <1>3, <2>2
    <2> QED BY <1>1, <1>2, <2>1, <2>3, RelayUpdate DEF SbKernelTypeOK
<1> QED BY <1>4, <1>5

\* The inbounds get the new list, or the update is rolled back.
LEMMA AuthenticateKeeps ==
    ASSUME SbKernelTypeOK, SbKernelInv, Authenticate
    PROVE  SbKernelTypeOK' /\ SbKernelInv'
<1>1. /\ job.at = "authenticate" /\ job \in Updating /\ job.ids \subseteq Identities /\ kRelay
      /\ trackerUsers \subseteq ruleUsers
      /\ UNCHANGED <<kRelay, box, ruleUsers, trackerUsers, wgRunning, proxyTrust, kUsers,
                     kTrust, sessions, requests>>
    BY RelaySame DEF Authenticate, books, sessionVars
<1>2. ruleUsers = kUsers \cup job.ids
    BY <1>1 DEF SbKernelInv, ListsFit
<1>3. requests' \in [KReqs -> {NoRequest} \cup Routed] /\ RequestsFit'
    BY <1>1, RequestsSame DEF SbKernelInv
<1>4. \/ inboundUsers' = job.ids /\ To("revoke")
      \/ inboundUsers' \subseteq Identities /\ To("rollback")
    BY <1>1 DEF Authenticate, InboundsFail, SbKernelTypeOK
<1>5. /\ job' \in Updating /\ job'.ids = job.ids /\ inboundUsers' \subseteq Identities
      /\ \/ job'.at = "revoke" /\ inboundUsers' = job.ids
         \/ job'.at = "rollback"
    BY <1>1, <1>4, UpdateSteps
<1> QED BY <1>1, <1>2, <1>3, <1>5, RelayUpdate DEF SbKernelTypeOK

\* The rules are left with the new list, or the update is rolled back.
LEMMA FinishRoutesKeeps ==
    ASSUME SbKernelTypeOK, SbKernelInv, FinishRoutes
    PROVE  SbKernelTypeOK' /\ SbKernelInv'
<1>1. /\ job.at = "finish" /\ job \in Updating /\ job.ids \subseteq Identities /\ kRelay
      /\ trackerUsers \subseteq ruleUsers
      /\ UNCHANGED <<kRelay, box, inboundUsers, trackerUsers, wgRunning, proxyTrust, kTrust,
                     sessions, requests>>
    BY RelaySame DEF FinishRoutes, sessionVars
<1>2. /\ ruleUsers = kUsers \cup job.ids /\ inboundUsers = job.ids /\ trackerUsers = job.ids
    BY <1>1 DEF SbKernelInv, ListsFit
<1>3. CASE ruleUsers' = job.ids /\ kUsers' = job.ids /\ Return
    BY <1>1, <1>2, <1>3, UpdateReturns DEF Return
<1>4. CASE To("rollback") /\ UNCHANGED <<ruleUsers, kUsers>>
    <2>1. job' \in Updating /\ job'.at = "rollback" /\ job'.ids = job.ids
        BY <1>1, <1>4, UpdateSteps
    <2>2. requests' \in [KReqs -> {NoRequest} \cup Routed] /\ RequestsFit'
        BY <1>1, RequestsSame DEF SbKernelInv
    <2> QED BY <1>1, <1>2, <1>4, <2>1, <2>2, RelayUpdate DEF SbKernelTypeOK
<1> QED BY <1>3, <1>4 DEF FinishRoutes

\* The restoration, up to the tracker.
LEMMA RestoringGoes ==
    ASSUME SbKernelTypeOK, SbKernelInv, RestoreInbounds \/ RestoreRoutes
    PROVE  SbKernelTypeOK' /\ SbKernelInv'
<1>1. /\ job \in Updating \cup Restoring /\ kRelay /\ box = "up" /\ kUsers \subseteq ruleUsers
      /\ trackerUsers \subseteq ruleUsers /\ job.at # "create"
      /\ UNCHANGED <<kRelay, box, trackerUsers, wgRunning, proxyTrust, kUsers, kTrust, sessions,
                     requests>>
    BY JobSteps DEF RestoreInbounds, RestoreRoutes, SbKernelInv, BoxFits, ListsFit, books,
       sessionVars
<1>2. requests' \in [KReqs -> {NoRequest} \cup Routed] /\ RequestsFit'
    BY <1>1, RequestsSame DEF SbKernelInv
<1>3. /\ inboundUsers' \subseteq Identities /\ ruleUsers' \in {ruleUsers, kUsers}
      /\ job' \in Restoring /\ (job'.ok => inboundUsers' = kUsers)
      /\ IF job.at = "rollback" THEN job'.at = "routes" /\ ruleUsers' = ruleUsers
         ELSE job'.at = "restore" /\ (job'.ok => ruleUsers' = kUsers)
    <2>1. CASE RestoreInbounds
        <3>1. job.at = "rollback" /\ ruleUsers' = ruleUsers
            BY <2>1 DEF RestoreInbounds
        <3>2. inboundUsers' \subseteq Identities
            BY <2>1 DEF RestoreInbounds, InboundsFail, SbKernelTypeOK
        <3>3. \/ inboundUsers' = kUsers /\ job' = [at |-> "routes", ok |-> TRUE]
              \/ job' = [at |-> "routes", ok |-> FALSE]
            BY <2>1 DEF RestoreInbounds
        <3>4. PICK ok \in BOOLEAN : /\ job' = [at |-> "routes", ok |-> ok]
                                    /\ ok => inboundUsers' = kUsers
            BY <3>3, Zenon
        <3>5. job' \in Restoring
            BY <3>4, Zenon DEF Restoring
        <3>6. job'.at = "routes" /\ job'.ok = ok
            BY <3>4, Zenon
        <3>7. job'.ok => inboundUsers' = kUsers
            BY <3>4, <3>6, Zenon
        <3> QED BY <3>1, <3>2, <3>5, <3>6, <3>7
    <2>2. CASE RestoreRoutes
        <3>1. job.at = "routes" /\ inboundUsers' = inboundUsers
            BY <2>2 DEF RestoreRoutes
        <3>2. job \in Restoring /\ job.ok \in BOOLEAN
            BY <3>1, JobSteps DEF Restoring
        <3>3. job.ok => inboundUsers = kUsers
            BY <1>1, <3>2 DEF SbKernelInv, ListsFit
        <3>4. \/ ruleUsers' = kUsers /\ job' = [at |-> "restore", ok |-> job.ok]
              \/ ruleUsers' = ruleUsers /\ job' = [at |-> "restore", ok |-> FALSE]
            BY <2>2 DEF RestoreRoutes
        <3>5. PICK ok \in BOOLEAN : /\ job' = [at |-> "restore", ok |-> ok]
                                    /\ ok => job.ok /\ ruleUsers' = kUsers
            BY <3>2, <3>4, Zenon
        <3>6. job' \in Restoring
            BY <3>5, Zenon DEF Restoring
        <3>7. job'.at = "restore" /\ job'.ok = ok
            BY <3>5, Zenon
        <3>8. job'.ok => job.ok /\ ruleUsers' = kUsers
            BY <3>5, <3>7, Zenon
        <3>9. ruleUsers' \in {ruleUsers, kUsers}
            BY <3>4
        <3>10. inboundUsers' \subseteq Identities
            BY <3>1 DEF SbKernelTypeOK
        <3> QED BY <3>1, <3>3, <3>6, <3>7, <3>8, <3>9, <3>10
    <2> QED BY <2>1, <2>2
<1>4. SbKernelTypeOK'
    BY <1>1, <1>2, <1>3 DEF SbKernelTypeOK
<1>5. job' \notin Starting \cup Updating
    BY <1>3 DEF Starting, Updating, Restoring
<1>6. BoxFits'
    BY <1>1, <1>3, <1>5 DEF SbKernelInv, BoxFits
<1>7. ListsFit'
    BY <1>1, <1>3, <1>5 DEF ListsFit, Restoring
<1> QED BY <1>2, <1>4, <1>6, <1>7 DEF SbKernelInv

\* The last step of the restoration, or of its failure.
LEMMA RestoreTrackerKeeps ==
    ASSUME SbKernelTypeOK, SbKernelInv, RestoreTracker
    PROVE  SbKernelTypeOK' /\ SbKernelInv'
<1>1. /\ job.at = "restore" /\ job \in Restoring /\ kRelay /\ box = "up"
      /\ kUsers \subseteq ruleUsers /\ (job.ok => inboundUsers = kUsers /\ ruleUsers = kUsers)
      /\ UNCHANGED <<kRelay, ruleUsers, wgRunning, proxyTrust, kUsers, kTrust, sessions>>
    BY JobSteps DEF RestoreTracker, SbKernelInv, BoxFits, ListsFit, books
<1>2. /\ trackerUsers' = kUsers /\ requests' \in [KReqs -> {NoRequest} \cup Routed]
      /\ RequestsFit'
    BY <1>1, TrackerSet DEF RestoreTracker, SbKernelTypeOK, SbKernelInv
<1>3. CASE job.ok
    <2>1. job' = NoJob /\ UNCHANGED <<box, inboundUsers>>
        BY <1>3 DEF RestoreTracker, Return
    <2>2. job'.at = "idle" /\ job' \notin Starting \cup Updating \cup Restoring
        BY <2>1 DEF NoJob, Starting, Updating, Restoring
    <2>3. SbKernelTypeOK'
        BY <1>1, <1>2, <2>1 DEF SbKernelTypeOK
    <2> QED BY <1>1, <1>2, <1>3, <2>1, <2>2, <2>3 DEF SbKernelInv, BoxFits, ListsFit
<1>4. CASE ~job.ok
    <2>1. job' = Stopping /\ box' = "closing" /\ inboundUsers' = {}
        BY <1>4 DEF RestoreTracker, Stopping
    <2>2. job'.at = "stopping" /\ job' \notin Starting \cup Updating \cup Restoring
        BY <2>1 DEF Stopping, Starting, Updating, Restoring
    <2>3. SbKernelTypeOK'
        BY <1>1, <1>2, <2>1 DEF SbKernelTypeOK
    <2> QED BY <1>1, <1>2, <2>1, <2>2, <2>3 DEF SbKernelInv, BoxFits, ListsFit
<1> QED BY <1>3, <1>4

\* Clients: the box stays as it is.
LEMMA ClientsKeep ==
    ASSUME SbKernelTypeOK, SbKernelInv,
           UNCHANGED <<kRelay, boxVars, proxyTrust, books, job>>, sessions' \subseteq Identities,
           requests' \in [KReqs -> {NoRequest} \cup Routed], RequestsFit'
    PROVE  SbKernelTypeOK' /\ SbKernelInv'
<1>1. UNCHANGED <<kRelay, box, inboundUsers, ruleUsers, trackerUsers, wgRunning, proxyTrust,
                  kUsers, kTrust, job>>
    BY DEF boxVars, books
<1>2. SbKernelTypeOK'
    BY <1>1 DEF SbKernelTypeOK
<1>3. BoxFits' /\ ListsFit'
    BY <1>1 DEF SbKernelInv, BoxFits, ListsFit
<1> QED BY <1>2, <1>3 DEF SbKernelInv

\* The router matches a request of a session that is there.
LEMMA RoutedFits ==
    ASSUME SbKernelTypeOK, SbKernelInv, NEW i \in sessions,
           NEW q, q = [at |-> "routed", id |-> i, ruled |-> i \in ruleUsers,
                       allowed |-> i \in trackerUsers, rolling |-> job.at = "restore"]
    PROVE  /\ q \in Routed /\ q.at # "open" /\ box # "none"
           /\ kRelay => q.ruled \/ ~q.allowed \/ q.rolling
<1>1. i \in Identities
    BY DEF SbKernelTypeOK
<1>2. /\ (i \in ruleUsers) \in BOOLEAN /\ (i \in trackerUsers) \in BOOLEAN
      /\ (job.at = "restore") \in BOOLEAN
    OBVIOUS
<1>3. q \in Routed
    BY <1>1, <1>2, Zenon DEF Routed
<1>4. /\ q.ruled = (i \in ruleUsers) /\ q.allowed = (i \in trackerUsers)
      /\ q.rolling = (job.at = "restore") /\ q.at = "routed"
    BY Zenon
<1>5. kRelay /\ job.at # "restore" => trackerUsers \subseteq ruleUsers
    BY DEF SbKernelInv, ListsFit
<1>6. kRelay => q.ruled \/ ~q.allowed \/ q.rolling
    BY <1>4, <1>5, Zenon
<1>7. q.at # "open"
    BY <1>4
<1>8. box # "none"
    BY DEF SbKernelInv, RequestsFit
<1> QED BY <1>3, <1>6, <1>7, <1>8

\* A request is routed, tracked or ends.
LEMMA RequestKeeps ==
    ASSUME SbKernelTypeOK, SbKernelInv, NEW r \in KReqs,
           RouteRequest(r) \/ TrackRequest(r) \/ EndRequest(r)
    PROVE  SbKernelTypeOK' /\ SbKernelInv'
<1>1. UNCHANGED <<kRelay, boxVars, proxyTrust, books, job, sessions>>
    BY DEF RouteRequest, TrackRequest, EndRequest
<1>2. PICK q \in {NoRequest} \cup Routed :
          /\ requests' = [requests EXCEPT ![r] = q]
          /\ q # NoRequest =>
                /\ box # "none"
                /\ kRelay => /\ q.at = "open" => q.id \in trackerUsers
                             /\ q.ruled \/ ~q.allowed \/ q.rolling
    <2>1. CASE RouteRequest(r)
        <3>1. PICK i \in sessions : requests' = [requests EXCEPT ![r] =
                  [at |-> "routed", id |-> i, ruled |-> i \in ruleUsers,
                   allowed |-> i \in trackerUsers, rolling |-> job.at = "restore"]]
            BY <2>1 DEF RouteRequest
        <3> DEFINE q == [at |-> "routed", id |-> i, ruled |-> i \in ruleUsers,
                         allowed |-> i \in trackerUsers, rolling |-> job.at = "restore"]
        <3>2. requests' = [requests EXCEPT ![r] = q]
            BY <3>1
        <3>3. /\ q \in Routed /\ q.at # "open" /\ box # "none"
              /\ kRelay => q.ruled \/ ~q.allowed \/ q.rolling
            BY RoutedFits, Zenon
        <3> HIDE DEF q
        <3> QED BY <3>2, <3>3
    <2>2. CASE TrackRequest(r)
        <3> DEFINE q == [requests[r] EXCEPT !.at = "open"]
        <3>1. requests[r] \in Routed
            BY <2>2 DEF TrackRequest, SbKernelTypeOK, NoRequest
        <3>2. requests[r] # NoRequest
            BY <2>2 DEF TrackRequest, NoRequest
        <3>3. /\ q \in Routed /\ q.ruled = requests[r].ruled /\ q.allowed = requests[r].allowed
              /\ q.rolling = requests[r].rolling /\ q.id = requests[r].id
            BY <3>1 DEF Routed
        <3>4. \/ requests' = [requests EXCEPT ![r] = NoRequest]
              \/ /\ requests' = [requests EXCEPT ![r] = q]
                 /\ kRelay => q.id \in trackerUsers
            BY <2>2, <3>3 DEF TrackRequest
        <3>5. box # "none" /\ (kRelay => q.ruled \/ ~q.allowed \/ q.rolling)
            BY <3>2, <3>3 DEF SbKernelInv, RequestsFit, OnItsLine
        <3> HIDE DEF q
        <3> QED BY <3>3, <3>4, <3>5
    <2>3. CASE EndRequest(r)
        BY <2>3 DEF EndRequest
    <2> QED BY <2>1, <2>2, <2>3
<1>3. requests' \in [KReqs -> {NoRequest} \cup Routed]
    BY <1>2 DEF SbKernelTypeOK
<1>4. UNCHANGED <<kRelay, box, trackerUsers, sessions>>
    BY <1>1 DEF boxVars
<1>5. RequestsFit'
    BY <1>2, <1>4 DEF SbKernelTypeOK, SbKernelInv, RequestsFit, OnItsLine
<1>6. sessions' \subseteq Identities
    BY <1>1 DEF SbKernelTypeOK
<1> QED BY <1>1, <1>3, <1>5, <1>6, ClientsKeep

\* Every step keeps types and invariant.
LEMMA SbKernelStep ==
    ASSUME SbKernelTypeOK, SbKernelInv, [SbKernelNext]_sbKernelVars
    PROVE  SbKernelTypeOK' /\ SbKernelInv'
<1>1. CASE Start
    BY <1>1, StartKeeps DEF Start
<1>2. CASE CreateFails \/ StartFails \/ Created \/ Drained \/ Stopped \/ Started \/ Reload \/ Stop
    BY <1>2, FailsKeeps, CreatedKeeps, GoneKeeps, StartedKeeps, ReloadKeeps, StopKeeps
<1>3. CASE UpdateUsers \/ SwapInbounds \/ SwapTracker
    BY <1>3, UpdateUsersKeeps, PlainUpdate
<1>4. CASE PrepareRoutes \/ CombineTracker \/ Authenticate \/ Revoke \/ FinishRoutes
    BY <1>4, PrepareKeeps, TrackerKeeps, AuthenticateKeeps, FinishRoutesKeeps
<1>5. CASE RestoreInbounds \/ RestoreRoutes \/ RestoreTracker
    BY <1>5, RestoringGoes, RestoreTrackerKeeps
<1>6. CASE Authenticated \/ UNCHANGED sbKernelVars
    <2>1. /\ UNCHANGED <<kRelay, boxVars, proxyTrust, books, job, requests>>
          /\ sessions' \subseteq Identities /\ (box = "none" => sessions' = sessions)
        BY <1>6 DEF Authenticated, sbKernelVars, sessionVars, SbKernelTypeOK
    <2>2. UNCHANGED <<box, trackerUsers>>
        BY <2>1 DEF boxVars
    <2>3. requests' \in [KReqs -> {NoRequest} \cup Routed] /\ RequestsFit'
        BY <2>1, <2>2 DEF SbKernelTypeOK, SbKernelInv, RequestsFit, OnItsLine
    <2> QED BY <2>1, <2>3, ClientsKeep
<1>7. ASSUME NEW r \in KReqs, RouteRequest(r) \/ TrackRequest(r) \/ EndRequest(r)
      PROVE  SbKernelTypeOK' /\ SbKernelInv'
    BY <1>7, RequestKeeps
<1> QED BY <1>1, <1>2, <1>3, <1>4, <1>5, <1>6, <1>7 DEF SbKernelNext

\* Calls, lists, sessions and requests of the kernel keep their types.
THEOREM SbKernelTypesCorrect == SbKernelSpec => []SbKernelTypeOK
<1>1. SbKernelInit => SbKernelTypeOK /\ SbKernelInv
    BY SbKernelStarts
<1>2. SbKernelTypeOK /\ SbKernelInv /\ [SbKernelNext]_sbKernelVars
          => (SbKernelTypeOK /\ SbKernelInv)'
    BY SbKernelStep
<1> QED BY <1>1, <1>2, PTL DEF SbKernelSpec

\* The inductive invariant of start, reload, update and stop.
THEOREM SbKernelInvHolds == SbKernelSpec => []SbKernelInv
<1>1. SbKernelInit => SbKernelTypeOK /\ SbKernelInv
    BY SbKernelStarts
<1>2. SbKernelTypeOK /\ SbKernelInv /\ [SbKernelNext]_sbKernelVars
          => (SbKernelTypeOK /\ SbKernelInv)'
    BY SbKernelStep
<1> QED BY <1>1, <1>2, PTL DEF SbKernelSpec

\* singbox.go: between calls a running box does what the books say, and while
\* users are replaced a request on a relay entry is open only for an identity
\* the tracker lets through and took its line, but for an identity that came
\* back after the match and for the two steps of a restoration.
THEOREM BoxFollowsBooks == SbKernelSpec => []BoxMatchesBooks
<1>1. SbKernelTypeOK /\ SbKernelInv => BoxMatchesBooks
    <2> SUFFICES ASSUME SbKernelTypeOK, SbKernelInv PROVE BoxMatchesBooks
        OBVIOUS
    <2>1. job = NoJob => job.at = "idle"
        BY JobSteps
    <2>2. ASSUME NEW r \in KReqs, Open(r)
          PROVE  requests[r].id \in trackerUsers /\ OnItsLine(r)
        BY <2>2 DEF SbKernelInv, RequestsFit, Open, NoRequest
    <2>3. job = NoJob /\ box # "none" =>
              /\ box = "up" /\ wgRunning /\ proxyTrust = kTrust
              /\ kRelay => /\ inboundUsers = kUsers /\ ruleUsers = kUsers
                           /\ trackerUsers = kUsers
        BY <2>1 DEF SbKernelInv, BoxFits, ListsFit, SbKernelTypeOK
    <2> QED BY <2>2, <2>3 DEF BoxMatchesBooks
<1> QED BY <1>1, SbKernelTypesCorrect, SbKernelInvHolds, PTL

-----------------------------------------------------------------------------
(* The instances of xray, those that still drain and their users.           *)

\* The step a call is at says what kind of call it is.
LEMMA CallSteps ==
    ASSUME XKernelTypeOK
    PROVE  /\ call = NoCall <=> call.at = "idle"
           /\ call = StopCall <=> call.at = "stop"
           /\ call \in StartCalls <=> call.at \in {"start", "launch"}
           /\ call \in LimitCalls <=> call.at = "limits"
           /\ call \in UserCalls <=> call.at \in {"users", "failed"}
    BY DEF XKernelTypeOK, NoCall, StopCall, StartCalls, LimitCalls, UserCalls

\* A list of users is a set of pairs.
LEMMA ListTypes ==
    ASSUME NEW list \in UserLists
    PROVE  list \in SUBSET Pairs /\ IdsOf(list) \in SUBSET XUserIds
    BY DEF UserLists, Pairs, IdsOf

\* The dispatcher of a list of users.
LEMMA DispType ==
    ASSUME NEW list \in UserLists
    PROVE  [known |-> IdsOf(list), lines |-> IdsOf(list)]
               \in [known : SUBSET XUserIds, lines : SUBSET XUserIds]
    BY ListTypes

\* No instance and no call.
LEMMA XKernelStarts == XKernelInit => XKernelTypeOK /\ XKernelInv
<1> SUFFICES ASSUME XKernelInit PROVE XKernelTypeOK /\ XKernelInv
    OBVIOUS
<1>1. {} \in UserLists
    BY DEF UserLists
<1>2. PICK s \in Statics, r \in Rules : TRUE
    BY XKernelAssumption
<1>3. [static |-> s, rules |-> r] \in XConfigs
    BY DEF XConfigs
<1>4. SomeConfig \in XConfigs
    BY <1>3 DEF SomeConfig
<1>5. retired \in Seq(SUBSET XUserIds)
    BY DEF XKernelInit
<1>6. XKernelTypeOK
    BY <1>1, <1>4, <1>5 DEF XKernelInit, XKernelTypeOK
<1>7. call.at = "idle"
    BY <1>6, CallSteps DEF XKernelInit
<1> QED BY <1>6, <1>7 DEF XKernelInit, XKernelInv, InstanceMatches, StartFits, LimitsFit, UsersFit

\* A step that ends in a start, a stop or a call that is over without an instance.
LEMMA NothingToMatch ==
    ASSUME XKernelTypeOK', \/ call' = StopCall
                           \/ call' = NoCall /\ inst' = NoInst
                           \/ /\ call'.at \in {"start", "launch"}
                              /\ call'.users = wantUsers' /\ call'.config = wantConfig'
    PROVE  XKernelInv'
<1>1. CASE call' = StopCall
    <2>1. call'.at = "stop" /\ call' # NoCall
        BY <1>1 DEF StopCall, NoCall
    <2> QED BY <2>1 DEF XKernelInv, InstanceMatches, StartFits, LimitsFit, UsersFit
<1>2. CASE call' = NoCall /\ inst' = NoInst
    <2>1. call'.at = "idle"
        BY <1>2 DEF NoCall
    <2> QED BY <1>2, <2>1 DEF XKernelInv, InstanceMatches, StartFits, LimitsFit, UsersFit
<1>3. CASE /\ call'.at \in {"start", "launch"}
           /\ call'.users = wantUsers' /\ call'.config = wantConfig'
    <2>1. call' # NoCall
        BY <1>3 DEF NoCall
    <2> QED BY <1>3, <2>1 DEF XKernelInv, InstanceMatches, StartFits, LimitsFit, UsersFit
<1> QED BY <1>1, <1>2, <1>3

\* lifecycle.go: an instance that cannot be made leaves the old one.
LEMMA CreateKeeps ==
    ASSUME XKernelTypeOK, XKernelInv, CreateXrayFails
    PROVE  XKernelTypeOK' /\ XKernelInv'
<1>1. /\ call.at = "start" /\ call \in StartCalls
      /\ UNCHANGED <<hasManager, inst, disp, listening, retired, xUsers, xConfig, lastKernelHash,
                     wantUsers, wantConfig>>
    BY CallSteps DEF CreateXrayFails, instVars, xBooks, wishes
<1>2. call.users = wantUsers /\ call.config = wantConfig
    BY <1>1 DEF XKernelInv, StartFits
<1>3. \/ /\ call' \in StartCalls /\ call'.at = "start"
         /\ call'.users = wantUsers /\ call'.config = wantConfig
      \/ call' = StopCall
    BY <1>1, <1>2 DEF CreateXrayFails, StartCalls
<1>4. XKernelTypeOK'
    BY <1>1, <1>3 DEF XKernelTypeOK
<1> QED BY <1>1, <1>3, <1>4, NothingToMatch

\* The listeners of the old instance are closed.
LEMMA CloseKeeps ==
    ASSUME XKernelTypeOK, XKernelInv, CloseListeners
    PROVE  XKernelTypeOK' /\ XKernelInv'
<1>1. /\ call.at = "start" /\ call \in StartCalls /\ listening' = FALSE
      /\ UNCHANGED <<hasManager, inst, disp, retired, xUsers, xConfig, lastKernelHash,
                     wantUsers, wantConfig>>
    BY CallSteps DEF CloseListeners, xBooks, wishes
<1>2. call.users = wantUsers /\ call.config = wantConfig
    BY <1>1 DEF XKernelInv, StartFits
<1>3. /\ call' \in StartCalls /\ call'.at = "launch"
      /\ call'.users = wantUsers /\ call'.config = wantConfig
    BY <1>1, <1>2 DEF CloseListeners, Go, StartCalls
<1>4. XKernelTypeOK'
    BY <1>1, <1>3 DEF XKernelTypeOK
<1> QED BY <1>1, <1>3, <1>4, NothingToMatch

\* What is retired is a sequence of the lines dispatchers allow.
LEMMA RetireType ==
    ASSUME XKernelTypeOK, RetireCurrent
    PROVE  retired' \in Seq(SUBSET XUserIds)
<1>1. disp.lines \in SUBSET XUserIds /\ retired \in Seq(SUBSET XUserIds)
    BY DEF XKernelTypeOK
<1>2. Append(retired, disp.lines) \in Seq(SUBSET XUserIds)
    BY <1>1
<1> QED BY <1>1, <1>2 DEF RetireCurrent

\* An instance that does not start is not kept.
LEMMA LaunchFailsKeeps ==
    ASSUME XKernelTypeOK, XKernelInv, LaunchFails
    PROVE  XKernelTypeOK' /\ XKernelInv'
<1>1. /\ inst' = NoInst /\ call' = StopCall /\ disp' = [known |-> {}, lines |-> {}]
      /\ UNCHANGED <<hasManager, listening, xUsers, xConfig, lastKernelHash,
                     wantUsers, wantConfig>>
    BY DEF LaunchFails, xBooks, wishes
<1>2. retired' \in Seq(SUBSET XUserIds)
    BY RetireType DEF LaunchFails
<1>3. XKernelTypeOK'
    BY <1>1, <1>2 DEF XKernelTypeOK
<1> QED BY <1>1, <1>3, NothingToMatch

\* The new instance has what is wanted; the limits of lines follow.
LEMMA LaunchedKeeps ==
    ASSUME XKernelTypeOK, XKernelInv, Launched
    PROVE  XKernelTypeOK' /\ XKernelInv'
<1>1. call.at = "launch" /\ call \in StartCalls
    BY CallSteps DEF Launched
<1>2. call.users = wantUsers /\ call.config = wantConfig
    BY <1>1 DEF XKernelInv, StartFits
<1>3. /\ inst' = [users |-> wantUsers, config |-> wantConfig]
      /\ disp' = [known |-> IdsOf(wantUsers), lines |-> IdsOf(wantUsers)]
      /\ listening' = TRUE /\ xUsers' = wantUsers /\ xConfig' = wantConfig
      /\ lastKernelHash' = ComputeHash(wantConfig, wantUsers)
      /\ call' = [at |-> "limits", users |-> wantUsers, next |-> 0]
      /\ UNCHANGED <<hasManager, wantUsers, wantConfig>>
    BY <1>2 DEF Launched, wishes
<1>4. retired' \in Seq(SUBSET XUserIds)
    BY RetireType DEF Launched
<1>5. wantUsers \in UserLists /\ wantUsers \in SUBSET Pairs /\ wantConfig \in XConfigs
    BY ListTypes DEF XKernelTypeOK
<1>6. inst' \in Instances
    BY <1>3, <1>5 DEF Instances
<1>7. lastKernelHash' \in XConfigs \X UserLists
    BY <1>3, <1>5 DEF ComputeHash
<1>8. call' \in LimitCalls /\ call'.at = "limits" /\ call'.users = wantUsers /\ call'.next = 0
    BY <1>3, <1>5 DEF LimitCalls
<1>9. disp' \in [known : SUBSET XUserIds, lines : SUBSET XUserIds]
    BY <1>3, <1>5, DispType
<1>10. XKernelTypeOK'
    BY <1>3, <1>4, <1>5, <1>6, <1>7, <1>8, <1>9 DEF XKernelTypeOK
<1>11. LimitsFit'
    <2>1. \A i \in DOMAIN retired' : ~(i < 0)
        BY <1>4
    <2> QED BY <1>3, <1>8, <2>1 DEF LimitsFit
<1>12. call' # NoCall
    BY <1>8 DEF NoCall
<1> QED BY <1>8, <1>10, <1>11, <1>12 DEF XKernelInv, InstanceMatches, StartFits, UsersFit

\* The limits reach the dispatcher of the instance.
LEMMA LimitsCurrentKeeps ==
    ASSUME XKernelTypeOK, XKernelInv, LimitsCurrent
    PROVE  XKernelTypeOK' /\ XKernelInv'
<1>1. /\ call.at = "limits" /\ call \in LimitCalls
      /\ UNCHANGED <<hasManager, inst, listening, retired, xUsers, xConfig, lastKernelHash,
                     wantUsers, wantConfig>>
    BY CallSteps DEF LimitsCurrent, xBooks, wishes
<1>2. /\ call.users = wantUsers /\ listening
      /\ inst = [users |-> wantUsers, config |-> wantConfig]
      /\ xUsers = wantUsers /\ xConfig = wantConfig
      /\ lastKernelHash = ComputeHash(wantConfig, wantUsers)
    BY <1>1 DEF XKernelInv, LimitsFit
<1>3. inst # NoInst /\ wantUsers \in UserLists
    <2>1. wantUsers \in UserLists /\ wantUsers \in SUBSET Pairs /\ wantConfig \in XConfigs
        BY ListTypes DEF XKernelTypeOK
    <2>2. inst \in Instances
        BY <1>2, <2>1 DEF Instances
    <2> QED BY <2>1, <2>2, XKernelAssumption
<1>4. disp' = [known |-> IdsOf(wantUsers), lines |-> IdsOf(wantUsers)]
    BY <1>2, <1>3 DEF LimitsCurrent
<1>5. /\ call' \in LimitCalls /\ call'.at = "limits" /\ call'.users = wantUsers
      /\ call'.next = 1
    BY <1>1, <1>2 DEF LimitsCurrent, LimitCalls
<1>6. disp' \in [known : SUBSET XUserIds, lines : SUBSET XUserIds]
    BY <1>3, <1>4, DispType
<1>7. XKernelTypeOK'
    BY <1>1, <1>5, <1>6 DEF XKernelTypeOK
<1>8. LimitsFit'
    <2>1. \A i \in DOMAIN retired' : ~(i < 1)
        BY <1>1 DEF XKernelTypeOK
    <2> QED BY <1>1, <1>2, <1>4, <1>5, <2>1 DEF LimitsFit
<1>9. call' # NoCall
    BY <1>5 DEF NoCall
<1> QED BY <1>5, <1>7, <1>8, <1>9 DEF XKernelInv, InstanceMatches, StartFits, UsersFit

\* The limits reach the dispatchers that still drain, one after another.
LEMMA LimitsRetiredKeeps ==
    ASSUME XKernelTypeOK, XKernelInv, LimitsRetired
    PROVE  XKernelTypeOK' /\ XKernelInv'
<1>1. /\ call.at = "limits" /\ call \in LimitCalls /\ call.next > 0 /\ call.next \in Nat
      /\ UNCHANGED <<hasManager, inst, disp, listening, xUsers, xConfig, lastKernelHash,
                     wantUsers, wantConfig>>
    BY CallSteps DEF LimitsRetired, instVars, xBooks, wishes, LimitCalls
<1>2. /\ call.users = wantUsers /\ listening
      /\ inst = [users |-> wantUsers, config |-> wantConfig]
      /\ xUsers = wantUsers /\ xConfig = wantConfig
      /\ lastKernelHash = ComputeHash(wantConfig, wantUsers)
      /\ disp = [known |-> IdsOf(wantUsers), lines |-> IdsOf(wantUsers)]
      /\ \A i \in DOMAIN retired : i < call.next => retired[i] \subseteq IdsOf(wantUsers)
    BY <1>1 DEF XKernelInv, LimitsFit
<1>3. retired \in Seq(SUBSET XUserIds) /\ IdsOf(wantUsers) \in SUBSET XUserIds
    BY ListTypes DEF XKernelTypeOK
<1>4. CASE call.next <= Len(retired)
    <2>1. /\ retired' = [retired EXCEPT ![call.next] = IdsOf(wantUsers)]
          /\ call' = [call EXCEPT !.next = call.next + 1]
        BY <1>2, <1>4 DEF LimitsRetired
    <2>2. call.next \in DOMAIN retired
        BY <1>1, <1>3, <1>4
    <2>3. retired' \in Seq(SUBSET XUserIds) /\ DOMAIN retired' = DOMAIN retired
        BY <1>3, <2>1, <2>2
    <2>4. /\ call' \in LimitCalls /\ call'.at = "limits" /\ call'.users = wantUsers
          /\ call'.next = call.next + 1
        BY <1>1, <1>2, <2>1 DEF LimitCalls
    <2>5. XKernelTypeOK'
        BY <1>1, <2>3, <2>4 DEF XKernelTypeOK
    <2>6. ASSUME NEW i \in DOMAIN retired', i < call'.next
          PROVE  retired'[i] \subseteq IdsOf(wantUsers)
        <3>1. i \in DOMAIN retired /\ i \in Nat
            BY <1>3, <2>3
        <3>2. CASE i = call.next
            BY <1>3, <2>1, <2>2, <3>2
        <3>3. CASE i # call.next
            <4>1. i < call.next
                BY <1>1, <2>4, <2>6, <3>1, <3>3
            <4>2. retired'[i] = retired[i]
                BY <1>3, <2>1, <3>1, <3>3
            <4> QED BY <1>2, <3>1, <4>1, <4>2
        <3> QED BY <3>2, <3>3
    <2>7. LimitsFit'
        BY <1>1, <1>2, <2>4, <2>6 DEF LimitsFit
    <2>8. call' # NoCall
        BY <2>4 DEF NoCall
    <2> QED BY <2>4, <2>5, <2>7, <2>8 DEF XKernelInv, InstanceMatches, StartFits, UsersFit
<1>5. CASE ~(call.next <= Len(retired))
    <2>1. call' = NoCall /\ retired' = retired
        BY <1>5 DEF LimitsRetired, CallDone
    <2>2. call'.at = "idle"
        BY <2>1 DEF NoCall
    <2>3. XKernelTypeOK'
        BY <1>1, <2>1 DEF XKernelTypeOK
    <2>4. \A i \in DOMAIN retired : i < call.next
        BY <1>1, <1>3, <1>5
    <2>5. InstanceMatches'
        BY <1>1, <1>2, <2>1, <2>4 DEF InstanceMatches
    <2> QED BY <2>2, <2>3, <2>5 DEF XKernelInv, StartFits, LimitsFit, UsersFit
<1> QED BY <1>4, <1>5

\* One instance less: the others stay what they were.
LEMMA OneGone ==
    ASSUME NEW S, NEW s \in Seq(S), NEW i \in DOMAIN s
    PROVE  /\ Without(s, i) \in Seq(S)
           /\ \A j \in DOMAIN Without(s, i) : \E k \in DOMAIN s : Without(s, i)[j] = s[k]
<1> DEFINE a == SubSeq(s, 1, i - 1)
           b == SubSeq(s, i + 1, Len(s))
           t == Without(s, i)
<1>1. i \in 1..Len(s) /\ Len(s) \in Nat
    OBVIOUS
<1>2. a \in Seq(S) /\ Len(a) = i - 1
    BY <1>1
<1>3. \A j \in 1..(i - 1) : a[j] = s[j]
    BY <1>1
<1>4. b \in Seq(S) /\ Len(b) = Len(s) - i
    BY <1>1
<1>5. ASSUME NEW j \in 1..(Len(s) - i) PROVE b[j] = s[j + i]
    <2>1. \A k \in (i + 1)..Len(s) : s[k] \in S
        BY <1>1
    <2>2. i + 1 \in Int /\ Len(s) \in Int /\ j \in 1..(Len(s) - (i + 1) + 1)
        BY <1>1
    <2>3. b[j] = s[(i + 1) + j - 1]
        BY <2>1, <2>2, SubSeqProperties
    <2>4. (i + 1) + j - 1 = j + i
        BY <1>1
    <2> QED BY <2>3, <2>4, Zenon
<1>6. t = a \o b
    BY DEF Without
<1> HIDE DEF a, b, t
<1>7. /\ a \o b \in Seq(S) /\ Len(a \o b) = Len(a) + Len(b)
      /\ \A j \in 1..(Len(a) + Len(b)) :
             (a \o b)[j] = IF j <= Len(a) THEN a[j] ELSE b[j - Len(a)]
    BY ONLY <1>2, <1>4, ConcatProperties, Zenon
<1>8. DOMAIN t = 1..(Len(s) - 1) /\ Len(a) + Len(b) = Len(s) - 1
    BY <1>1, <1>2, <1>4, <1>6, <1>7, SMTT(20)
<1>9. \A j \in 1..(Len(s) - 1) : t[j] = IF j <= i - 1 THEN a[j] ELSE b[j - (i - 1)]
    BY <1>2, <1>6, <1>7, <1>8, Zenon
<1>10. ASSUME NEW j \in 1..(Len(s) - 1) PROVE \E k \in 1..Len(s) : t[j] = s[k]
    <2>1. CASE j <= i - 1
        <3>1. j \in 1..(i - 1) /\ j \in 1..Len(s)
            BY <1>1, <2>1
        <3> QED BY <1>3, <1>9, <2>1, <3>1
    <2>2. CASE ~(j <= i - 1)
        <3>1. /\ j - (i - 1) \in 1..(Len(s) - i) /\ (j - (i - 1)) + i \in 1..Len(s)
            BY <1>1, <2>2
        <3>2. t[j] = b[j - (i - 1)]
            BY <1>9, <2>2
        <3> QED BY <1>5, <3>1, <3>2, Zenon
    <2> QED BY <2>1, <2>2
<1>11. DOMAIN s = 1..Len(s)
    OBVIOUS
<1>12. t \in Seq(S) /\ \A j \in DOMAIN t : \E k \in DOMAIN s : t[j] = s[k]
    BY <1>6, <1>7, <1>8, <1>10, <1>11, Zenon
<1> QED BY <1>12 DEF t

\* An instance that drained is closed.
LEMMA RecycleKeeps ==
    ASSUME XKernelTypeOK, XKernelInv, RecycleOld
    PROVE  XKernelTypeOK' /\ XKernelInv'
<1>1. /\ call.at # "limits"
      /\ UNCHANGED <<hasManager, inst, disp, listening, xUsers, xConfig, lastKernelHash,
                     wantUsers, wantConfig, call>>
    BY DEF RecycleOld, instVars, xBooks, wishes
<1>2. PICK i \in DOMAIN retired : retired' = Without(retired, i)
    BY DEF RecycleOld
<1>3. retired \in Seq(SUBSET XUserIds)
    BY DEF XKernelTypeOK
<1>4. /\ Without(retired, i) \in Seq(SUBSET XUserIds)
      /\ \A j \in DOMAIN Without(retired, i) :
             \E k \in DOMAIN retired : Without(retired, i)[j] = retired[k]
    BY ONLY <1>3, i \in DOMAIN retired, OneGone
<1>5. /\ retired' \in Seq(SUBSET XUserIds)
      /\ \A j \in DOMAIN retired' : \E k \in DOMAIN retired : retired'[j] = retired[k]
    BY <1>2, <1>4
<1>6. XKernelTypeOK'
    BY <1>1, <1>5 DEF XKernelTypeOK
<1>7. InstanceMatches'
    BY <1>1, <1>5 DEF XKernelInv, InstanceMatches
<1>8. StartFits' /\ LimitsFit' /\ UsersFit'
    BY <1>1 DEF XKernelInv, StartFits, LimitsFit, UsersFit
<1> QED BY <1>6, <1>7, <1>8 DEF XKernelInv

\* The kernel is stopped.
LEMMA StopKernelKeeps ==
    ASSUME XKernelTypeOK, XKernelInv, StopKernel
    PROVE  XKernelTypeOK' /\ XKernelInv'
<1>1. /\ inst' = NoInst /\ disp' = [known |-> {}, lines |-> {}] /\ listening' = FALSE
      /\ retired' = <<>> /\ call' = NoCall
      /\ UNCHANGED <<hasManager, xUsers, xConfig, lastKernelHash, wantUsers, wantConfig>>
    BY DEF StopKernel, CallDone, xBooks, wishes
<1>2. retired' \in Seq(SUBSET XUserIds)
    BY <1>1
<1>3. XKernelTypeOK'
    BY <1>1, <1>2 DEF XKernelTypeOK
<1> QED BY <1>1, <1>3, NothingToMatch

\* A call on the users, with what it has left to do.
LEMMA UsersGoOn ==
    ASSUME XKernelTypeOK, XKernelInv, call \in UserCalls, call' \in UserCalls,
           call'.users = call.users, call'.add \subseteq call.add,
           call'.remove \subseteq call.remove,
           call'.remove # {} => call'.add = call.add,
           inst' \in Instances, inst'.config = inst.config,
           wantUsers \cap xUsers \subseteq inst'.users,
           inst'.users \subseteq wantUsers \cup xUsers,
           call'.at = "users" => /\ wantUsers \ call'.add \subseteq inst'.users
                                 /\ inst'.users \subseteq wantUsers \cup call'.remove,
           UNCHANGED <<hasManager, disp, listening, retired, xUsers, xConfig, lastKernelHash,
                       wantUsers, wantConfig>>
    PROVE  XKernelTypeOK' /\ XKernelInv'
<1>1. XKernelTypeOK'
    BY DEF XKernelTypeOK
<1>2. call.at \in {"users", "failed"} /\ call'.at \in {"users", "failed"}
    BY DEF UserCalls
<1>3. call' # NoCall
    BY <1>2 DEF NoCall
<1>4. inst' # NoInst
    BY XKernelAssumption
<1>5. UsersFit'
    BY <1>2, <1>4 DEF XKernelInv, UsersFit
<1> QED BY <1>1, <1>2, <1>3, <1>5 DEF XKernelInv, InstanceMatches, StartFits, LimitsFit

\* What a call on the users knows.
LEMMA UsersKnow ==
    ASSUME XKernelTypeOK, XKernelInv, call.at \in {"users", "failed"}
    PROVE  /\ call \in UserCalls /\ inst \in Instances /\ inst # NoInst
           /\ call.users = wantUsers /\ listening
           /\ xConfig = wantConfig /\ inst.config = wantConfig
           /\ call.add \subseteq wantUsers \ xUsers /\ call.remove \subseteq xUsers \ wantUsers
           /\ call.remove # {} => call.add = wantUsers \ xUsers
           /\ wantUsers \cap xUsers \subseteq inst.users
           /\ inst.users \subseteq wantUsers \cup xUsers
           /\ call.at = "users" => /\ wantUsers \ call.add \subseteq inst.users
                                   /\ inst.users \subseteq wantUsers \cup call.remove
           /\ wantUsers \in UserLists /\ xUsers \in UserLists
    BY CallSteps DEF XKernelInv, UsersFit, XKernelTypeOK

\* A call that fails.
LEMMA OneFails ==
    ASSUME XKernelTypeOK, XKernelInv, call.at = "users", call' = [call EXCEPT !.at = "failed"],
           UNCHANGED <<hasManager, inst, disp, listening, retired, xBooks, wishes>>
    PROVE  XKernelTypeOK' /\ XKernelInv'
<1>1. call \in UserCalls /\ inst \in Instances
    BY UsersKnow
<1>2. /\ call' \in UserCalls /\ call'.at = "failed" /\ call'.users = call.users
      /\ call'.add = call.add /\ call'.remove = call.remove
    BY <1>1 DEF UserCalls
<1>3. UNCHANGED <<xUsers, xConfig, lastKernelHash, wantUsers, wantConfig>>
    BY DEF xBooks, wishes
<1> QED BY <1>1, <1>2, <1>3, UsersGoOn, UsersKnow

\* A user is taken from the UserManager, or the call fails.
LEMMA RemoveKeeps ==
    ASSUME XKernelTypeOK, XKernelInv, RemoveOne
    PROVE  XKernelTypeOK' /\ XKernelInv'
<1>1. /\ call.at = "users" /\ call.remove # {}
      /\ UNCHANGED <<hasManager, disp, listening, retired, xBooks, wishes>>
    BY DEF RemoveOne
<1>2. PICK u \in call.remove :
          \/ /\ inst' = [inst EXCEPT !.users = {v \in @ : v[1] # u[1]}]
             /\ call' = [call EXCEPT !.remove = @ \ {u}]
          \/ /\ call' = [call EXCEPT !.at = "failed"] /\ UNCHANGED inst
    BY DEF RemoveOne
<1>3. CASE call' = [call EXCEPT !.at = "failed"] /\ UNCHANGED inst
    BY <1>1, <1>3, OneFails
<1>4. CASE /\ inst' = [inst EXCEPT !.users = {v \in @ : v[1] # u[1]}]
           /\ call' = [call EXCEPT !.remove = @ \ {u}]
    <2>1. /\ call \in UserCalls /\ inst \in Instances
          /\ call.add = wantUsers \ xUsers /\ call.remove \subseteq xUsers \ wantUsers
          /\ wantUsers \cap xUsers \subseteq inst.users
          /\ inst.users \subseteq wantUsers \cup call.remove
          /\ inst.users \subseteq wantUsers \cup xUsers
        BY <1>1, UsersKnow
    <2>2. /\ call' \in UserCalls /\ call'.at = "users" /\ call'.users = call.users
          /\ call'.add = call.add /\ call'.remove = call.remove \ {u}
        BY <1>1, <1>4, <2>1 DEF UserCalls
    <2>3. /\ inst' \in Instances /\ inst'.config = inst.config
          /\ inst'.users = {v \in inst.users : v[1] # u[1]}
        BY <1>4, <2>1 DEF Instances
    <2>4. u \in xUsers \ wantUsers /\ \A w \in xUsers : w[1] = u[1] => w = u
        BY <2>1, UsersKnow, <1>1 DEF UserLists
    <2>5. wantUsers \cap xUsers \subseteq inst'.users
        BY <2>1, <2>3, <2>4
    <2>6. inst'.users \subseteq wantUsers \cup call'.remove
        BY <2>1, <2>2, <2>3
    <2>7. wantUsers \ call'.add \subseteq inst'.users
        BY <2>1, <2>2, <2>5
    <2>8. inst'.users \subseteq wantUsers \cup xUsers
        BY <2>1, <2>3
    <2>9. UNCHANGED <<xUsers, xConfig, lastKernelHash, wantUsers, wantConfig>>
        BY <1>1 DEF xBooks, wishes
    <2> QED BY <1>1, <2>1, <2>2, <2>3, <2>5, <2>6, <2>7, <2>8, <2>9, UsersGoOn
<1> QED BY <1>2, <1>3, <1>4

\* A user is added to the UserManager, or the call fails.
LEMMA AddKeeps ==
    ASSUME XKernelTypeOK, XKernelInv, AddOne
    PROVE  XKernelTypeOK' /\ XKernelInv'
<1>1. /\ call.at = "users" /\ call.remove = {}
      /\ UNCHANGED <<hasManager, disp, listening, retired, xBooks, wishes>>
    BY DEF AddOne
<1>2. PICK u \in call.add :
          \/ /\ inst' = [inst EXCEPT !.users = @ \cup {u}]
             /\ call' = [call EXCEPT !.add = @ \ {u}]
          \/ /\ call' = [call EXCEPT !.at = "failed"] /\ UNCHANGED inst
    BY DEF AddOne
<1>3. CASE call' = [call EXCEPT !.at = "failed"] /\ UNCHANGED inst
    BY <1>1, <1>3, OneFails
<1>4. CASE /\ inst' = [inst EXCEPT !.users = @ \cup {u}]
           /\ call' = [call EXCEPT !.add = @ \ {u}]
    <2>1. /\ call \in UserCalls /\ inst \in Instances
          /\ call.add \subseteq wantUsers \ xUsers
          /\ wantUsers \cap xUsers \subseteq inst.users
          /\ inst.users \subseteq wantUsers \cup xUsers
          /\ wantUsers \ call.add \subseteq inst.users
          /\ inst.users \subseteq wantUsers \cup call.remove
          /\ wantUsers \in SUBSET Pairs
        BY <1>1, UsersKnow, ListTypes
    <2>2. /\ call' \in UserCalls /\ call'.at = "users" /\ call'.users = call.users
          /\ call'.add = call.add \ {u} /\ call'.remove = call.remove
        BY <1>1, <1>4, <2>1 DEF UserCalls
    <2>3. u \in Pairs
        BY <2>1
    <2>4. /\ inst' \in Instances /\ inst'.config = inst.config
          /\ inst'.users = inst.users \cup {u}
        BY <1>4, <2>1, <2>3 DEF Instances
    <2>5. /\ wantUsers \cap xUsers \subseteq inst'.users
          /\ inst'.users \subseteq wantUsers \cup xUsers
          /\ wantUsers \ call'.add \subseteq inst'.users
          /\ inst'.users \subseteq wantUsers \cup call'.remove
        BY <2>1, <2>2, <2>4
    <2>6. UNCHANGED <<xUsers, xConfig, lastKernelHash, wantUsers, wantConfig>>
        BY <1>1 DEF xBooks, wishes
    <2> QED BY <1>1, <2>1, <2>2, <2>4, <2>5, <2>6, UsersGoOn
<1> QED BY <1>2, <1>3, <1>4

\* The UserManager has the list wanted; the limits follow.
LEMMA UsersDoneKeeps ==
    ASSUME XKernelTypeOK, XKernelInv, UsersDone
    PROVE  XKernelTypeOK' /\ XKernelInv'
<1>1. /\ call.at = "users" /\ call.remove = {} /\ call.add = {}
      /\ UNCHANGED <<hasManager, inst, disp, listening, retired, xConfig, wantUsers, wantConfig>>
    BY DEF UsersDone, instVars, wishes
<1>2. /\ inst \in Instances /\ call.users = wantUsers /\ listening /\ xConfig = wantConfig
      /\ inst.config = wantConfig /\ inst.users = wantUsers
      /\ wantUsers \in UserLists /\ wantConfig \in XConfigs
    BY <1>1, UsersKnow DEF XKernelTypeOK
<1>3. inst = [users |-> wantUsers, config |-> wantConfig]
    BY <1>2 DEF Instances
<1>4. /\ xUsers' = wantUsers /\ lastKernelHash' = ComputeHash(wantConfig, wantUsers)
      /\ call' = [at |-> "limits", users |-> wantUsers, next |-> 0]
    BY <1>2 DEF UsersDone
<1>5. call' \in LimitCalls /\ call'.at = "limits" /\ call'.users = wantUsers /\ call'.next = 0
    BY <1>2, <1>4 DEF LimitCalls
<1>6. lastKernelHash' \in XConfigs \X UserLists
    BY <1>2, <1>4 DEF ComputeHash
<1>7. XKernelTypeOK'
    BY <1>1, <1>2, <1>4, <1>5, <1>6 DEF XKernelTypeOK
<1>8. LimitsFit'
    <2>1. \A i \in DOMAIN retired' : ~(i < 0)
        BY <1>1 DEF XKernelTypeOK
    <2> QED BY <1>1, <1>2, <1>3, <1>4, <1>5, <2>1 DEF LimitsFit
<1>9. call' # NoCall
    BY <1>5 DEF NoCall
<1> QED BY <1>5, <1>7, <1>8, <1>9 DEF XKernelInv, InstanceMatches, StartFits, UsersFit

\* A call on the users of an instance that lies between the two lists.
LEMMA UsersBegin ==
    ASSUME XKernelTypeOK', NEW delta \in BOOLEAN, call' = UsersCall(wantUsers, delta)',
           inst' \in Instances, listening', xConfig' = wantConfig', inst'.config = wantConfig',
           wantUsers' \cap xUsers' \subseteq inst'.users,
           inst'.users \subseteq wantUsers' \cup xUsers'
    PROVE  XKernelInv'
<1>1. /\ call'.at = "users" /\ call'.users = wantUsers'
      /\ call'.remove = xUsers' \ wantUsers' /\ call'.add = wantUsers' \ xUsers'
    BY DEF UsersCall, ToAdd, ToRemove
<1>2. call' # NoCall /\ inst' # NoInst
    BY <1>1, XKernelAssumption DEF NoCall
<1>3. UsersFit'
    BY <1>1, <1>2 DEF UsersFit
<1> QED BY <1>1, <1>2, <1>3 DEF XKernelInv, InstanceMatches, StartFits, LimitsFit

\* A call on the users has what to add and what to remove.
LEMMA UsersCallType ==
    ASSUME NEW old \in UserLists, NEW list \in UserLists, NEW delta \in BOOLEAN
    PROVE  [at |-> "users", users |-> list, delta |-> delta,
            remove |-> ToRemove(old, list), add |-> ToAdd(old, list)] \in UserCalls
<1>1. ToRemove(old, list) \in SUBSET Pairs /\ ToAdd(old, list) \in SUBSET Pairs
    BY ListTypes DEF ToRemove, ToAdd
<1> QED BY <1>1 DEF UserCalls

\* A delta that failed is tried as a whole; a whole that failed stops the kernel.
LEMMA UsersFailedKeeps ==
    ASSUME XKernelTypeOK, XKernelInv, UsersFailed
    PROVE  XKernelTypeOK' /\ XKernelInv'
<1>1. /\ call.at = "failed"
      /\ UNCHANGED <<hasManager, inst, disp, listening, retired, xUsers, xConfig, lastKernelHash,
                     wantUsers, wantConfig>>
    BY DEF UsersFailed, instVars, xBooks, wishes
<1>2. /\ inst \in Instances /\ listening /\ xConfig = wantConfig
      /\ inst.config = wantConfig /\ wantUsers \in UserLists /\ xUsers \in UserLists
      /\ wantUsers \cap xUsers \subseteq inst.users /\ inst.users \subseteq wantUsers \cup xUsers
    BY <1>1, UsersKnow
<1>3. CASE call.delta
    <2>1. call' = UsersCall(wantUsers, FALSE)
        BY <1>3 DEF UsersFailed
    <2>2. call' \in UserCalls
        BY <1>2, <2>1, UsersCallType DEF UsersCall
    <2>3. XKernelTypeOK'
        BY <1>1, <2>2 DEF XKernelTypeOK
    <2>4. call' = UsersCall(wantUsers, FALSE)'
        BY <1>1, <2>1 DEF UsersCall
    <2> QED BY <1>1, <1>2, <2>3, <2>4, UsersBegin
<1>4. CASE ~call.delta
    <2>1. call' = StopCall
        BY <1>4 DEF UsersFailed
    <2>2. XKernelTypeOK'
        BY <1>1, <2>1 DEF XKernelTypeOK
    <2> QED BY <2>1, <2>2, NothingToMatch
<1> QED BY <1>3, <1>4

\* A start is of a configuration and a list.
LEMMA StartCallType ==
    ASSUME NEW conf \in XConfigs, NEW list \in UserLists, NEW delta \in BOOLEAN
    PROVE  /\ StartCall(conf, list, delta) \in StartCalls
           /\ StartCall(conf, list, delta).at = "start"
           /\ StartCall(conf, list, delta).users = list
           /\ StartCall(conf, list, delta).config = conf
    BY DEF StartCall, StartCalls

\* The service wants other users.
LEMMA SetUsersKeeps ==
    ASSUME XKernelTypeOK, XKernelInv, SetUsers
    PROVE  XKernelTypeOK' /\ XKernelInv'
<1>1. /\ call = NoCall
      /\ UNCHANGED <<hasManager, inst, disp, listening, retired, xUsers, xConfig, lastKernelHash,
                     wantConfig>>
    BY DEF SetUsers, instVars, xBooks
<1>2. PICK list \in UserLists, delta \in BOOLEAN :
          /\ wantUsers' = list
          /\ call' = IF inst = NoInst
                     THEN IF list = {} THEN NoCall ELSE StartCall(wantConfig, list, FALSE)
                     ELSE IF list = {} /\ delta THEN StopCall
                     ELSE ChangeUsers(list, delta)
    BY DEF SetUsers
<1>3. xUsers \in UserLists /\ xConfig \in XConfigs /\ wantConfig \in XConfigs
    BY DEF XKernelTypeOK
<1>4. CASE call' \in {NoCall, StopCall}
    <2>1. call' = StopCall \/ (call' = NoCall /\ inst' = NoInst)
        <3>1. StopCall # NoCall
            BY DEF StopCall, NoCall
        <3>2. CASE inst = NoInst
            BY <1>1, <1>4, <3>2
        <3>3. CASE inst # NoInst
            <4>1. ChangeUsers(list, delta) # NoCall
                BY DEF ChangeUsers, StartCall, UsersCall, NoCall
            <4> QED BY <1>2, <1>4, <3>1, <3>3, <4>1
        <3> QED BY <3>2, <3>3
    <2>2. XKernelTypeOK'
        BY <1>1, <1>2, <1>4 DEF XKernelTypeOK
    <2> QED BY <2>1, <2>2, NothingToMatch
<1>5. ASSUME NEW conf \in XConfigs, NEW d \in BOOLEAN, conf = wantConfig,
             call' = StartCall(conf, list, d)
      PROVE  XKernelTypeOK' /\ XKernelInv'
    <2>1. /\ call' \in StartCalls /\ call'.at = "start" /\ call'.users = list
          /\ call'.config = conf
        BY <1>5, StartCallType
    <2>2. XKernelTypeOK'
        BY <1>1, <1>2, <2>1 DEF XKernelTypeOK
    <2> QED BY <1>1, <1>2, <1>5, <2>1, <2>2, NothingToMatch
<1>6. CASE inst # NoInst /\ call' = ChangeUsers(list, delta)
    <2>1. /\ listening /\ inst = [users |-> wantUsers, config |-> wantConfig]
          /\ xUsers = wantUsers /\ xConfig = wantConfig
        BY <1>1, <1>6 DEF XKernelInv, InstanceMatches
    <2>2. CASE ~hasManager
        <3>1. call' = StartCall(xConfig, list, delta)
            BY <1>6, <2>2 DEF ChangeUsers
        <3> QED BY <1>3, <1>5, <2>1, <3>1
    <2>3. CASE hasManager
        <3>1. call' = UsersCall(list, delta)
            BY <1>6, <2>3 DEF ChangeUsers
        <3>2. call' \in UserCalls
            BY <1>3, <3>1, UsersCallType DEF UsersCall
        <3>3. XKernelTypeOK'
            BY <1>1, <1>2, <3>2 DEF XKernelTypeOK
        <3>4. call' = UsersCall(wantUsers, delta)'
            BY <1>1, <1>2, <3>1 DEF UsersCall
        <3>5. inst' \in Instances
            BY <1>1, <1>6 DEF XKernelTypeOK
        <3>6. inst'.users = xUsers' /\ inst'.config = wantConfig'
            BY <1>1, <2>1
        <3> QED BY <1>1, <2>1, <3>3, <3>4, <3>5, <3>6, UsersBegin
    <2> QED BY <2>2, <2>3
<1> QED BY <1>2, <1>3, <1>4, <1>5, <1>6

\* The service wants another configuration.
LEMMA SetConfigKeeps ==
    ASSUME XKernelTypeOK, XKernelInv, SetConfig
    PROVE  XKernelTypeOK' /\ XKernelInv'
<1>1. /\ call = NoCall /\ inst # NoInst
      /\ UNCHANGED <<hasManager, disp, listening, retired, xUsers, wantUsers>>
    BY DEF SetConfig
<1>2. PICK conf \in XConfigs :
          /\ wantConfig' = conf
          /\ \/ /\ inst' = [inst EXCEPT !.config = conf] /\ xConfig' = conf
                /\ lastKernelHash' = ComputeHash(conf, wantUsers) /\ UNCHANGED call
             \/ call' = StopCall /\ UNCHANGED <<inst, xConfig, lastKernelHash>>
             \/ /\ call' = StartCall(conf, wantUsers, FALSE)
                /\ UNCHANGED <<inst, xConfig, lastKernelHash>>
    BY DEF SetConfig
<1>3. /\ wantUsers \in UserLists /\ inst \in Instances
      /\ listening /\ inst = [users |-> wantUsers, config |-> wantConfig]
      /\ disp = [known |-> IdsOf(wantUsers), lines |-> IdsOf(wantUsers)]
      /\ xUsers = wantUsers
      /\ \A i \in DOMAIN retired : retired[i] \subseteq IdsOf(wantUsers)
    BY <1>1 DEF XKernelTypeOK, XKernelInv, InstanceMatches
<1>4. CASE /\ inst' = [inst EXCEPT !.config = conf] /\ xConfig' = conf
           /\ lastKernelHash' = ComputeHash(conf, wantUsers) /\ UNCHANGED call
    <2>1. inst' = [users |-> wantUsers, config |-> conf]
        BY <1>3, <1>4
    <2>2. inst' \in Instances
        BY <1>3, <1>4 DEF Instances
    <2>3. lastKernelHash' \in XConfigs \X UserLists
        BY <1>3, <1>4 DEF ComputeHash
    <2>4. XKernelTypeOK'
        BY <1>1, <1>2, <1>4, <2>2, <2>3 DEF XKernelTypeOK
    <2>5. InstanceMatches'
        BY <1>1, <1>2, <1>3, <1>4, <2>1 DEF InstanceMatches
    <2>6. call'.at = "idle"
        BY <1>1, <1>4 DEF NoCall
    <2> QED BY <2>4, <2>5, <2>6 DEF XKernelInv, StartFits, LimitsFit, UsersFit
<1>5. CASE call' = StopCall /\ UNCHANGED <<inst, xConfig, lastKernelHash>>
    <2>1. XKernelTypeOK'
        BY <1>1, <1>2, <1>5 DEF XKernelTypeOK
    <2> QED BY <1>5, <2>1, NothingToMatch
<1>6. CASE /\ call' = StartCall(conf, wantUsers, FALSE)
           /\ UNCHANGED <<inst, xConfig, lastKernelHash>>
    <2>1. /\ call' \in StartCalls /\ call'.at = "start" /\ call'.users = wantUsers
          /\ call'.config = conf
        BY <1>3, <1>6, StartCallType
    <2>2. XKernelTypeOK'
        BY <1>1, <1>2, <1>6, <2>1 DEF XKernelTypeOK
    <2> QED BY <1>1, <1>2, <2>1, <2>2, NothingToMatch
<1> QED BY <1>2, <1>4, <1>5, <1>6

\* A reload of what already runs.
LEMMA ReloadSameKeeps ==
    ASSUME XKernelTypeOK, XKernelInv, ReloadSame
    PROVE  XKernelTypeOK' /\ XKernelInv'
<1>1. /\ call = NoCall /\ inst # NoInst
      /\ UNCHANGED <<hasManager, inst, disp, listening, retired, xUsers, xConfig, lastKernelHash,
                     wantUsers, wantConfig>>
    BY DEF ReloadSame, instVars, xBooks, wishes
<1>2. /\ wantUsers \in UserLists /\ listening
      /\ inst = [users |-> wantUsers, config |-> wantConfig]
      /\ xUsers = wantUsers /\ xConfig = wantConfig
      /\ lastKernelHash = ComputeHash(wantConfig, wantUsers)
    BY <1>1 DEF XKernelTypeOK, XKernelInv, InstanceMatches
<1>3. call' = [at |-> "limits", users |-> wantUsers, next |-> 0]
    BY <1>2 DEF ReloadSame
<1>4. call' \in LimitCalls /\ call'.at = "limits" /\ call'.users = wantUsers /\ call'.next = 0
    BY <1>2, <1>3 DEF LimitCalls
<1>5. XKernelTypeOK'
    BY <1>1, <1>4 DEF XKernelTypeOK
<1>6. LimitsFit'
    <2>1. \A i \in DOMAIN retired' : ~(i < 0)
        BY <1>1 DEF XKernelTypeOK
    <2> QED BY <1>1, <1>2, <1>4, <2>1 DEF LimitsFit
<1>7. call' # NoCall
    BY <1>4 DEF NoCall
<1> QED BY <1>4, <1>5, <1>6, <1>7 DEF XKernelInv, InstanceMatches, StartFits, UsersFit

\* The service stops the kernel.
LEMMA StopServiceKeeps ==
    ASSUME XKernelTypeOK, XKernelInv, StopService
    PROVE  XKernelTypeOK' /\ XKernelInv'
<1>1. /\ call' = StopCall
      /\ UNCHANGED <<hasManager, inst, disp, listening, retired, xUsers, xConfig, lastKernelHash,
                     wantUsers, wantConfig>>
    BY DEF StopService, instVars, xBooks, wishes
<1>2. XKernelTypeOK'
    BY <1>1 DEF XKernelTypeOK
<1> QED BY <1>1, <1>2, NothingToMatch

\* Every step keeps types and invariant.
LEMMA XKernelStep ==
    ASSUME XKernelTypeOK, XKernelInv, [XKernelNext]_xKernelVars
    PROVE  XKernelTypeOK' /\ XKernelInv'
<1>1. CASE CreateXrayFails \/ CloseListeners \/ LaunchFails \/ Launched
    BY <1>1, CreateKeeps, CloseKeeps, LaunchFailsKeeps, LaunchedKeeps
<1>2. CASE LimitsCurrent \/ LimitsRetired \/ RecycleOld \/ StopKernel
    BY <1>2, LimitsCurrentKeeps, LimitsRetiredKeeps, RecycleKeeps, StopKernelKeeps
<1>3. CASE RemoveOne \/ AddOne \/ UsersDone \/ UsersFailed
    BY <1>3, RemoveKeeps, AddKeeps, UsersDoneKeeps, UsersFailedKeeps
<1>4. CASE SetUsers \/ SetConfig \/ ReloadSame \/ StopService
    BY <1>4, SetUsersKeeps, SetConfigKeeps, ReloadSameKeeps, StopServiceKeeps
<1>5. CASE UNCHANGED xKernelVars
    <2>1. UNCHANGED <<hasManager, inst, disp, listening, retired, xUsers, xConfig,
                      lastKernelHash, wantUsers, wantConfig, call>>
        BY <1>5 DEF xKernelVars, instVars, xBooks, wishes
    <2>2. XKernelTypeOK'
        BY <2>1 DEF XKernelTypeOK
    <2>3. InstanceMatches' /\ StartFits' /\ LimitsFit' /\ UsersFit'
        BY <2>1 DEF XKernelInv, InstanceMatches, StartFits, LimitsFit, UsersFit
    <2> QED BY <2>2, <2>3 DEF XKernelInv
<1> QED BY <1>1, <1>2, <1>3, <1>4, <1>5 DEF XKernelNext

\* xray.go: books, calls and instances of the kernel keep their types.
THEOREM XKernelTypesCorrect == XKernelSpec => []XKernelTypeOK
<1>1. XKernelInit => XKernelTypeOK /\ XKernelInv
    BY XKernelStarts
<1>2. XKernelTypeOK /\ XKernelInv /\ [XKernelNext]_xKernelVars => (XKernelTypeOK /\ XKernelInv)'
    BY XKernelStep
<1> QED BY <1>1, <1>2, PTL DEF XKernelSpec

\* The inductive invariant: after every step of a call the instance lies
\* between what the books have and what is wanted, as far as the call got.
THEOREM XKernelInvHolds == XKernelSpec => []XKernelInv
<1>1. XKernelInit => XKernelTypeOK /\ XKernelInv
    BY XKernelStarts
<1>2. XKernelTypeOK /\ XKernelInv /\ [XKernelNext]_xKernelVars => (XKernelTypeOK /\ XKernelInv)'
    BY XKernelStep
<1> QED BY <1>1, <1>2, PTL DEF XKernelSpec

\* lifecycle.go, xray.go: between calls an instance that runs is the one
\* wanted, in UserManager, dispatcher, books and hash.
THEOREM InstanceIsWhatIsWanted == XKernelSpec => []InstanceMatches
<1>1. XKernelInv => InstanceMatches
    BY DEF XKernelInv
<1> QED BY <1>1, XKernelInvHolds, PTL

-----------------------------------------------------------------------------
(* Both ends of a line, and ordinary inbounds.                              *)

\* Nothing is built.
LEMMA LinkStarts == LinkInit => LinkTypeOK /\ BuiltFits
    BY DEF LinkInit, LinkTypeOK, BuiltFits

\* The conditions of an end and what it builds depend on what never changes.
LEMMA EndsStay ==
    ASSUME UNCHANGED <<line, ordinary, engine, certified>>, NEW e \in Ends
    PROVE  /\ EndValid(e)' <=> EndValid(e)
           /\ Result(e)' = Result(e)
<1>1. EndValid(e)' <=> EndValid(e)
    BY DEF EndValid, NodeValid, HasUsableTLSConfig, LineValid, RelayVLESSValid
<1>2. BuildRelayOutbound' = BuildRelayOutbound
    BY DEF BuildRelayOutbound, Speaks
<1>3. BuildLandingInbound' = BuildLandingInbound
    BY DEF BuildLandingInbound, Speaks
<1>4. BuildInbound' = BuildInbound
    BY DEF BuildInbound
<1> QED BY <1>1, <1>2, <1>3, <1>4 DEF Result, Ends

\* Every end accepts before it builds.
LEMMA LinkStep ==
    ASSUME LinkTypeOK, BuiltFits, [LinkNext]_linkVars
    PROVE  LinkTypeOK' /\ BuiltFits'
<1>1. UNCHANGED <<line, ordinary, engine, certified>>
    BY DEF LinkNext, RefuseEnd, BuildEnd, linkVars
<1>2. LinkTypeOK'
    <2>1. \/ UNCHANGED <<stage, built>>
          \/ \E e \in Ends : /\ stage' = [stage EXCEPT ![e] = "refused"]
                             /\ built' = built
          \/ \E e \in Ends : /\ stage' = [stage EXCEPT ![e] = "up"]
                             /\ built' = [built EXCEPT ![e] = Result(e)]
        BY DEF LinkNext, RefuseEnd, BuildEnd, linkVars
    <2> QED BY <1>1, <2>1 DEF LinkTypeOK
<1>3. ASSUME NEW e \in Ends, stage'[e] = "up"
      PROVE  EndValid(e)' /\ built'[e] = Result(e)'
    <2>1. EndValid(e) /\ built'[e] = Result(e)
        <3>1. CASE UNCHANGED linkVars
            BY <1>3, <3>1 DEF BuiltFits, linkVars
        <3>2. ASSUME NEW d \in Ends, RefuseEnd(d) PROVE EndValid(e) /\ built'[e] = Result(e)
            <4>1. stage[e] = "up" /\ built' = built
                BY <1>3, <3>2 DEF RefuseEnd, LinkTypeOK
            <4> QED BY <4>1 DEF BuiltFits
        <3>3. ASSUME NEW d \in Ends, BuildEnd(d) PROVE EndValid(e) /\ built'[e] = Result(e)
            <4>1. CASE d = e
                BY <3>3, <4>1 DEF BuildEnd, LinkTypeOK
            <4>2. CASE d # e
                <5>1. stage[e] = "up" /\ built'[e] = built[e]
                    BY <1>3, <3>3, <4>2 DEF BuildEnd, LinkTypeOK
                <5> QED BY <5>1 DEF BuiltFits
            <4> QED BY <4>1, <4>2
        <3> QED BY <3>1, <3>2, <3>3 DEF LinkNext
    <2> QED BY <1>1, <2>1, EndsStay
<1> QED BY <1>2, <1>3 DEF BuiltFits

-----------------------------------------------------------------------------
\* A kernel protects a vless inbound as the line says, if it has what TLS needs.
LEMMA LandingSecurity ==
    ASSUME NEW k \in {"singbox", "xray"}, NEW tls, NEW cert \in BOOLEAN, tls = 1 => cert
    PROVE  Security(k, "vless", tls, cert) = IF tls = 2 THEN "reality" ELSE TLSIf(tls = 1)
<1>1. CASE k = "singbox"
    BY <1>1 DEF Security, SingBoxSecurity, SingBoxProxySecurity, RealityOr, TLSIf, BuildTLSConfig
<1>2. CASE k = "xray"
    BY <1>2 DEF Security, XraySecurity, ApplyStreamSettings, RealityOr, TLSIf
<1> QED BY <1>1, <1>2

\* What sing-box accepts, xray would transport in the same way.
LEMMA SameTransport ==
    ASSUME SingBoxRelayVLESS(line)
    PROVE  SingBoxTransport(line) = XrayTransport(line)
<1>1. (line.encryption = "key") = FALSE
    BY DEF SingBoxRelayVLESS
<1>2. (Canonical(line.network) = "tcp" /\ line.header) = FALSE
    BY DEF SingBoxRelayVLESS
<1> QED BY <1>1, <1>2 DEF SingBoxTransport, XrayTransport

\* relay_outbound.go, relay_inbound.go: the landing speaks what the entry does.
LEMMA EndsSpeakTheSame ==
    ASSUME LinkTypeOK, LineValid("entry"), LineValid("landing"),
           line.tls = 1 => certified["landing"]
    PROVE  BuildLandingInbound.speaks = BuildRelayOutbound
<1> DEFINE s == Security(engine["landing"], "vless", line.tls, certified["landing"])
           t == IF line.tls = 2 THEN "reality" ELSE TLSIf(line.tls = 1)
<1>1. engine["landing"] \in {"singbox", "xray"} /\ engine["entry"] \in {"singbox", "xray"}
    BY DEF LinkTypeOK, Ends
<1>2. s = t
    BY <1>1, LandingSecurity DEF LinkTypeOK, Ends
<1> HIDE DEF s, t
<1>3. Speaks("landing", s) = Speaks("entry", t)
    <2>1. CASE line.protocol # "vless"
        BY <2>1 DEF Speaks
    <2>2. CASE line.protocol = "vless"
        <3>1. ASSUME NEW e \in {"entry", "landing"}, engine[e] = "singbox"
              PROVE  SingBoxTransport(line) = XrayTransport(line)
            <4>1. RelayVLESSValid(e, line)
                BY <2>2 DEF LineValid
            <4> QED BY <3>1, <4>1, SameTransport DEF RelayVLESSValid
        <3>2. \/ SingBoxTransport(line) = XrayTransport(line)
              \/ engine["entry"] = "xray" /\ engine["landing"] = "xray"
            BY <1>1, <3>1
        <3> QED BY <1>2, <3>2 DEF Speaks
    <2> QED BY <2>1, <2>2
<1>4. BuildLandingInbound.speaks = Speaks("landing", s)
    BY DEF BuildLandingInbound, s
<1>5. BuildRelayOutbound = Speaks("entry", t)
    BY DEF BuildRelayOutbound, t
<1> QED BY <1>3, <1>4, <1>5

\* relay_outbound.go: a vless line that asks for protection has it.
LEMMA EntryProtected ==
    ASSUME LineValid("entry"), line.protocol = "vless", line.tls # 0
    PROVE  BuildRelayOutbound.security # "open"
<1>1. line.tls \in {1, 2}
    <2>1. RelayVLESSValid("entry", line)
        BY DEF LineValid
    <2>2. line.tls \in 0..2
        BY <2>1, Zenon DEF RelayVLESSValid
    <2> QED BY <2>2
<1> QED BY <1>1 DEF BuildRelayOutbound, Speaks, TLSIf

\* Nobody's identity, on whichever kernel.
LEMMA TransitIsNobody ==
    ASSUME NEW name \in BuildLandingInbound.users
    PROVE  ResolveUser(engine["landing"], name) = 0
<1>1. name = <<"transit", 0>>
    BY DEF BuildLandingInbound, Transit
<1>2. name \notin (IF engine["landing"] = "xray" THEN {"email"} ELSE {"uuid"}) \X LinkUsers
    BY <1>1
<1> QED BY <1>2 DEF ResolveUser

\* An ordinary inbound with TLS and a certificate.
LEMMA InboundHasTLS ==
    ASSUME NEW k \in {"singbox", "xray"}, NEW protocol \in Protocols(k), NEW tls, tls = 1,
           NEW cert \in BOOLEAN, cert,
           protocol \notin {"shadowsocks", "socks", "mieru"}
    PROVE  Security(k, protocol, tls, cert) = "tls"
<1>1. CASE k = "singbox"
    <2>1. protocol \in {"vmess", "vless", "trojan", "http", "hysteria", "tuic", "naive", "anytls"}
        BY <1>1 DEF Protocols
    <2>2. CASE protocol \in {"vmess", "vless", "trojan"}
        BY <1>1, <2>2 DEF Security, SingBoxSecurity, SingBoxProxySecurity, RealityOr, TLSIf,
           BuildTLSConfig
    <2>3. CASE protocol \in {"http", "hysteria", "tuic", "naive", "anytls"}
        BY <1>1, <2>3 DEF Security, SingBoxSecurity, SingBoxOtherSecurity, TLSIf, BuildTLSConfig
    <2> QED BY <2>1, <2>2, <2>3
<1>2. CASE k = "xray"
    <2>1. tls # 2
        OBVIOUS
    <2>2. ApplyStreamSettings(tls) = "tls"
        BY <2>1, Zenon DEF ApplyStreamSettings, RealityOr, TLSIf
    <2>3. protocol \in {"vmess", "vless", "trojan", "http", "hysteria"}
        BY <1>2 DEF Protocols
    <2>4. CASE protocol \in {"vmess", "vless"}
        BY <1>2, <2>4, <2>2 DEF Security, XraySecurity
    <2>5. CASE protocol = "trojan"
        <3>1. XrayTrojanTLS(tls) = tls
            BY DEF XrayTrojanTLS
        <3>2. Security(k, protocol, tls, cert) = ApplyStreamSettings(tls)
            BY <1>2, <2>5, <3>1 DEF Security, XraySecurity
        <3> QED BY <2>2, <3>2
    <2>6. CASE protocol = "http"
        BY <1>2, <2>6 DEF Security, XraySecurity, XrayOtherSecurity, TLSIf
    <2>7. CASE protocol = "hysteria"
        BY <1>2, <2>7 DEF Security, XraySecurity, XrayOtherSecurity, TLSIf
    <2> QED BY <2>3, <2>4, <2>5, <2>6, <2>7
<1> QED BY <1>1, <1>2

\* A protocol that cannot do without is protected whatever the panel says.
LEMMA InboundNotOpen ==
    ASSUME NEW k \in {"singbox", "xray"}, NEW protocol \in Protocols(k), NEW tls,
           NEW cert \in BOOLEAN,
           protocol \in {"trojan", "hysteria", "tuic", "anytls"}, protocol # "trojan" => cert,
           protocol = "trojan" /\ tls # 2 => cert
    PROVE  Security(k, protocol, tls, cert) # "open"
<1>1. CASE k = "singbox" /\ protocol = "trojan"
    BY <1>1 DEF Security, SingBoxSecurity, SingBoxProxySecurity, RealityOr, TLSIf, BuildTLSConfig
<1>2. CASE k = "singbox" /\ protocol # "trojan"
    BY <1>2 DEF Security, SingBoxSecurity, SingBoxOtherSecurity, TLSIf, BuildTLSConfig
<1>3. CASE k = "xray" /\ protocol = "trojan"
    BY <1>3 DEF Security, XraySecurity, ApplyStreamSettings, XrayTrojanTLS, RealityOr, TLSIf
<1>4. CASE k = "xray" /\ protocol # "trojan"
    <2>1. protocol = "hysteria"
        BY <1>4 DEF Protocols
    <2> QED BY <1>4, <2>1 DEF Security, XraySecurity, XrayOtherSecurity, TLSIf
<1> QED BY <1>1, <1>2, <1>3, <1>4

\* The name of a user leads back to the user.
LEMMA UserFound ==
    ASSUME NEW k \in {"singbox", "xray"}, NEW protocol, protocol # "naive", NEW u \in LinkUsers
    PROVE  ResolveUser(k, UserName(k, protocol, u)) = u
<1>1. CASE k = "xray"
    BY <1>1 DEF ResolveUser, UserName
<1>2. CASE k = "singbox"
    BY <1>2 DEF ResolveUser, UserName
<1> QED BY <1>1, <1>2

\* What an ordinary inbound promises: TLS, protection and known users.
LEMMA OrdinaryAgrees ==
    ASSUME LinkTypeOK, NodeValid, BuildInbound # NotBuilt
    PROVE  /\ ordinary.tls = 1 /\ certified["ordinary"]
                 /\ ordinary.protocol \notin {"shadowsocks", "socks", "mieru"}
              => BuildInbound.security = "tls"
           /\ ordinary.protocol \in {"trojan", "hysteria", "tuic", "anytls"}
              => BuildInbound.security # "open"
           /\ ordinary.protocol # "naive"
              => {ResolveUser(engine["ordinary"], name) : name \in BuildInbound.users} = LinkUsers
<1> DEFINE k == engine["ordinary"]
           p == ordinary.protocol
<1>1. k \in {"singbox", "xray"} /\ certified["ordinary"] \in BOOLEAN /\ p \in Protocols(k)
    BY DEF LinkTypeOK, Ends, NodeValid
<1>2. /\ BuildInbound.security = Security(k, p, ordinary.tls, certified["ordinary"])
      /\ BuildInbound.users = {UserName(k, p, u) : u \in LinkUsers}
    BY DEF BuildInbound
<1>3. NeedsCert(ordinary) => certified["ordinary"]
    BY DEF NodeValid, HasUsableTLSConfig
<1> HIDE DEF k, p
<1>4. ordinary.tls = 1 /\ certified["ordinary"] /\ p \notin {"shadowsocks", "socks", "mieru"}
      => BuildInbound.security = "tls"
    BY <1>1, <1>2, InboundHasTLS
<1>5. p \in {"trojan", "hysteria", "tuic", "anytls"} => BuildInbound.security # "open"
    <2> SUFFICES ASSUME p \in {"trojan", "hysteria", "tuic", "anytls"}
                 PROVE  BuildInbound.security # "open"
        OBVIOUS
    <2>1. /\ p # "trojan" => certified["ordinary"]
          /\ p = "trojan" /\ ordinary.tls # 2 => certified["ordinary"]
        BY <1>3 DEF NeedsCert, p
    <2> QED BY <1>1, <1>2, <2>1, InboundNotOpen
<1>6. p # "naive" => {ResolveUser(k, name) : name \in BuildInbound.users} = LinkUsers
    BY <1>1, <1>2, UserFound
<1> QED BY <1>4, <1>5, <1>6 DEF k, p

\* Lines, ends and what they built keep their types.
THEOREM LinkTypesCorrect == LinkSpec => []LinkTypeOK
<1>1. LinkInit => LinkTypeOK /\ BuiltFits
    BY LinkStarts
<1>2. LinkTypeOK /\ BuiltFits /\ [LinkNext]_linkVars => (LinkTypeOK /\ BuiltFits)'
    BY LinkStep
<1> QED BY <1>1, <1>2, PTL DEF LinkSpec

\* What is up was accepted by its validator and is what its builder makes.
THEOREM BuiltIsAccepted == LinkSpec => []BuiltFits
<1>1. LinkInit => LinkTypeOK /\ BuiltFits
    BY LinkStarts
<1>2. LinkTypeOK /\ BuiltFits /\ [LinkNext]_linkVars => (LinkTypeOK /\ BuiltFits)'
    BY LinkStep
<1> QED BY <1>1, <1>2, PTL DEF LinkSpec

\* relay_validate.go and both builders: two ends that accepted a line speak the
\* same, protected as asked, and everybody let in is known to the counters.
THEOREM EndsAgree == LinkSpec => []LinkAgrees
<1>1. LinkTypeOK /\ BuiltFits => LinkAgrees
    <2> SUFFICES ASSUME LinkTypeOK, BuiltFits PROVE LinkAgrees
        OBVIOUS
    <2>1. /\ stage["entry"] = "up" => LineValid("entry") /\ built["entry"] = BuildRelayOutbound
          /\ stage["landing"] = "up" =>
                 LineValid("landing") /\ built["landing"] = BuildLandingInbound
          /\ stage["ordinary"] = "up" => NodeValid /\ built["ordinary"] = BuildInbound
        BY DEF BuiltFits, Ends, EndValid, Result
    <2>2. stage["entry"] = "up" /\ stage["landing"] = "up"
              /\ (line.tls = 1 => certified["landing"])
          => built["landing"].speaks = built["entry"]
        BY <2>1, EndsSpeakTheSame
    <2>3. stage["entry"] = "up" /\ line.protocol = "vless" /\ line.tls # 0
          => built["entry"].security # "open"
        BY <2>1, EntryProtected
    <2>4. stage["landing"] = "up" =>
              \A name \in built["landing"].users : ResolveUser(engine["landing"], name) = 0
        BY <2>1, TransitIsNobody
    <2>5. stage["ordinary"] = "up" /\ built["ordinary"] # NotBuilt =>
              /\ ordinary.tls = 1 /\ certified["ordinary"]
                    /\ ordinary.protocol \notin {"shadowsocks", "socks", "mieru"} =>
                    built["ordinary"].security = "tls"
              /\ ordinary.protocol \in {"trojan", "hysteria", "tuic", "anytls"} =>
                    built["ordinary"].security # "open"
              /\ ordinary.protocol # "naive" =>
                    {ResolveUser(engine["ordinary"], name) : name \in built["ordinary"].users}
                        = LinkUsers
        BY <2>1, OrdinaryAgrees
    <2> QED BY <2>2, <2>3, <2>4, <2>5 DEF LinkAgrees
<1> QED BY <1>1, LinkTypesCorrect, BuiltIsAccepted, PTL

-----------------------------------------------------------------------------
(* The ways out and the rules of a node.                                    *)

\* Nothing is built.
LEMMA PlanStarts == PlanInit => PlanTypeOK /\ PlanFits
    BY DEF PlanInit, PlanTypeOK, PlanFits

\* A specification is accepted before it is built, and runs as built.
LEMMA PlanStep ==
    ASSUME PlanTypeOK, PlanFits, [PlanNext]_planVars
    PROVE  PlanTypeOK' /\ PlanFits'
<1>1. CASE Refuse
    BY <1>1 DEF Refuse, PlanTypeOK, PlanFits
<1>2. CASE Build
    BY <1>2 DEF Build, PlanTypeOK, PlanFits
<1>3. CASE StartPlan
    BY <1>3 DEF StartPlan, PlanTypeOK, PlanFits
<1>4. CASE UNCHANGED planVars
    BY <1>4 DEF planVars, PlanTypeOK, PlanFits
<1> QED BY <1>1, <1>2, <1>3, <1>4 DEF PlanNext

-----------------------------------------------------------------------------
\* Lists of rules, whatever the rules are.
IsList(s) == \E S : s \in Seq(S)

\* A rule alone is a list,
LEMMA OneIsList ==
    ASSUME NEW x PROVE IsList(<<x>>)
<1>1. <<x>> \in Seq({x})
    OBVIOUS
<1> QED BY <1>1 DEF IsList

\* and two are,
LEMMA TwoIsList ==
    ASSUME NEW x, NEW y PROVE IsList(<<x, y>>)
<1>1. <<x, y>> \in Seq({x, y})
    OBVIOUS
<1> QED BY <1>1 DEF IsList

\* and none is,
LEMMA NoneIsList == IsList(<<>>)
<1>1. <<>> \in Seq({})
    OBVIOUS
<1> QED BY <1>1 DEF IsList

\* and one list after another.
LEMMA ConcatIsList ==
    ASSUME NEW s, NEW t, IsList(s), IsList(t) PROVE IsList(s \o t)
<1>1. PICK S : s \in Seq(S)
    BY DEF IsList
<1>2. PICK T : t \in Seq(T)
    BY DEF IsList
<1>3. s \in Seq(S \cup T) /\ t \in Seq(S \cup T)
    BY <1>1, <1>2
<1>4. s \o t \in Seq(S \cup T)
    BY <1>3
<1> QED BY <1>4 DEF IsList

\* Concatenation by a name, which the provers do not look into.
Join(s, t) == s \o t

\* It is associative.
LEMMA JoinAssociates ==
    ASSUME NEW s, NEW t, NEW u, IsList(s), IsList(t), IsList(u)
    PROVE  Join(Join(s, t), u) = Join(s, Join(t, u))
<1>1. PICK S : s \in Seq(S)
    BY DEF IsList
<1>2. PICK T : t \in Seq(T)
    BY DEF IsList
<1>3. PICK U : u \in Seq(U)
    BY DEF IsList
<1>4. s \in Seq(S \cup T \cup U) /\ t \in Seq(S \cup T \cup U) /\ u \in Seq(S \cup T \cup U)
    BY <1>1, <1>2, <1>3
<1>5. (s \o t) \o u = s \o (t \o u)
    BY <1>4, ConcatAssociative
<1> QED BY <1>5 DEF Join

\* Joined lists are a list.
LEMMA JoinIsList ==
    ASSUME NEW s, NEW t, IsList(s), IsList(t) PROVE IsList(Join(s, t))
    BY ConcatIsList DEF Join

\* A list that is left out is empty.
LEMMA OnlyIsList ==
    ASSUME NEW cond, NEW s, IsList(s) PROVE IsList(Only(cond, s))
    BY NoneIsList DEF Only

\* Two lists without a tag twice, and without a common one, are one such list.
LEMMA JoinedTags ==
    ASSUME NEW s, NEW t, IsList(s), IsList(t), NoRepeats(s), NoRepeats(t),
           TagsOf(s) \cap TagsOf(t) = {}
    PROVE  /\ IsList(s \o t) /\ NoRepeats(s \o t)
           /\ TagsOf(s \o t) = TagsOf(s) \cup TagsOf(t)
<1>1. PICK S : s \in Seq(S)
    BY DEF IsList
<1>2. PICK T : t \in Seq(T)
    BY DEF IsList
<1>3. s \in Seq(S \cup T) /\ t \in Seq(S \cup T)
    BY <1>1, <1>2
<1> DEFINE u == s \o t
<1>4. /\ Len(s) \in Nat /\ Len(t) \in Nat
      /\ DOMAIN s = 1 .. Len(s) /\ DOMAIN t = 1 .. Len(t)
      /\ DOMAIN u = 1 .. (Len(s) + Len(t))
      /\ \A i \in 1 .. Len(s) : u[i] = s[i]
      /\ \A i \in 1 .. Len(t) : u[i + Len(s)] = t[i]
    BY <1>3
<1>5. \A i \in DOMAIN u : \/ i \in DOMAIN s /\ u[i] = s[i]
                          \/ i - Len(s) \in DOMAIN t /\ u[i] = t[i - Len(s)]
    <2> HIDE DEF u
    <2> TAKE i \in DOMAIN u
    <2>1. CASE i <= Len(s)
        BY <1>4, <2>1
    <2>2. CASE i > Len(s)
        <3>1. i - Len(s) \in 1 .. Len(t) /\ (i - Len(s)) + Len(s) = i
            BY <1>4, <2>2
        <3> QED BY <1>4, <3>1
    <2> QED BY <1>4, <2>1, <2>2
<1>6. TagsOf(u) = TagsOf(s) \cup TagsOf(t)
    <2> HIDE DEF u
    <2>1. ASSUME NEW x \in TagsOf(s) PROVE x \in TagsOf(u)
        <3>1. PICK i \in DOMAIN s : x = s[i]
            BY DEF TagsOf
        <3>2. i \in DOMAIN u /\ u[i] = x
            BY <1>4, <3>1
        <3> QED BY <3>2 DEF TagsOf
    <2>2. ASSUME NEW x \in TagsOf(t) PROVE x \in TagsOf(u)
        <3>1. PICK i \in DOMAIN t : x = t[i]
            BY DEF TagsOf
        <3>2. i + Len(s) \in DOMAIN u /\ u[i + Len(s)] = x
            BY <1>4, <3>1
        <3> QED BY <3>2 DEF TagsOf
    <2>3. TagsOf(u) \subseteq TagsOf(s) \cup TagsOf(t)
        BY <1>5 DEF TagsOf
    <2> QED BY <2>1, <2>2, <2>3
<1>7. NoRepeats(u)
    <2> HIDE DEF u
    <2> SUFFICES ASSUME NEW i \in DOMAIN u, NEW j \in DOMAIN u, u[i] = u[j] PROVE i = j
        BY DEF NoRepeats
    <2>1. CASE i \in DOMAIN s /\ u[i] = s[i] /\ j \in DOMAIN s /\ u[j] = s[j]
        BY <2>1 DEF NoRepeats
    <2>2. CASE /\ i - Len(s) \in DOMAIN t /\ u[i] = t[i - Len(s)]
               /\ j - Len(s) \in DOMAIN t /\ u[j] = t[j - Len(s)]
        <3>1. i - Len(s) = j - Len(s)
            BY <2>2 DEF NoRepeats
        <3> QED BY <1>4, <3>1
    <2>3. ~(/\ i \in DOMAIN s /\ u[i] = s[i]
            /\ j - Len(s) \in DOMAIN t /\ u[j] = t[j - Len(s)])
        BY DEF TagsOf
    <2>4. ~(/\ j \in DOMAIN s /\ u[j] = s[j]
            /\ i - Len(s) \in DOMAIN t /\ u[i] = t[i - Len(s)])
        BY DEF TagsOf
    <2> QED BY <1>5, <2>1, <2>2, <2>3, <2>4
<1>8. IsList(u)
    BY ConcatIsList
<1> QED BY <1>6, <1>7, <1>8

\* A tag alone, or left out.
LEMMA OneTagIsList ==
    ASSUME NEW cond, NEW x
    PROVE  /\ IsList(Only(cond, <<x>>)) /\ NoRepeats(Only(cond, <<x>>))
           /\ TagsOf(Only(cond, <<x>>)) = IF cond THEN {x} ELSE {}
<1>1. /\ IsList(<<x>>) /\ NoRepeats(<<x>>) /\ TagsOf(<<x>>) = {x}
    BY OneIsList DEF NoRepeats, TagsOf
<1>2. /\ IsList(<<>>) /\ NoRepeats(<<>>) /\ TagsOf(<<>>) = {}
    BY NoneIsList DEF NoRepeats, TagsOf
<1> QED BY <1>1, <1>2 DEF Only

\* No two outbounds have one tag.
LEMMA OneTag ==
    ASSUME NEW n \in NodeSpecs, ValidateNodeSpec(n) PROVE NoRepeats(BuildOutbounds(n))
<1> DEFINE own == TagsOf(n.custom) \cup TagsOf(n.local)
<1>1. IsList(n.custom) /\ IsList(n.local)
    BY PlanAssumption DEF IsList
<1>2. /\ IsList(CustomOutbounds(n)) /\ NoRepeats(CustomOutbounds(n))
      /\ TagsOf(CustomOutbounds(n)) = own
    BY <1>1, JoinedTags DEF ValidateNodeSpec, CustomOutboundsValid, CustomOutbounds
<1>3. n.child # NoRoute => n.child.tag \notin {"direct", "block"} \cup own
    BY DEF ValidateNodeSpec, RelayEntryValid, AvailableTags
<1> HIDE DEF own
<1>4. ASSUME NEW tag
      PROVE  /\ IsList(Default(n, tag)) /\ NoRepeats(Default(n, tag))
             /\ TagsOf(Default(n, tag)) = IF tag \notin own THEN {tag} ELSE {}
    BY <1>2, OneTagIsList DEF Default
<1>5. /\ IsList(RelayOutbounds(n)) /\ NoRepeats(RelayOutbounds(n))
      /\ TagsOf(RelayOutbounds(n)) = IF n.child # NoRoute THEN {n.child.tag} ELSE {}
    BY OneTagIsList DEF RelayOutbounds
<1>6. /\ IsList(FrontOutbounds(n)) /\ NoRepeats(FrontOutbounds(n))
      /\ TagsOf(FrontOutbounds(n)) = own \cup {"direct"}
    BY <1>2, <1>4, JoinedTags DEF FrontOutbounds
<1>7. /\ IsList(BackOutbounds(n)) /\ NoRepeats(BackOutbounds(n))
      /\ TagsOf(BackOutbounds(n)) = TagsOf(Default(n, "block")) \cup TagsOf(RelayOutbounds(n))
    <2>1. TagsOf(Default(n, "block")) \cap TagsOf(RelayOutbounds(n)) = {}
        BY <1>3, <1>4, <1>5
    <2> QED BY <1>4, <1>5, <2>1, JoinedTags DEF BackOutbounds
<1>8. TagsOf(FrontOutbounds(n)) \cap TagsOf(BackOutbounds(n)) = {}
    BY <1>3, <1>4, <1>5, <1>6, <1>7
<1> QED BY <1>6, <1>7, <1>8, JoinedTags DEF BuildOutbounds

\* The first elements of a list that begins with one or two.
LEMMA FirstOne ==
    ASSUME NEW x, NEW t, IsList(t)
    PROVE  /\ IsList(<<x>> \o t) /\ 1 \in DOMAIN (<<x>> \o t) /\ (<<x>> \o t)[1] = x
<1>1. PICK T : t \in Seq(T)
    BY DEF IsList
<1>2. t \in Seq(T \cup {x}) /\ <<x>> \in Seq(T \cup {x})
    BY <1>1
<1>3. /\ 1 \in DOMAIN (<<x>> \o t) /\ (<<x>> \o t)[1] = x
    BY <1>2
<1> QED BY <1>3, OneIsList, ConcatIsList

\* The first two.
LEMMA FirstTwo ==
    ASSUME NEW x, NEW y, NEW t, IsList(t)
    PROVE  /\ IsList(<<x, y>> \o t) /\ 1 \in DOMAIN (<<x, y>> \o t)
           /\ 2 \in DOMAIN (<<x, y>> \o t)
           /\ (<<x, y>> \o t)[1] = x /\ (<<x, y>> \o t)[2] = y
<1>1. PICK T : t \in Seq(T)
    BY DEF IsList
<1>2. t \in Seq(T \cup {x, y}) /\ <<x, y>> \in Seq(T \cup {x, y})
    BY <1>1
<1>3. /\ 1 \in DOMAIN (<<x, y>> \o t) /\ 2 \in DOMAIN (<<x, y>> \o t)
      /\ (<<x, y>> \o t)[1] = x /\ (<<x, y>> \o t)[2] = y
    BY <1>2
<1> QED BY <1>3, TwoIsList, ConcatIsList

\* One rule before the two.
LEMMA FirstThree ==
    ASSUME NEW z, NEW x, NEW y, NEW t, IsList(t)
    PROVE  LET s == <<z>> \o (<<x, y>> \o t) IN
           /\ IsList(s) /\ 1 \in DOMAIN s /\ 2 \in DOMAIN s /\ 3 \in DOMAIN s
           /\ s[1] = z /\ s[2] = x /\ s[3] = y
<1>1. PICK T : t \in Seq(T)
    BY DEF IsList
<1>2. t \in Seq(T \cup {x, y, z}) /\ <<x, y>> \in Seq(T \cup {x, y, z})
    BY <1>1
<1> DEFINE u == <<x, y>> \o t
<1>3. /\ u \in Seq(T \cup {x, y, z}) /\ Len(u) = 2 + Len(t) /\ Len(t) \in Nat
      /\ u[1] = x /\ u[2] = y
    BY <1>2
<1> HIDE DEF u
<1>4. <<z>> \in Seq(T \cup {x, y, z})
    OBVIOUS
<1> DEFINE s == <<z>> \o u
<1>5. /\ s \in Seq(T \cup {x, y, z}) /\ Len(s) = 3 + Len(t)
      /\ s[1] = z /\ s[2] = x /\ s[3] = y
    BY <1>3, <1>4
<1>6. 1 \in DOMAIN s /\ 2 \in DOMAIN s /\ 3 \in DOMAIN s
    BY <1>3, <1>5
<1>7. IsList(s)
    BY <1>5 DEF IsList
<1> QED BY <1>5, <1>6, <1>7 DEF u

\* The rules of names and of networks.
LEMMA NamesAndNetworksIsList ==
    ASSUME NEW rule, NEW match
    PROVE  /\ IsList(NetworksOf(rule, match)) /\ IsList(NamesAndNetworks(rule, match))
<1>1. IsList(NamesOf(rule, match)) /\ IsList(NetworksOf(rule, match))
    BY OneIsList, OnlyIsList DEF NamesOf, NetworksOf
<1> QED BY <1>1, ConcatIsList DEF NamesAndNetworks

\* The rules of the administrator.
LEMMA CustomIsList ==
    ASSUME NEW n PROVE IsList(CustomRules(n)) /\ IsList(AfterResolve(n))
<1>1. IsList(RawRule(n))
    BY OneIsList DEF RawRule
<1>2. IsList(IF n.kernel = "singbox" THEN SingBoxCompileCustom(n.rule)
             ELSE XrayCompileCustom(n.rule))
    BY NamesAndNetworksIsList DEF SingBoxCompileCustom, XrayCompileCustom
<1>3. IsList(CustomRules(n))
    BY <1>1, <1>2, OnlyIsList, ConcatIsList DEF CustomRules
<1>4. IsList(AfterResolve(n))
    BY <1>1, NamesAndNetworksIsList, OnlyIsList, ConcatIsList DEF AfterResolve
<1> QED BY <1>3, <1>4

\* The rules of the panel.
LEMMA PanelIsList ==
    ASSUME NEW n PROVE IsList(SingBoxCompilePanel(n)) /\ IsList(XrayCompilePanel(n))
<1>1. ASSUME NEW p, NEW out PROVE IsList(CompilePanelTo(p, out))
    <2> DEFINE rule == [Rule(out) EXCEPT !.proto = PanelRouteConditions(p).proto]
    <2>1. IsList(<<rule>>)
        BY OneIsList
    <2> HIDE DEF rule
    <2>2. IsList(NamesAndNetworks(rule, p.match \ Blanks)
                 \o Only(p.match = {} /\ PanelRouteConditions(p).proto # {}, <<rule>>))
        BY <2>1, NamesAndNetworksIsList, OnlyIsList, ConcatIsList
    <2> QED BY <2>2, OnlyIsList DEF CompilePanelTo, rule
<1> QED BY <1>1, OnlyIsList DEF SingBoxCompilePanel, XrayCompilePanel

\* The rules of the lines.
LEMMA LinesAreLists ==
    ASSUME NEW n PROVE IsList(ChildRules(n)) /\ IsList(EntryRules(n))
<1>1. ASSUME NEW r, NEW tag PROVE IsList(LineRule(n, r, tag))
    BY OneIsList, OnlyIsList DEF LineRule
<1>2. IsList(Only(n.kernel = "xray", LineRule(n, BlockedRoute, "block"))
             \o LineRule(n, n.child.route, n.child.tag))
    BY <1>1, OnlyIsList, ConcatIsList
<1> QED BY <1>1, <1>2, OnlyIsList DEF ChildRules, EntryRules

\* What follows the guard in the list of xray, and the policy in both.
AfterGuard(n) ==
    CustomRules(n) \o PrivateRule
    \o ChildRules(n) \o XrayCompilePanel(n) \o EntryRules(n)

\* In the list of xray the guard comes first.
LEMMA GuardComesFirst ==
    ASSUME NEW n PROVE BuildRouting(n) = GuardRules(n) \o AfterGuard(n)
<1> DEFINE g == GuardRules(n)
           a == CustomRules(n)
           b == PrivateRule
           c == ChildRules(n)
           d == XrayCompilePanel(n)
           e == EntryRules(n)
<1>0. /\ IsList(g) /\ IsList(a) /\ IsList(b) /\ IsList(c) /\ IsList(d) /\ IsList(e)
    <2>1. IsList(g)
        BY TwoIsList, OnlyIsList DEF GuardRules
    <2>2. IsList(b)
        BY OneIsList DEF PrivateRule
    <2> QED BY <2>1, <2>2, CustomIsList, PanelIsList, LinesAreLists
<1>both. /\ BuildRouting(n) = g \o a \o b \o c \o d \o e
         /\ AfterGuard(n) = a \o b \o c \o d \o e
    BY DEF BuildRouting, AfterGuard
<1> HIDE DEF g, a, b, c, d, e
<1> DEFINE ab == Join(a, b)
           abc == Join(ab, c)
           abcd == Join(abc, d)
           abcde == Join(abcd, e)
<1>1. IsList(ab)
    BY <1>0, JoinIsList
<1>2. IsList(abc)
    BY <1>0, <1>1, JoinIsList
<1>3. IsList(abcd)
    BY <1>0, <1>2, JoinIsList
<1>4. IsList(abcde)
    BY <1>0, <1>3, JoinIsList
<1> HIDE DEF ab, abc, abcd, abcde
<1>6. Join(Join(g, a), b) = Join(g, ab)
    <2>1. ab = Join(a, b)
        BY DEF ab
    <2> QED BY <1>0, <2>1, JoinAssociates, SMT
<1>7. Join(Join(g, ab), c) = Join(g, abc)
    <2>1. abc = Join(ab, c)
        BY DEF abc
    <2> QED BY <1>0, <1>1, <2>1, JoinAssociates, SMT
<1>8. Join(Join(g, abc), d) = Join(g, abcd)
    <2>1. abcd = Join(abc, d)
        BY DEF abcd
    <2> QED BY <1>0, <1>2, <2>1, JoinAssociates, SMT
<1>9. Join(Join(g, abcd), e) = Join(g, abcde)
    <2>1. abcde = Join(abcd, e)
        BY DEF abcde
    <2> QED BY <1>0, <1>3, <2>1, JoinAssociates, SMT
<1>10. Join(Join(Join(Join(Join(g, a), b), c), d), e) = Join(g, abcde)
    BY <1>6, <1>7, <1>8, <1>9
<1>11. /\ abcde = a \o b \o c \o d \o e
       /\ Join(Join(Join(Join(Join(g, a), b), c), d), e) = g \o a \o b \o c \o d \o e
       /\ Join(g, abcde) = g \o abcde
    BY DEF Join, ab, abc, abcd, abcde
<1>12. BuildRouting(n) = g \o AfterGuard(n)
    BY <1>both, <1>10, <1>11
<1> QED BY <1>12 DEF g

\* What both builders put together are lists.
LEMMA ListsOfRules ==
    ASSUME NEW n
    PROVE  /\ IsList(BuildRoutes(n)) /\ IsList(AfterGuard(n)) /\ IsList(GuardRules(n))
           /\ IsList(FileRules(n)) /\ IsList(SourceRules(n)) /\ IsList(BuildRouting(n))
<1>1. IsList(PrivateRule) /\ \A name : IsList(Action(name))
    BY OneIsList DEF PrivateRule, Action
<1>2. IsList(Only(RouteSniffProtocols(n), Action("sniff")))
    BY <1>1, OnlyIsList
<1>3. /\ IsList(CustomRules(n)) /\ IsList(AfterResolve(n)) /\ IsList(ChildRules(n))
      /\ IsList(EntryRules(n)) /\ IsList(SingBoxCompilePanel(n)) /\ IsList(XrayCompilePanel(n))
    BY CustomIsList, PanelIsList, LinesAreLists
<1>4. IsList(BuildRoutes(n))
    BY <1>1, <1>2, <1>3, ConcatIsList DEF BuildRoutes
<1>5. IsList(AfterGuard(n))
    BY <1>1, <1>3, ConcatIsList DEF AfterGuard
<1>6. IsList(GuardRules(n)) /\ IsList(FileRules(n)) /\ IsList(SourceRules(n))
    BY OneIsList, TwoIsList, OnlyIsList DEF GuardRules, FileRules, SourceRules
<1>7. IsList(BuildRouting(n))
    BY <1>1, <1>3, <1>6, ConcatIsList DEF BuildRouting
<1> QED BY <1>4, <1>5, <1>6, <1>7

-----------------------------------------------------------------------------
\* The first rule that matches decides.
LEMMA FirstDecides ==
    ASSUME IsList(rules), NEW i \in DOMAIN rules, NEW q, RuleMatches(i, q),
           \A j \in 1 .. (i - 1) : ~RuleMatches(j, q)
    PROVE  RouteOf(q) = rules[i].out
<1>1. DOMAIN rules \subseteq Nat \ {0}
    BY DEF IsList
<1> DEFINE First(k) == RuleMatches(k, q) /\ \A j \in 1 .. (k - 1) : ~RuleMatches(j, q)
<1>2. First(i)
    OBVIOUS
<1>3. ASSUME NEW k \in DOMAIN rules, First(k) PROVE k = i
    <2>1. k \in Nat \ {0} /\ i \in Nat \ {0}
        BY <1>1
    <2>2. CASE k < i
        <3>1. k \in 1 .. (i - 1)
            BY <2>1, <2>2
        <3> QED BY <1>3, <3>1
    <2>3. CASE i < k
        <3>1. i \in 1 .. (k - 1)
            BY <2>1, <2>3
        <3> QED BY <1>3, <3>1
    <2> QED BY <2>1, <2>2, <2>3
<1>4. (CHOOSE k \in DOMAIN rules : First(k)) = i
    <2> HIDE DEF First
    <2> QED BY <1>2, <1>3
<1> QED BY <1>4, Zenon DEF RouteOf

\* The rule of the policy comes first.
LEMMA DeniedIsRejected ==
    ASSUME PlanFits, phase = "running", node.policy = "ready",
           NEW q, q.inb = "node", q.src = "denied"
    PROVE  RouteOf(q) = "reject"
<1> DEFINE r == [Rule("reject") EXCEPT !.inb = {"node"}, !.src = {"denied"}]
<1>1. SourceRules(node) = <<r>>
    BY DEF SourceRules, Only
<1>2. PICK t : IsList(t) /\ rules = <<r>> \o t
    <2>1. rules = IF node.kernel = "singbox"
                  THEN SourceRules(node) \o (FileRules(node) \o BuildRoutes(node))
                  ELSE SourceRules(node) \o (FileRules(node) \o BuildRouting(node))
        BY DEF PlanFits, BuildRules, SingBoxRules, XrayRules, MergeCustomSingbox, MergeCustomXray
    <2>2. /\ IsList(FileRules(node) \o BuildRoutes(node))
          /\ IsList(FileRules(node) \o BuildRouting(node))
        BY ListsOfRules, ConcatIsList
    <2> HIDE DEF r
    <2> QED BY <1>1, <2>1, <2>2
<1>3. IsList(rules) /\ 1 \in DOMAIN rules /\ rules[1] = r
    <2> HIDE DEF r
    <2> QED BY <1>2, FirstOne
<1>4. /\ r.out = "reject" /\ r.inb = {"node"} /\ r.src = {"denied"}
      /\ r.line = {} /\ r.addr = {} /\ r.proto = {}
    BY DEF Rule, Anything
<1> HIDE DEF r
<1>5. RuleMatches(1, q)
    BY <1>3, <1>4 DEF RuleMatches
<1>6. \A j \in 1 .. (1 - 1) : ~RuleMatches(j, q)
    OBVIOUS
<1> QED BY <1>3, <1>4, <1>5, <1>6, FirstDecides

\* The two rules of the guard come next.
LEMMA GuardDecides ==
    ASSUME PlanFits, phase = "running", node.guard, node.kernel = "xray",
           node.file = NoRoute,
           NEW q \in GuardRequests
    PROVE  RouteOf(q) = IF q.name = "site" THEN "direct" ELSE "block"
<1> DEFINE x == [Rule("direct") EXCEPT !.inb = {"guard"}, !.addr = {"site"}]
           y == [Rule("block") EXCEPT !.inb = {"guard"}]
           z == [Rule("reject") EXCEPT !.inb = {"node"}, !.src = {"denied"}]
<1>1. GuardRules(node) = <<x, y>> /\ FileRules(node) = <<>>
    BY DEF GuardRules, FileRules, Only
<1>2. SourceRules(node) = <<z>> \/ SourceRules(node) = <<>>
    BY DEF SourceRules, Only
<1>3. /\ x.out = "direct" /\ x.inb = {"guard"} /\ x.src = {} /\ x.line = {}
      /\ x.addr = {"site"} /\ x.proto = {}
      /\ y.out = "block" /\ y.inb = {"guard"} /\ y.src = {} /\ y.line = {}
      /\ y.addr = {} /\ y.proto = {}
      /\ z.inb = {"node"}
    BY DEF Rule, Anything
<1> HIDE DEF x, y, z
<1>4. q.inb = "guard" /\ q.net # "site"
    BY DEF GuardRequests, Networks
<1>5. IsList(AfterGuard(node)) /\ BuildRouting(node) = <<x, y>> \o AfterGuard(node)
    BY <1>1, ListsOfRules, GuardComesFirst
<1>6. rules = SourceRules(node) \o (<<>> \o BuildRouting(node))
    BY <1>1 DEF PlanFits, BuildRules, XrayRules, MergeCustomXray
<1>7. <<>> \o BuildRouting(node) = BuildRouting(node)
    <2>1. PICK S : BuildRouting(node) \in Seq(S)
        BY ListsOfRules DEF IsList
    <2> QED BY <2>1, ConcatEmptySeq
\* The rules before the guard's two do not match, and these decide by the name.
<1>8. ASSUME NEW k \in {1, 2}, IsList(rules), k \in DOMAIN rules, k + 1 \in DOMAIN rules,
             rules[k] = x, rules[k + 1] = y, k = 2 => rules[1] = z
      PROVE  RouteOf(q) = IF q.name = "site" THEN "direct" ELSE "block"
    <2>1. \A j \in 1 .. (k - 1) : ~RuleMatches(j, q)
        <3>1. ASSUME k = 2 PROVE ~RuleMatches(1, q)
            BY <1>3, <1>4, <1>8, <3>1 DEF RuleMatches
        <3> QED BY <3>1
    <2>2. CASE q.name = "site"
        <3>1. RuleMatches(k, q)
            BY <1>3, <1>4, <1>8, <2>2 DEF RuleMatches
        <3>2. RouteOf(q) = rules[k].out
            BY <1>8, <2>1, <3>1, FirstDecides
        <3> QED BY <1>3, <1>8, <2>2, <3>2
    <2>3. CASE q.name # "site"
        <3>1. ~RuleMatches(k, q)
            BY <1>3, <1>4, <1>8, <2>3 DEF RuleMatches
        <3>2. RuleMatches(k + 1, q)
            BY <1>3, <1>4, <1>8 DEF RuleMatches
        <3>3. \A j \in 1 .. ((k + 1) - 1) : ~RuleMatches(j, q)
            BY <2>1, <3>1
        <3>4. RouteOf(q) = rules[k + 1].out
            BY <1>8, <3>2, <3>3, FirstDecides
        <3> QED BY <1>3, <1>8, <2>3, <3>4
    <2> QED BY <2>2, <2>3
<1>9. CASE SourceRules(node) = <<>>
    <2>1. rules = <<x, y>> \o AfterGuard(node)
        <3>1. PICK S : <<x, y>> \o AfterGuard(node) \in Seq(S)
            BY <1>5, TwoIsList, ConcatIsList DEF IsList
        <3> QED BY <1>5, <1>6, <1>7, <1>9, <3>1, ConcatEmptySeq
    <2>2. /\ IsList(rules) /\ 1 \in DOMAIN rules /\ 1 + 1 \in DOMAIN rules
          /\ rules[1] = x /\ rules[1 + 1] = y
        BY <1>5, <2>1, FirstTwo
    <2> QED BY <1>8, <2>2
<1>10. CASE SourceRules(node) = <<z>>
    <2>1. rules = <<z>> \o (<<x, y>> \o AfterGuard(node))
        BY <1>5, <1>6, <1>7, <1>10
    <2>2. /\ IsList(rules) /\ 2 \in DOMAIN rules /\ 2 + 1 \in DOMAIN rules
          /\ rules[1] = z /\ rules[2] = x /\ rules[2 + 1] = y
        BY <1>5, <2>1, FirstThree
    <2> QED BY <1>8, <2>2
<1> QED BY <1>2, <1>9, <1>10

\* What every step keeps.
LEMMA PlanHolds == PlanSpec => [](PlanTypeOK /\ PlanFits)
<1>1. PlanInit => PlanTypeOK /\ PlanFits
    BY PlanStarts
<1>2. PlanTypeOK /\ PlanFits /\ [PlanNext]_planVars => (PlanTypeOK /\ PlanFits)'
    BY PlanStep
<1> QED BY <1>1, <1>2, PTL DEF PlanSpec

\* config.go: what runs is what the builder made of an accepted node.
THEOREM PlanIsWhatWasBuilt == PlanSpec => []PlanFits
    BY PlanHolds, PTL

\* routing.go, source_filter.go: whatever rules the administrator and the panel
\* give, no two outbounds share a tag, a denied source is rejected, and the
\* camouflage guard of xray decides first.
THEOREM NothingPassesTheGuards == PlanSpec => []GuardedPlan
<1>1. PlanTypeOK /\ PlanFits => GuardedPlan
    <2> SUFFICES ASSUME PlanTypeOK, PlanFits, phase = "running" PROVE GuardedPlan
        BY DEF GuardedPlan
    <2>1. NoRepeats(outbounds)
        BY OneTag DEF PlanTypeOK, PlanFits
    <2>2. ASSUME NEW q \in Requests, q.src = "denied", node.policy = "ready"
          PROVE  RouteOf(q) = "reject"
        <3>1. q.inb = "node"
            BY DEF Requests
        <3> QED BY <2>2, <3>1, DeniedIsRejected
    <2>3. ASSUME node.guard, node.kernel = "xray", node.file = NoRoute, NEW q \in GuardRequests
          PROVE  RouteOf(q) = IF q.name = "site" THEN "direct" ELSE "block"
        BY <2>3, GuardDecides
    <2> QED BY <2>1, <2>2, <2>3 DEF GuardedPlan
<1> QED BY <1>1, PlanHolds, PTL
===============================================================================
