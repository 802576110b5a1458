--------------------------- MODULE XrayAdmission ----------------------------
(***************************************************************************)
(* Admission of requests by the LimitDispatcher of the xray kernel         *)
(* (dispatcher.go, xray/relay_access.go, relay_access.go): the goroutines  *)
(* of several requests of one user run through Dispatch or DispatchLink    *)
(* while links are closed, permits revoked, the users replaced and, right  *)
(* after the start of an instance, the gate and the limiter are attached   *)
(* to a dispatcher that already serves (phase 4 of startLocked).           *)
(*                                                                         *)
(* One user, on a relay entry with one line.  A source is what countKey    *)
(* makes of the address.                                                   *)
(***************************************************************************)
EXTENDS Integers, FiniteSets

CONSTANTS
    XReqs,         \* requests
    XSources,      \* sources they come from
    XConnLimits,   \* values of MaxConnByUserID
    XDeviceLimit,  \* deviceLimits[email]
    XNoSnapshot,   \* no fresh state of the other nodes
    XSnapshots     \* states of the other nodes the panel sends

ASSUME XAdmissionAssumption ==
    /\ XConnLimits \cup {XDeviceLimit} \subseteq Nat \ {0}
    /\ IsFiniteSet(XReqs) /\ IsFiniteSet(XSources) /\ XSources # {}
    /\ XSnapshots \subseteq SUBSET XSources

VARIABLES
        \* fixed: the gate is enabled, the node is a relay entry, the limit
    xGated, xRelay, xLimit,
        \* LimitDispatcher
    attached,    \* connLimiter and deviceGate are set
    emailKnown,  \* the user is in emailToUID and deviceLimits
    userIPs,     \* references per source
    userConns, connCount,
    xGlobal,     \* fresh globalDevices of the user, or XNoSnapshot
    relaySources,
        \* RelayAccess
    xAllowed, xAccesses,
        \* goroutines
    xUpdater,    \* setDispatcherLimits and SetRelayAccess: idle or between
    reqs,        \* the requests
    stranded,    \* history: references per source that stay for good
    exempt       \* history: sources not held against the limit

countVars == <<userIPs, userConns, connCount, relaySources>>
fixedVars == <<xGated, xRelay, xLimit>>
accessState == <<xAllowed, xAccesses, xUpdater>>
xAdmissionVars == <<fixedVars, attached, emailKnown, countVars, xGlobal, accessState,
                    reqs, stranded, exempt>>

NewReq == [at |-> "none", life |-> "none", source |-> CHOOSE s \in XSources : TRUE,
           listed |-> FALSE,  \* has a reference in userIPs
           slot |-> FALSE,    \* uid > 0: has a slot of userConns
           permit |-> "none"]
NoRefs == [s \in XSources |-> 0]

XAdmissionInit ==
    /\ xGated \in BOOLEAN /\ xRelay \in BOOLEAN /\ xLimit \in XConnLimits
    /\ attached = FALSE /\ emailKnown = TRUE
    /\ userIPs = NoRefs /\ userConns = 0 /\ connCount = 0 /\ relaySources = NoRefs
    /\ xGlobal = XNoSnapshot
    /\ xAllowed = TRUE /\ xAccesses = {} /\ xUpdater = [at |-> "idle", close |-> {}]
    /\ reqs = [r \in XReqs |-> NewReq]
    /\ stranded = NoRefs /\ exempt = {}

XBecome(r, at, life, listedAs, slot, permit) ==
    reqs' = [reqs EXCEPT ![r] = [at |-> at, life |-> life, source |-> @.source,
                                 listed |-> listedAs, slot |-> slot, permit |-> permit]]
XStep(r, at) == XBecome(r, at, reqs[r].life, reqs[r].listed, reqs[r].slot, reqs[r].permit)
XDie(r, life) == XBecome(r, reqs[r].at, life, reqs[r].listed, reqs[r].slot, reqs[r].permit)
XRefused(r) == reqs' = [reqs EXCEPT ![r] = NewReq]
XAdd(bag, s) == [bag EXCEPT ![s] = @ + 1]
XDrop(bag, s) == [bag EXCEPT ![s] = IF @ > 1 THEN @ - 1 ELSE 0]
Managed == attached /\ xGated

-----------------------------------------------------------------------------
(* identifyAndCheck                                                         *)

\* RelayAccess.Allows.
Identify(r) ==
    /\ reqs[r].at = "none"
    /\ xRelay => xAllowed
    /\ \E s \in XSources :
          reqs' = [reqs EXCEPT ![r] = [at |-> "identified", life |-> "none", source |-> s,
                                       listed |-> FALSE, slot |-> FALSE, permit |-> "none"]]
    /\ UNCHANGED <<fixedVars, attached, emailKnown, countVars, xGlobal, accessState,
                   stranded, exempt>>

XKeys == {s \in XSources : userIPs[s] > 0}

\* checkDeviceLimit: the check and the reference are one step under the
\* user's lock.  A user that is gone has no limit.
XNoDeviceSlot(s) ==
    /\ emailKnown /\ userIPs[s] = 0
    /\ IF xGlobal = XNoSnapshot THEN Cardinality(XKeys) >= XDeviceLimit
       ELSE s \notin xGlobal /\ Cardinality(XKeys \cup xGlobal) >= XDeviceLimit

CheckDeviceLimit(r) ==
    LET s == reqs[r].source IN
    /\ reqs[r].at = "identified"
    /\ \/ /\ Managed
          /\ XStep(r, "checked") /\ UNCHANGED <<userIPs, exempt>>
       \/ /\ ~Managed /\ XNoDeviceSlot(s)
          /\ XRefused(r) /\ UNCHANGED <<userIPs, exempt>>
       \/ /\ ~Managed /\ ~XNoDeviceSlot(s)
          /\ userIPs' = XAdd(userIPs, s)
          /\ XBecome(r, "checked", reqs[r].life, TRUE, reqs[r].slot, reqs[r].permit)
          /\ exempt' = IF ~emailKnown \/ (xGlobal # XNoSnapshot /\ s \in xGlobal)
                       THEN exempt \cup {s} ELSE exempt
    /\ UNCHANGED <<fixedVars, attached, emailKnown, userConns, connCount, relaySources,
                   xGlobal, accessState, stranded>>

\* checkConnGate: the slot is taken with CompareAndSwap.  Without a limiter or
\* without the user there is no limit and no slot.
TakeSlot(r) ==
    /\ reqs[r].at = "checked"
    /\ \/ /\ ~(attached /\ emailKnown)
          /\ XStep(r, "admitted") /\ UNCHANGED userConns
       \/ /\ attached /\ emailKnown /\ userConns < xLimit
          /\ userConns' = userConns + 1
          /\ XBecome(r, "token", reqs[r].life, reqs[r].listed, TRUE, reqs[r].permit)
       \/ /\ attached /\ emailKnown /\ userConns >= xLimit
          /\ XStep(r, "unlist") /\ UNCHANGED userConns
    /\ UNCHANGED <<fixedVars, attached, emailKnown, userIPs, connCount, relaySources,
                   xGlobal, accessState, stranded, exempt>>

\* AllowNewConn: without a token the slot goes back.
TakeToken(r) ==
    /\ reqs[r].at = "token"
    /\ \/ XStep(r, "admitted") /\ UNCHANGED userConns
       \/ /\ userConns' = userConns - 1
          /\ XBecome(r, "unlist", reqs[r].life, reqs[r].listed, FALSE, reqs[r].permit)
    /\ UNCHANGED <<fixedVars, attached, emailKnown, userIPs, connCount, relaySources,
                   xGlobal, accessState, stranded, exempt>>

\* Mutant: the reference of a refused request stays.
KeepReference(r) ==
    /\ reqs[r].at = "unlist"
    /\ XRefused(r)
    /\ UNCHANGED <<fixedVars, attached, emailKnown, countVars, xGlobal, accessState,
                   stranded, exempt>>

\* The end of identifyAndCheck for a refused request: its reference goes.
Unlist(r) ==
    /\ reqs[r].at = "unlist"
    /\ userIPs' = IF reqs[r].listed THEN XDrop(userIPs, reqs[r].source) ELSE userIPs
    /\ XRefused(r)
    /\ UNCHANGED <<fixedVars, attached, emailKnown, userConns, connCount, relaySources,
                   xGlobal, accessState, stranded, exempt>>

-----------------------------------------------------------------------------
(* acquireDevice                                                            *)

\* Up to the answer of the gate (external).  Refused: the slot goes back.
XAcquire(r) ==
    /\ reqs[r].at = "admitted"
    /\ \/ /\ ~Managed
          /\ XStep(r, "dispatch") /\ UNCHANGED <<userConns, stranded>>
       \/ /\ Managed /\ emailKnown
          /\ XBecome(r, "granted", reqs[r].life, reqs[r].listed, reqs[r].slot, "held")
          /\ UNCHANGED <<userConns, stranded>>
       \/ /\ Managed
          /\ userConns' = IF reqs[r].slot THEN userConns - 1 ELSE userConns
          /\ stranded' = IF reqs[r].listed THEN XAdd(stranded, reqs[r].source) ELSE stranded
          /\ XRefused(r)
    /\ UNCHANGED <<fixedVars, attached, emailKnown, userIPs, connCount, relaySources,
                   xGlobal, accessState, exempt>>

\* Is the user still there?  Then the reference is taken under the same lock:
\* a second one, when the gate was attached after identifyAndCheck.
XRevalidate(r) ==
    /\ reqs[r].at = "granted"
    /\ \/ /\ emailKnown
          /\ userIPs' = XAdd(userIPs, reqs[r].source)
          /\ stranded' = IF reqs[r].listed THEN XAdd(stranded, reqs[r].source) ELSE stranded
          /\ XBecome(r, "dispatch", reqs[r].life, TRUE, reqs[r].slot, reqs[r].permit)
          /\ UNCHANGED userConns
       \/ /\ ~emailKnown
          /\ userConns' = IF reqs[r].slot THEN userConns - 1 ELSE userConns
          /\ stranded' = IF reqs[r].listed THEN XAdd(stranded, reqs[r].source) ELSE stranded
          /\ XRefused(r) /\ UNCHANGED userIPs
    /\ UNCHANGED <<fixedVars, attached, emailKnown, connCount, relaySources,
                   xGlobal, accessState, exempt>>

\* The gate revokes; until trackLink the callback of Dispatch only cancels.
XGateRevoke(r) ==
    /\ reqs[r].permit = "held"
    /\ XBecome(r, reqs[r].at,
               IF reqs[r].at = "open" /\ reqs[r].life = "open" THEN "closing" ELSE reqs[r].life,
               reqs[r].listed, reqs[r].slot, "revoked")
    /\ UNCHANGED <<fixedVars, attached, emailKnown, countVars, xGlobal, accessState,
                   stranded, exempt>>

-----------------------------------------------------------------------------
(* Dispatch, DispatchLink and trackLink                                     *)

\* Dispatch: the inner Dispatch fails: the slot, the reference and the permit go back.
DispatchFails(r) ==
    /\ reqs[r].at = "dispatch"
    /\ userConns' = IF reqs[r].slot THEN userConns - 1 ELSE userConns
    /\ userIPs' = XDrop(userIPs, reqs[r].source)
    /\ XRefused(r)
    /\ UNCHANGED <<fixedVars, attached, emailKnown, connCount, relaySources,
                   xGlobal, accessState, stranded, exempt>>

\* trackLink up to the registration.
TrackLink(r) ==
    /\ reqs[r].at = "dispatch"
    /\ connCount' = connCount + 1
    /\ relaySources' = IF xRelay THEN XAdd(relaySources, reqs[r].source) ELSE relaySources
    /\ XBecome(r, "tracked", "open", reqs[r].listed, reqs[r].slot, reqs[r].permit)
    /\ UNCHANGED <<fixedVars, attached, emailKnown, userIPs, userConns,
                   xGlobal, accessState, stranded, exempt>>

XRegister(r) ==
    /\ reqs[r].at = "tracked"
    /\ XBecome(r, "registered",
               IF xRelay /\ ~xAllowed /\ reqs[r].life = "open" THEN "closing" ELSE reqs[r].life,
               reqs[r].listed, reqs[r].slot, reqs[r].permit)
    /\ xAccesses' = IF xRelay /\ xAllowed THEN xAccesses \cup {r} ELSE xAccesses
    /\ UNCHANGED <<fixedVars, attached, emailKnown, countVars, xGlobal,
                   xAllowed, xUpdater, stranded, exempt>>

\* Bind with closeConnection; a permit that is gone by now closes at once.
XBind(r) ==
    /\ reqs[r].at = "registered"
    /\ XBecome(r, "open",
               IF reqs[r].life = "open" /\ reqs[r].permit = "revoked" THEN "closing"
               ELSE reqs[r].life,
               reqs[r].listed, reqs[r].slot, reqs[r].permit)
    /\ UNCHANGED <<fixedVars, attached, emailKnown, countVars, xGlobal, accessState,
                   stranded, exempt>>

\* The caller closes or interrupts the writer, or in DispatchLink the inner
\* one has failed and release runs: closed.CompareAndSwap lets the first one through.
WriterCloses(r) ==
    /\ reqs[r].at = "open" /\ reqs[r].life = "open"
    /\ XDie(r, "closing")
    /\ UNCHANGED <<fixedVars, attached, emailKnown, countVars, xGlobal, accessState,
                   stranded, exempt>>

\* onClose: RelayAccess.Remove and delConn ...
OnCloseUnlist(r) ==
    /\ reqs[r].life = "closing"
    /\ xAccesses' = xAccesses \ {r}
    /\ userIPs' = XDrop(userIPs, reqs[r].source)
    /\ XBecome(r, reqs[r].at, "unlisted", FALSE, reqs[r].slot, reqs[r].permit)
    /\ UNCHANGED <<fixedVars, attached, emailKnown, userConns, connCount, relaySources,
                   xGlobal, xAllowed, xUpdater, stranded, exempt>>

\* ... then the source, the slot, the count and the permit.
OnCloseRelease(r) ==
    /\ reqs[r].life = "unlisted"
    /\ relaySources' = IF xRelay THEN XDrop(relaySources, reqs[r].source) ELSE relaySources
    /\ userConns' = IF reqs[r].slot THEN userConns - 1 ELSE userConns
    /\ connCount' = connCount - 1
    /\ XBecome(r, reqs[r].at, "done", reqs[r].listed, FALSE, "none")
    /\ UNCHANGED <<fixedVars, attached, emailKnown, userIPs, xGlobal, accessState,
                   stranded, exempt>>

\* The goroutine returns.
Returned(r) ==
    /\ reqs[r].life = "done" /\ reqs[r].at = "open"
    /\ XRefused(r)
    /\ xAccesses' = xAccesses
    /\ UNCHANGED <<fixedVars, attached, emailKnown, countVars, xGlobal, xAllowed, xUpdater,
                   stranded, exempt>>

-----------------------------------------------------------------------------
(* The kernel and the panel                                                 *)

\* Phase 4 of startLocked, after the instance has started to listen.
Attach ==
    /\ ~attached /\ attached' = TRUE
    /\ UNCHANGED <<fixedVars, emailKnown, countVars, xGlobal, accessState,
                   reqs, stranded, exempt>>

\* updateDispatcherLimits: UpdateLimits, then SetRelayAccess (Replace under
\* its lock, the closing after it).
UpdateLimits ==
    /\ attached /\ xUpdater.at = "idle"
    /\ emailKnown' = ~emailKnown
    /\ xUpdater' = [at |-> "access", close |-> {}]
    /\ UNCHANGED <<fixedVars, attached, countVars, xGlobal, xAllowed, xAccesses,
                   reqs, stranded, exempt>>

XReplace ==
    /\ xUpdater.at = "access"
    /\ xAllowed' = emailKnown
    /\ xUpdater' = [at |-> "close", close |-> IF emailKnown THEN {} ELSE xAccesses]
    /\ xAccesses' = IF emailKnown THEN xAccesses ELSE {}
    /\ UNCHANGED <<fixedVars, attached, emailKnown, countVars, xGlobal,
                   reqs, stranded, exempt>>

XCloseDisallowed ==
    /\ xUpdater.at = "close"
    /\ xUpdater' = [at |-> "idle", close |-> {}]
    /\ reqs' = [r \in XReqs |-> IF r \in xUpdater.close /\ reqs[r].life = "open"
                                THEN [reqs[r] EXCEPT !.life = "closing"] ELSE reqs[r]]
    /\ UNCHANGED <<fixedVars, attached, emailKnown, countVars, xGlobal,
                   xAllowed, xAccesses, stranded, exempt>>

XUpdateGlobalDevices ==
    /\ attached /\ ~xGated
    /\ xGlobal' \in XSnapshots \cup {XNoSnapshot} /\ xGlobal' # xGlobal
    /\ UNCHANGED <<fixedVars, attached, emailKnown, countVars, accessState,
                   reqs, stranded, exempt>>

XAdmissionNext ==
    \/ \E r \in XReqs :
          \/ Identify(r) \/ CheckDeviceLimit(r) \/ TakeSlot(r) \/ TakeToken(r) \/ Unlist(r)
          \/ XAcquire(r) \/ XRevalidate(r) \/ XGateRevoke(r)
          \/ DispatchFails(r) \/ TrackLink(r) \/ XRegister(r) \/ XBind(r)
          \/ WriterCloses(r) \/ OnCloseUnlist(r) \/ OnCloseRelease(r) \/ Returned(r)
    \/ Attach \/ UpdateLimits \/ XReplace \/ XCloseDisallowed \/ XUpdateGlobalDevices

XAdmissionSpec == XAdmissionInit /\ [][XAdmissionNext]_xAdmissionVars

-----------------------------------------------------------------------------
\* The limits hold and nothing is lost, however requests, closing and
\* revocation interleave: slots, references and the number of links are those
\* of the requests under way, within the limits (sources that other nodes
\* vouch for, and those of a user that was gone, apart); a source keeps a
\* reference for good only when the gate was attached between the two checks
\* of a request; once users without the line are in force no link of the line
\* stays open; and an open link that asked the gate has its permit.
XAdmissionHolds ==
    /\ userConns = Cardinality({r \in XReqs : reqs[r].slot}) /\ userConns <= xLimit
    /\ \A s \in XSources : userIPs[s] = stranded[s] + Cardinality(
          {r \in XReqs : reqs[r].listed /\ reqs[r].source = s})
    /\ (\A s \in XSources : stranded[s] = 0) /\ ~Managed
          => Cardinality(XKeys \ exempt) <= XDeviceLimit
    /\ connCount = Cardinality({r \in XReqs : reqs[r].life \in {"open", "closing", "unlisted"}})
    /\ \A s \in XSources : relaySources[s] = IF ~xRelay THEN 0 ELSE Cardinality(
          {r \in XReqs : reqs[r].source = s /\ reqs[r].life \in {"open", "closing", "unlisted"}})
    /\ xRelay /\ xUpdater.at = "idle" /\ ~xAllowed =>
          \A r \in XReqs : ~(reqs[r].at \in {"registered", "open"} /\ reqs[r].life = "open")
    /\ \A r \in XReqs : reqs[r].at = "open" /\ reqs[r].life = "open"
          => reqs[r].permit # "revoked"

-----------------------------------------------------------------------------
(***************************************************************************)
(* Types.  Counters are int64 in the code; that they are not negative is   *)
(* part of XAdmissionHolds.                                                *)
(***************************************************************************)
Admitting == {"checked", "token", "admitted", "unlist"}
Linked == {"tracked", "registered", "open"}
XRequests ==
    [at : {"none", "identified", "granted", "dispatch"} \cup Admitting \cup Linked,
     life : {"none", "open", "closing", "unlisted", "done"}, source : XSources,
     listed : BOOLEAN, slot : BOOLEAN, permit : {"none", "held", "revoked"}]

XAdmissionTypeOK ==
    /\ xGated \in BOOLEAN /\ xRelay \in BOOLEAN /\ xLimit \in XConnLimits
    /\ attached \in BOOLEAN /\ emailKnown \in BOOLEAN
    /\ userIPs \in [XSources -> Int] /\ userConns \in Int /\ connCount \in Int
    /\ xGlobal \in XSnapshots \cup {XNoSnapshot} /\ relaySources \in [XSources -> Int]
    /\ xAllowed \in BOOLEAN /\ xAccesses \subseteq XReqs
    /\ xUpdater \in [at : {"idle", "access", "close"}, close : SUBSET XReqs]
    /\ reqs \in [XReqs -> XRequests]
    /\ stranded \in [XSources -> Nat] /\ exempt \subseteq XSources

(***************************************************************************)
(* The inductive invariant behind XAdmissionHolds.                         *)
(***************************************************************************)
\* What a request holds in each step.  The gate may be attached between any
\* two of them: what was done without it is done.
ReqPhases ==
    \A r \in XReqs :
      /\ reqs[r].life = "none" <=> reqs[r].at \notin Linked
      /\ reqs[r].at \in {"none", "identified"} \/ reqs[r].life \in {"unlisted", "done"}
            => ~reqs[r].listed
      /\ reqs[r].at = "dispatch" \/ reqs[r].life \in {"open", "closing"} => reqs[r].listed
      /\ reqs[r].at \in {"none", "identified", "checked", "unlist"} \/ reqs[r].life = "done"
            => ~reqs[r].slot
      /\ reqs[r].at = "token" => reqs[r].slot
      /\ ~Managed /\ reqs[r].at \in Admitting => reqs[r].listed
      /\ reqs[r].at = "granted" => Managed

\* Without the gate every reference goes back.
NoneStranded == ~Managed => \A s \in XSources : stranded[s] = 0

\* A link that is open is in the table or with whoever emptied it.
XClosersKnow ==
    /\ ~xAllowed => xAccesses = {}
    /\ xUpdater.at # "close" => xUpdater.close = {}
    /\ xRelay => \A r \in XReqs :
          reqs[r].at \in {"registered", "open"} /\ reqs[r].life = "open" =>
              r \in xAccesses \cup xUpdater.close

XAdmissionInv == ReqPhases /\ NoneStranded /\ XClosersKnow /\ XAdmissionHolds
=============================================================================
