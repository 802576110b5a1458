----------------------------- MODULE DeviceGate -----------------------------
(***************************************************************************)
(* The device gate (internal/devicegate/manager.go, lease_cache.go): one   *)
(* node's side of the protocol by which the panel licenses the public IP   *)
(* addresses an account connects from.  A connection needs a permit of its *)
(* source; the source needs a lease the panel has confirmed and that has   *)
(* not expired.  Leases arrive by admission (one shared call per source)   *)
(* and by the periodic synchronisation; both calls carry a numbered        *)
(* snapshot, run concurrently, and their answers come back in any order.   *)
(*                                                                         *)
(* One action is one critical section of Manager.mu.  The lease cache of   *)
(* the current protocol is on.  A user has one source address; a source    *)
(* address of another user is another element of Users.                    *)
(*                                                                         *)
(* Manager.seq numbers snapshots and the events they are compared with; a  *)
(* critical section takes one number however many it draws, since only its *)
(* order relative to snapshots is ever compared.  The numbers that order   *)
(* new connections for the panel are left out.                             *)
(***************************************************************************)
EXTENDS Integers, FiniteSets

CONSTANTS
    Users,
    Leases,     \* lease identifiers; the panel may grant one again
    Conns,      \* connections
    None,
    Grace,      \* leaseGrace: how long a confirmation lasts
    Patience,   \* how long a call to the panel may stay unanswered
    MaxTime,    \* bound: the clock
    MaxSeq,     \* bound: Manager.seq
    MaxRuns,    \* bound: sessions
    MaxLate,    \* bound: requests that reach the panel after their call ended
    Events      \* bound: what happens besides connections and calls

ASSUME GateAssumption ==
    /\ Grace \in Nat \ {0} /\ Patience \in Nat /\ MaxTime \in Nat
    /\ MaxSeq \in Nat /\ MaxRuns \in Nat \ {0}
    /\ Patience < Grace
    /\ MaxLate \in Nat /\ Events \subseteq {"users", "revoke", "forget", "stop"}

VARIABLES
    now,       \* the clock, shared with the panel
    users,     \* the users the node may serve
    run,       \* Manager.run: the session, 0 for none
    runs,      \* sessions begun so far
    ready, closing,
    seq,       \* Manager.seq
    gate,      \* per user: source, revoked, retired, permissionBarriers
    flight,    \* per user: the shared admission, or None
    call,      \* the synchronisation that holds syncMu, or None
    wire,      \* requests the panel has not processed
    answers,   \* answers to the calls that still wait
    session,   \* panel: the session it knows
    hold,      \* panel: per user, the lease this node holds, or None
    fence      \* history: when the node last revoked a lease of a user

gateVars == <<now, users, run, runs, ready, closing, seq, gate, flight, call,
              wire, answers, session, hold, fence>>

Source(u) == gate[u].src
Live(src) == src # None /\ ~src.revoked
Usable(src) == Live(src) /\ now < src.deadline
Busy(u) == flight[u] # None
\* Connections that wait for an admission or hold a permit.
InUse == UNION {(IF Busy(u) THEN flight[u].waiters ELSE {}) \cup
                (IF Source(u) # None THEN Source(u).permits ELSE {}) : u \in Users}

-----------------------------------------------------------------------------
(***************************************************************************)
(* The operations on one user's part of the gate.  g is gate[u] and n the  *)
(* number of the critical section.                                         *)
(***************************************************************************)
\* retireLocked: an item without a session keeps the identity that still
\* waits for confirmation.
retireLocked(g, lease, id, n) ==
    LET item == IF id.run # 0 THEN id
                ELSE IF g.retired[lease] # None
                     THEN [run |-> g.retired[lease].run, cs |-> g.retired[lease].cs]
                     ELSE [run |-> run, cs |-> id.cs]
    IN [g EXCEPT !.retired[lease] = [run |-> item.run, cs |-> item.cs, seq |-> n]]

removeSourceLocked(g, n) ==
    retireLocked([g EXCEPT !.src = None], g.src.lease,
                 [run |-> g.src.run, cs |-> g.src.leaseSequence], n)

\* The records of revocations that are old enough go.
Purge(g) ==
    [g EXCEPT !.revoked = [l \in Leases |->
        IF g.revoked[l] # None /\ now > g.revoked[l].until THEN None ELSE g.revoked[l]]]

\* A revocation the node has dealt with already, or that is older than the
\* confirmation of the lease; number 0 is a local one.
Outdated(g, lease, s) ==
    /\ s # 0
    /\ \/ g.revoked[lease] # None /\ s <= g.revoked[lease].seq
       \/ g.src # None /\ g.src.lease = lease /\ s < g.src.confirmedSequence

\* Mutant: a revoked lease is returned before its connections are closed.
revokeLockedEarly(g, lease, id, s, n) ==
    LET p == Purge(g)
        marked == [p EXCEPT !.revoked[lease] = [until |-> now + Grace + 1, barrier |-> n, seq |-> s]]
    IN IF Outdated(p, lease, s) THEN p
       ELSE IF p.src = None \/ p.src.lease # lease THEN retireLocked(marked, lease, id, n)
       ELSE retireLocked([marked EXCEPT !.src.revoked = TRUE], lease,
                         [run |-> p.src.run, cs |-> p.src.leaseSequence], n)

\* revokeLocked for one item.
revokeLocked(g, lease, id, s, n) ==
    LET p == Purge(g)
        previous == IF p.revoked[lease] = None THEN 0 ELSE p.revoked[lease].seq
        marked == [p EXCEPT !.revoked[lease] =
                      [until |-> now + Grace + 1, barrier |-> n,
                       seq |-> IF s > previous THEN s ELSE previous]]
    IN IF Outdated(p, lease, s) THEN p
       ELSE IF p.src = None \/ p.src.lease # lease
            THEN retireLocked(marked, lease, id, n)
       ELSE IF p.src.permits = {}
            THEN removeSourceLocked(marked, n)
       ELSE [marked EXCEPT !.src.revoked = TRUE]

\* applyRevocations: revokeLocked for the items of an answer, at most one per
\* user.
NoIdentity == [run |-> 0, cs |-> 0]

Revoked(g, items, s, n) ==
    [u \in Users |->
        IF \E i \in items : i.user = u
          THEN revokeLocked(g[u], (CHOOSE i \in items : i.user = u).lease, NoIdentity, s, n)
          ELSE Purge(g[u])]

\* closeAll for one user.
Closed(g, n) ==
    IF g.src = None THEN g
    ELSE IF g.src.permits = {} THEN removeSourceLocked(g, n)
    ELSE [g EXCEPT !.src.revoked = TRUE]

\* Mutant: an answer that was under way at the revocation is accepted.
RefusedUnlessOlder(u, g, item, s) ==
    \/ closing \/ ~ready \/ u \notin users
    \/ s <= g.barrier
    \/ /\ g.src # None
       /\ \/ g.src.confirmedSequence > s
          \/ g.src.revoked
          \/ g.src.lease # item.lease /\ g.src.permits # {}

\* installLeaseLocked: the tests that refuse a lease ...
Refused(u, g, item, s) ==
    \/ closing \/ ~ready \/ u \notin users
    \/ s <= g.barrier
    \/ /\ g.revoked[item.lease] # None
       /\ s <= g.revoked[item.lease].barrier \/ item.cs < s
    \/ /\ g.src # None
       /\ \/ g.src.confirmedSequence > s
          \/ g.src.revoked
          \/ g.src.lease # item.lease /\ g.src.permits # {}

\* ... and what it does with the others.  A repeated confirmation does not
\* move the deadline.
Repeated(g, item) ==
    g.src # None /\ g.src.lease = item.lease /\ item.confirmedAt <= g.src.confirmedAt

larger(a, b) == IF a > b THEN a ELSE b

installLeaseLocked(g, item, deadline, s, n) ==
    IF Repeated(g, item)
      THEN [g EXCEPT !.src.confirmedSequence = s,
                     !.src.leaseSequence = larger(@, item.cs),
                     !.src.omissionSequence = larger(@, s)]
      ELSE LET kept == g.src # None /\ g.src.lease = item.lease
               base == IF g.src # None /\ ~kept THEN removeSourceLocked(g, n) ELSE g
           IN [base EXCEPT
                 !.src = [run |-> IF kept THEN g.src.run ELSE run,
                          lease |-> item.lease, revoked |-> FALSE,
                          permits |-> IF kept THEN g.src.permits ELSE {},
                          confirmedAt |-> item.confirmedAt, deadline |-> deadline,
                          confirmedSequence |-> s, omissionSequence |-> s,
                          leaseSequence |-> item.cs],
                 !.retired[item.lease] = None]

\* Mutant: the remaining time counts from the receipt of the answer.
DeadlineFromReceipt(item, serverTime, started) == now + (item.expiresAt - serverTime)

\* leaseDeadline: the remaining time counts from the start of the call.
Deadline(item, serverTime, started) == started + (item.expiresAt - serverTime)
ValidLease(item, serverTime, started) ==
    item.expiresAt > serverTime /\ now < Deadline(item, serverTime, started)

\* Mutant: every return is taken for confirmed.
confirmEverything(g, snapshot, user) ==
    [u \in Users |->
        IF ready /\ run = snapshot.run /\ user \in {None, u}
          THEN [g[u] EXCEPT !.retired = [l \in Leases |-> None]]
          ELSE g[u]]

\* confirmSnapshot: returns the snapshot carried are over.  user = None for
\* a synchronisation.
confirmSnapshot(g, snapshot, user) ==
    [u \in Users |->
        IF ready /\ run = snapshot.run /\ user \in {None, u}
          THEN [g[u] EXCEPT !.retired = [l \in Leases |->
                  IF g[u].retired[l] # None /\ g[u].retired[l].seq <= snapshot.seq
                  THEN None ELSE g[u].retired[l]]]
          ELSE g[u]]

\* History: the leases that the present critical section revokes in g.
Fenced(g) ==
    [u \in Users |-> [l \in Leases |->
        IF g[u].revoked[l] # None /\ g[u].revoked[l].barrier = seq + 1
          THEN seq + 1 ELSE fence[u][l]]]

-----------------------------------------------------------------------------
NoGate == [src |-> None, revoked |-> [l \in Leases |-> None],
           retired |-> [l \in Leases |-> None], barrier |-> 0]

GateInit ==
    /\ now = 0 /\ users = Users
    /\ run = 0 /\ runs = 0 /\ ready = FALSE /\ closing = FALSE /\ seq = 0
    /\ gate = [u \in Users |-> NoGate]
    /\ flight = [u \in Users |-> None]
    /\ call = None /\ wire = {} /\ answers = {}
    /\ session = 0 /\ hold = [u \in Users |-> None]
    /\ fence = [u \in Users |-> [l \in Leases |-> 0]]

panelVars == <<session, hold>>
netVars == <<wire, answers>>

\* Snapshot: the next number, the sources with connections, the admissions
\* under way and the returns that wait for confirmation.
Snapshot(kind, user) ==
    [kind |-> kind, user |-> user, run |-> run, seq |-> seq + 1, started |-> now,
     active |-> {u \in Users : Source(u) # None /\ Source(u).permits # {}},
     pending |-> {u \in Users : Busy(u)},
     retired |-> {[user |-> p[1], lease |-> p[2], run |-> gate[p[1]].retired[p[2]].run,
                   cs |-> gate[p[1]].retired[p[2]].cs] :
                     p \in {q \in Users \X Leases : gate[q[1]].retired[q[2]] # None}}]

Numbered == seq < MaxSeq /\ seq' = seq + 1

\* A critical section that leaves no event behind needs no number.
NumberedIf(event) == IF event THEN Numbered ELSE UNCHANGED seq

(***************************************************************************)
(* Sessions: begin, loseSession.                                           *)
(***************************************************************************)
\* The panel answers the new session, only hears of it, or neither.
begin ==
    /\ call = None
    /\ ~ready /\ ~closing
    /\ \A u \in Users : Source(u) = None /\ ~Busy(u)
    /\ IF run = 0
         THEN /\ runs < MaxRuns
              /\ runs' = runs + 1
              /\ run' = runs + 1
              /\ gate' = [u \in Users |-> [gate[u] EXCEPT !.barrier = 0]]
         ELSE UNCHANGED <<runs, run, gate>>
    /\ \/ session' = run' /\ ready' = TRUE
       \/ session' = run' /\ UNCHANGED ready
       \/ UNCHANGED <<session, ready>>
    /\ UNCHANGED <<now, users, closing, seq, flight, call, netVars, hold, fence>>

\* The panel does not know session r: every source is closed.  The second
\* critical section (closeAll) sees what the first left, since a new session
\* cannot begin while the calling admission or synchronisation is under way.
loseSession(r) ==
    IF run = r
      THEN /\ ready' = FALSE /\ run' = 0
           /\ gate' = [u \in Users |-> Closed(gate[u], seq + 1)]
           /\ Numbered
      ELSE UNCHANGED <<ready, run, gate, seq>>

(***************************************************************************)
(* Connections: Acquire, Release.                                          *)
(***************************************************************************)
AddPermits(u, cs) == [gate EXCEPT ![u].src.permits = @ \cup cs]
NewFlight(c) == [run |-> run, waiters |-> {c}, abandoned |-> FALSE, stage |-> "ready",
                 req |-> None, item |-> None]

Acquire(c, u) ==
    /\ c \notin InUse
    /\ ready /\ ~closing /\ u \in users
    /\ IF Usable(Source(u))
         THEN gate' = AddPermits(u, {c}) /\ UNCHANGED flight
         ELSE /\ flight' = [flight EXCEPT ![u] =
                   IF Busy(u) THEN [flight[u] EXCEPT !.waiters = @ \cup {c}] ELSE NewFlight(c)]
              /\ UNCHANGED gate
    /\ UNCHANGED <<now, users, run, runs, ready, closing, seq, call, netVars,
                   panelVars, fence>>

\* A waiting connection gives up; the last one cancels the admission.
CancelWait(c, u) ==
    /\ Busy(u) /\ c \in flight[u].waiters
    /\ flight' = [flight EXCEPT ![u].waiters = @ \ {c},
                                ![u].abandoned = @ \/ flight[u].waiters = {c}]
    /\ UNCHANGED <<now, users, run, runs, ready, closing, seq, gate, call,
                   netVars, panelVars, fence>>

\* The connection is closed, by itself or because it was told to; or the
\* permit reserved for it is given back.
Release(c, u) ==
    /\ Source(u) # None /\ c \in Source(u).permits
    /\ LET g == [gate[u] EXCEPT !.src.permits = @ \ {c}]
       IN IF g.src.permits = {} /\ (g.src.revoked \/ closing \/ now >= g.src.deadline)
            THEN gate' = [gate EXCEPT ![u] = removeSourceLocked(g, seq + 1)] /\ Numbered
            ELSE gate' = [gate EXCEPT ![u] = g] /\ UNCHANGED seq
    /\ UNCHANGED <<now, users, run, runs, ready, closing, flight, call, netVars,
                   panelVars, fence>>

\* expireSource: the timer of an expired source without connections.  One
\* with connections tells them to close, which Release does.
expireSource(u) ==
    /\ Live(Source(u)) /\ Source(u).permits = {} /\ now >= Source(u).deadline
    /\ gate' = [gate EXCEPT ![u] = removeSourceLocked(gate[u], seq + 1)]
    /\ Numbered
    /\ UNCHANGED <<now, users, run, runs, ready, closing, flight, call, netVars,
                   panelVars, fence>>

(***************************************************************************)
(* Admission: admit, requestCached, cachedAttempt.                         *)
(***************************************************************************)
AdmitSend(u) ==
    /\ Busy(u) /\ flight[u].stage = "ready" /\ ~flight[u].abandoned
    /\ Numbered
    /\ LET req == Snapshot("admit", u)
       IN /\ flight' = [flight EXCEPT ![u].stage = "sent", ![u].req = req]
          /\ wire' = wire \cup {req}
    /\ UNCHANGED <<now, users, run, runs, ready, closing, gate, call, answers,
                   panelVars, fence>>

\* The answers to a call that has ended are not read any more.
Forget(req) == {a \in answers : a.req # req}

\* Someone waits for the answer to req.
Waiting(req) ==
    \/ call # None /\ call.stage = "sent" /\ call.req = req
    \/ \E u \in Users : Busy(u) /\ flight[u].stage = "sent" /\ flight[u].req = req

\* The request of a call that ends without an answer is lost or reaches the
\* panel later.
GiveUp(req) ==
    /\ answers' = Forget(req)
    /\ \/ wire' = wire \ {req}
       \/ /\ req \in wire
          /\ Cardinality({w \in wire : ~Waiting(w)}) < MaxLate
          /\ UNCHANGED wire

\* The admission ends with an error for every connection that waits.
AdmitFails(u) == flight' = [flight EXCEPT ![u] = None]

\* Time out, network error or cancellation.
AdmitError(u) ==
    /\ Busy(u)
    /\ AdmitFails(u)
    /\ IF flight[u].stage = "sent" THEN GiveUp(flight[u].req) ELSE UNCHANGED netVars
    /\ UNCHANGED <<now, users, run, runs, ready, closing, seq, gate, call,
                   panelVars, fence>>

\* cachedAttempt, first critical sections: revocations, then the confirmed
\* returns.  The panel does not know the session, asks to wait, denies, or
\* grants a lease whose deadline must not have passed.
AdmitAnswer(u, a) ==
    /\ Busy(u) /\ flight[u].stage = "sent" /\ a \in answers /\ a.req = flight[u].req
    /\ IF a.status = "lost"
         THEN /\ loseSession(flight[u].run) /\ AdmitFails(u) /\ UNCHANGED fence
              /\ answers' = Forget(a.req)
         ELSE /\ LET g == IF run = a.req.run THEN Revoked(gate, a.revoked, a.req.seq, seq + 1)
                          ELSE gate
                 IN /\ gate' = confirmSnapshot(g, a.req, u)
                    /\ fence' = Fenced(g)
                    /\ NumberedIf(Fenced(g) # fence)
              /\ answers' = Forget(a.req)
              /\ flight' = [flight EXCEPT ![u] =
                    IF a.status = "waiting" THEN [flight[u] EXCEPT !.stage = "ready", !.req = None]
                    ELSE IF a.status = "allowed" /\ ValidLease(a.item, a.time, a.req.started)
                         THEN [flight[u] EXCEPT !.stage = "verify", !.item =
                                 [lease |-> a.item.lease, cs |-> a.item.cs,
                                  confirmedAt |-> a.item.confirmedAt,
                                  deadline |-> Deadline(a.item, a.time, a.req.started)]]
                    ELSE None]
              /\ UNCHANGED <<run, ready>>
    /\ UNCHANGED <<now, users, runs, closing, call, wire, panelVars>>

\* Mutant: snapshots taken before the installation may miss the lease.
AdmitInstallUnfenced(u) ==
    /\ Busy(u) /\ flight[u].stage = "verify"
    /\ LET f == flight[u]
           stored == run = f.run /\ ~Refused(u, gate[u], f.item, f.req.seq)
       IN /\ gate' = IF stored
                       THEN [gate EXCEPT ![u] = installLeaseLocked(gate[u], f.item, f.item.deadline,
                                                                   f.req.seq, seq + 1)]
                       ELSE gate
          /\ flight' = [flight EXCEPT ![u] = IF stored THEN [f EXCEPT !.stage = "granted"] ELSE None]
          /\ Numbered
    /\ UNCHANGED <<now, users, run, runs, ready, closing, call, netVars,
                   panelVars, fence>>

\* cachedAttempt, last critical section.  Snapshots taken before it cannot
\* miss the lease.
AdmitInstall(u) ==
    /\ Busy(u) /\ flight[u].stage = "verify"
    /\ LET f == flight[u]
           g == installLeaseLocked(gate[u], f.item, f.item.deadline, f.req.seq, seq + 1)
           stored == run = f.run /\ ~Refused(u, gate[u], f.item, f.req.seq)
       IN IF stored /\ (Repeated(gate[u], f.item) => now < gate[u].src.deadline)
            THEN /\ gate' = [gate EXCEPT ![u] = [g EXCEPT !.src.omissionSequence = seq + 1]]
                 /\ Numbered
                 /\ flight' = [flight EXCEPT ![u].stage = "granted"]
            ELSE /\ gate' = IF stored THEN [gate EXCEPT ![u] = g] ELSE gate
                 /\ flight' = [flight EXCEPT ![u] = None]
                 /\ UNCHANGED seq
    /\ UNCHANGED <<now, users, run, runs, ready, closing, call, netVars,
                   panelVars, fence>>

\* admit: the waiting connections get their permits unless the lease has
\* been revoked, has expired or has changed since.
admit(u) ==
    /\ Busy(u) /\ flight[u].stage = "granted"
    /\ gate' = IF /\ ready /\ ~closing /\ u \in users /\ run = flight[u].run
                  /\ ~flight[u].abandoned
                  /\ Usable(Source(u)) /\ Source(u).lease = flight[u].item.lease
               THEN AddPermits(u, flight[u].waiters)
               ELSE gate
    /\ flight' = [flight EXCEPT ![u] = None]
    /\ UNCHANGED <<now, users, run, runs, ready, closing, seq, call, netVars,
                   panelVars, fence>>

(***************************************************************************)
(* Synchronisation: Sync, acceptLeases; the last one after Stop.           *)
(***************************************************************************)
Quiet == \A u \in Users : ~Busy(u)

SyncSend ==
    /\ call = None
    /\ ready \/ (closing /\ Quiet)
    /\ Numbered
    /\ LET req == Snapshot("sync", None)
       IN /\ call' = [stage |-> "sent", req |-> req, answer |-> None, final |-> closing]
          /\ wire' = wire \cup {req}
    /\ UNCHANGED <<now, users, run, runs, ready, closing, gate, flight, answers,
                   panelVars, fence>>

SyncError ==
    /\ call # None
    /\ call' = None
    /\ IF call.stage = "sent" THEN GiveUp(call.req) ELSE UNCHANGED netVars
    /\ UNCHANGED <<now, users, run, runs, ready, closing, seq, gate, flight,
                   panelVars, fence>>

\* acceptLeases, first critical section: revocations come first.  An answer
\* that comes when the call has been cancelled, or with an invalid lease,
\* goes no further.
SyncAnswer(a) ==
    /\ call # None /\ call.stage = "sent" /\ a \in answers /\ a.req = call.req
    /\ answers' = Forget(a.req)
    /\ IF a.status = "lost"
         THEN loseSession(a.req.run) /\ call' = None /\ UNCHANGED fence
         ELSE /\ IF run = a.req.run
                   THEN LET g == Revoked(gate, a.revoked, a.req.seq, seq + 1)
                        IN gate' = g /\ fence' = Fenced(g) /\ NumberedIf(Fenced(g) # fence)
                   ELSE UNCHANGED <<gate, fence, seq>>
              /\ \/ call' = None
                 \/ /\ closing => call.final
                    /\ \A i \in a.leases : ValidLease(i, a.time, a.req.started)
                    /\ call' = [call EXCEPT !.stage = "accept", !.answer = a]
              /\ UNCHANGED <<run, ready>>
    /\ UNCHANGED <<now, users, runs, closing, flight, wire, panelVars>>

\* acceptLeases, second critical section, for one user: leases the panel
\* did not list are revoked, the listed ones installed, idle ones returned.
Accepted(u, g, a, n) ==
    LET s == a.req.seq
        listed == {i \in a.leases : i.user = u}
        omitted == /\ g.src # None /\ g.src.omissionSequence <= s
                   /\ \A i \in listed : i.lease # g.src.lease
        item == CHOOSE i \in listed : TRUE
        installed ==
            IF listed = {} \/ Refused(u, g, item, s) THEN g
            ELSE installLeaseLocked(g, item, Deadline(item, a.time, a.req.started), s, n)
        kept == IF omitted THEN revokeLocked(installed, g.src.lease, NoIdentity, s, n)
                ELSE installed
    IN IF listed = {} \/ item.user \notin a.idle \/ Busy(u) THEN kept
       ELSE IF kept.src = None
            THEN revokeLocked(kept, item.lease, [run |-> run, cs |-> item.cs], s, n)
       ELSE IF /\ kept.src.lease = item.lease /\ kept.src.permits = {}
               /\ kept.src.confirmedSequence <= s /\ kept.src.omissionSequence <= s
            THEN revokeLocked(kept, item.lease, NoIdentity, s, n)
       ELSE kept

acceptLeases ==
    /\ call # None /\ call.stage = "accept"
    /\ LET a == call.answer
           g == [u \in Users |-> Accepted(u, gate[u], a, seq + 1)]
       IN IF run = a.req.run
            THEN /\ gate' = g
                 /\ fence' = Fenced(g)
                 /\ NumberedIf(g # gate)
                 /\ call' = [call EXCEPT !.stage = "confirm"]
            ELSE call' = None /\ UNCHANGED <<gate, fence, seq>>
    /\ UNCHANGED <<now, users, run, runs, ready, closing, flight, netVars, panelVars>>

SyncConfirm ==
    /\ call # None /\ call.stage = "confirm"
    /\ gate' = confirmSnapshot(gate, call.req, None)
    /\ call' = None
    /\ UNCHANGED <<now, users, run, runs, ready, closing, seq, flight, netVars,
                   panelVars, fence>>

(***************************************************************************)
(* SetUsers and Stop.                                                      *)
(***************************************************************************)
SetUsers(allowed) ==
    LET removed == {u \in Users \ allowed : u \in users \/ Busy(u) \/ Source(u) # None}
        fenced(u) == [gate[u] EXCEPT !.barrier = seq + 1]
    IN /\ "users" \in Events
       /\ users' = allowed
       /\ IF removed = {} THEN gate' = [u \in Users |-> Purge(gate[u])] /\ UNCHANGED <<seq,
                                                                                       fence>>
          ELSE /\ Numbered
               /\ gate' = [u \in Users |->
                     IF u \notin removed THEN Purge(gate[u])
                     ELSE IF Source(u) = None THEN Purge(fenced(u))
                     ELSE revokeLocked(fenced(u), Source(u).lease,
                                       NoIdentity, 0, seq + 1)]
               /\ fence' = [u \in Users |-> [l \in Leases |->
                     IF u \in removed THEN seq + 1 ELSE fence[u][l]]]
       /\ UNCHANGED <<now, run, runs, ready, closing, flight, call, netVars, panelVars>>

Stop ==
    /\ "stop" \in Events
    /\ ~closing
    /\ closing' = TRUE
    /\ ready' = FALSE
    /\ gate' = [u \in Users |-> Closed(gate[u], seq + 1)]
    /\ Numbered
    /\ UNCHANGED <<now, users, run, runs, flight, call, netVars, panelVars, fence>>

(***************************************************************************)
(* The panel (external), as far as this node relies on it.  It frees a     *)
(* slot when the node returns the very confirmation it holds, or when that *)
(* confirmation expires; it keeps a valid lease and asks the node to give  *)
(* up a revoked one.                                                       *)
(***************************************************************************)
Held(h) == h # None /\ now < h.expiresAt

Returned(req, u, h) ==
    \E i \in req.retired : /\ i.user = u /\ i.lease = h.lease /\ i.run = h.run
                           /\ i.cs >= h.cs

AfterReturns(req) ==
    [u \in Users |-> IF hold[u] # None /\ (Returned(req, u, hold[u]) \/ ~Held(hold[u]))
                     THEN None ELSE hold[u]]

Confirm(h, req) ==
    [lease |-> h.lease, run |-> req.run, cs |-> larger(IF h.run = req.run THEN h.cs ELSE 0, req.seq),
     confirmedAt |-> now, expiresAt |-> now + Grace, revoked |-> FALSE]

Item(u, h) == [user |-> u, lease |-> h.lease, cs |-> h.cs,
               confirmedAt |-> h.confirmedAt, expiresAt |-> h.expiresAt]

RevokedAt(h) == {[user |-> u, lease |-> h[u].lease] :
                    u \in {v \in Users : h[v] # None /\ h[v].revoked}}

\* A request is answered to the call that waits for it, if any.
Answer(req, a) ==
    /\ answers' = IF Waiting(req) THEN answers \cup {a} ELSE answers
    /\ wire' = wire \ {req}
    /\ UNCHANGED <<now, users, run, runs, ready, closing, seq, gate, flight,
                   call, session, fence>>

NoAnswer(req, status) ==
    [req |-> req, status |-> status, time |-> now, item |-> None, leases |-> {},
     revoked |-> {}, idle |-> {}]

PanelLost(req) ==
    /\ req.run # session \/ req.run = 0
    /\ Answer(req, NoAnswer(req, "lost"))
    /\ UNCHANGED hold

\* A free slot may go to any lease; a taken one is only confirmed.
Grantable(h) ==
    IF h = None THEN Leases ELSE IF h.revoked THEN {} ELSE {h.lease}

PanelAdmit(req) ==
    /\ req.kind = "admit" /\ req.run = session /\ session # 0
    /\ LET h == AfterReturns(req)
           u == req.user
       IN \/ /\ hold' = h
             /\ \E status \in {"waiting", "denied"} :
                   Answer(req, [NoAnswer(req, status) EXCEPT !.revoked = RevokedAt(h)])
          \/ \E l \in Grantable(h[u]) :
               /\ hold' = [h EXCEPT ![u] =
                     Confirm(IF h[u] = None THEN [lease |-> l, run |-> 0, cs |-> 0] ELSE h[u], req)]
               /\ Answer(req, [NoAnswer(req, "allowed") EXCEPT
                                 !.item = Item(u, hold'[u]), !.revoked = RevokedAt(hold')])

PanelSync(req) ==
    /\ req.kind = "sync" /\ req.run = session /\ session # 0
    /\ LET h == AfterReturns(req)
       IN /\ hold' = [u \in Users |->
                IF h[u] # None /\ ~h[u].revoked /\ u \in req.active
                  THEN Confirm(h[u], req) ELSE h[u]]
          /\ Answer(req, [NoAnswer(req, "ok") EXCEPT
                !.leases = {Item(u, hold'[u]) : u \in {v \in Users : hold'[v] # None /\ ~hold'[v].revoked}},
                !.revoked = RevokedAt(hold'),
                !.idle = {u \in Users : u \notin req.active \cup req.pending}])

\* Another address takes the slot, or the account changes.
PanelRevokes(u) ==
    /\ "revoke" \in Events
    /\ Held(hold[u]) /\ ~hold[u].revoked
    /\ hold' = [hold EXCEPT ![u].revoked = TRUE]
    /\ UNCHANGED <<now, users, run, runs, ready, closing, seq, gate, flight,
                   call, netVars, session, fence>>

PanelForgets ==
    /\ "forget" \in Events
    /\ session # 0 /\ session = run /\ runs < MaxRuns
    /\ session' = 0
    /\ UNCHANGED <<now, users, run, runs, ready, closing, seq, gate, flight,
                   call, netVars, hold, fence>>

\* Time passes; no call stays unanswered for longer than Patience.
Tick ==
    /\ now < MaxTime
    /\ call # None => now < call.req.started + Patience
    /\ \A u \in Users : (Busy(u) /\ flight[u].req # None) =>
                            now < flight[u].req.started + Patience
    /\ now' = now + 1
    /\ UNCHANGED <<users, run, runs, ready, closing, seq, gate, flight, call,
                   netVars, panelVars, fence>>

GateNext ==
    \/ begin \/ Stop \/ Tick \/ PanelForgets
    \/ SyncSend \/ SyncError \/ acceptLeases \/ SyncConfirm
    \/ \E a \in answers : SyncAnswer(a)
    \/ \E u \in Users :
         \/ \E c \in Conns : Acquire(c, u) \/ CancelWait(c, u) \/ Release(c, u)
         \/ AdmitSend(u) \/ AdmitError(u) \/ AdmitInstall(u) \/ admit(u)
         \/ \E a \in answers : AdmitAnswer(u, a)
         \/ expireSource(u) \/ PanelRevokes(u)
    \/ \E allowed \in SUBSET Users : SetUsers(allowed)
    \/ \E req \in wire : PanelLost(req) \/ PanelAdmit(req) \/ PanelSync(req)

GateSpec == GateInit /\ [][GateNext]_gateVars

-----------------------------------------------------------------------------

\* A source that admits connections rests on a confirmation the node asked
\* for after the last time it revoked that lease or lost the user's
\* permission: an answer that was under way when the revocation arrived
\* never brings the lease back, however late it comes.
NoResurrection ==
    \A u \in Users : Live(Source(u)) => Source(u).confirmedSequence > fence[u][Source(u).lease]

\* As long as a connection is open and its lease is further than one call
\* from its end, the panel counts the slot as taken by this lease: no return
\* the node sent, and no delayed or repeated request, frees the slot under an
\* open connection.  Closer to its end it may: see ReturnedIsOver.
OpenMeansHeld ==
    \A u \in Users :
        (Source(u) # None /\ Source(u).permits # {} /\ now + Patience < Source(u).deadline)
            => Held(hold[u]) /\ hold[u].lease = Source(u).lease

\* No open connection rests on a confirmation the node is giving back: an
\* answer that comes late does not bring it into use again ("a late old
\* response cannot rebuild the permit", docs/device-counting.md:11).
ReturnedIsOver ==
    \A u \in Users :
        (Live(Source(u)) /\ Source(u).permits # {})
            => \A req \in wire :
                 [user |-> u, lease |-> Source(u).lease, run |-> Source(u).run,
                  cs |-> Source(u).leaseSequence] \notin req.retired

\* The node never trusts a lease for longer than the panel does.
DeadlineWithinLease ==
    \A u \in Users :
        (Live(Source(u)) /\ hold[u] # None /\ hold[u].lease = Source(u).lease)
            => Source(u).deadline <= hold[u].expiresAt

\* A return waits until it is confirmed: the node stops announcing it only
\* when the panel has answered a request that carried this very identity,
\* when a newer identity of the lease takes its place, or when the lease is
\* granted again.  A lease returned or returned again while a request is
\* under way is not covered by its answer.
ReturnIsConfirmed ==
    [][\A u \in Users, l \in Leases :
          LET old == gate[u].retired[l]
              new == gate'[u].retired[l]
          IN (old # None /\ (new = None \/ new.run < old.run))
             => \/ gate'[u].src # None /\ gate'[u].src.lease = l
                \/ \E c \in {flight[u], call} \ {None} :
                      /\ c.req # None
                      /\ [user |-> u, lease |-> l, run |-> old.run, cs |-> old.cs] \in c.req.retired]_gateVars

\* Connections are told to close only for a reason: their lease is revoked,
\* gone or replaced at the panel, the user lost permission, the session was
\* lost or the node stops.  An old answer does not close connections of a
\* lease granted or confirmed since.
NoSpuriousClose ==
    [][\A u \in Users :
          (/\ Live(Source(u)) /\ Source(u).permits # {}
           /\ gate'[u].src # None /\ gate'[u].src.revoked)
             => \/ ~Held(hold[u]) \/ hold[u].revoked \/ hold[u].lease # Source(u).lease
                \/ u \notin users' \/ ~ready']_gateVars

-----------------------------------------------------------------------------
(***************************************************************************)
(* Types.                                                                  *)
(***************************************************************************)
Identities == [user : Users, lease : Leases, run : Nat, cs : Nat]
Requests == {r \in [kind : {"admit", "sync"}, user : Users \cup {None}, run : Nat, seq : Nat,
                    started : Nat, active : SUBSET Users, pending : SUBSET Users,
                    retired : SUBSET Identities] :
               r.kind = "admit" => r.user \in Users}
Items == [user : Users, lease : Leases, cs : Nat, confirmedAt : Nat, expiresAt : Nat]
Verdicts == {"lost", "waiting", "denied", "allowed", "ok"}
Answers == {a \in [req : Requests, status : Verdicts, time : Nat, item : Items \cup {None},
                   leases : SUBSET Items, revoked : SUBSET [user : Users, lease : Leases],
                   idle : SUBSET Users] :
              a.status = "allowed" => a.item \in Items}
Holds == [lease : Leases, run : Nat, cs : Nat, confirmedAt : Nat, expiresAt : Nat,
          revoked : BOOLEAN]

Sources == [run : Nat, lease : Leases, revoked : BOOLEAN, permits : SUBSET Conns,
            confirmedAt : Nat, deadline : Int, confirmedSequence : Nat,
            omissionSequence : Nat, leaseSequence : Nat]
Marks == [until : Nat, barrier : Nat, seq : Nat]
Returns == [run : Nat, cs : Nat, seq : Nat]
UserGates == [src : Sources \cup {None}, revoked : [Leases -> Marks \cup {None}],
              retired : [Leases -> Returns \cup {None}], barrier : Nat]

Grants == [lease : Leases, cs : Nat, confirmedAt : Nat, deadline : Int]
Flights == {f \in [run : Nat, waiters : SUBSET Conns, abandoned : BOOLEAN,
                   stage : {"ready", "sent", "verify", "granted"},
                   req : Requests \cup {None}, item : Grants \cup {None}] :
              /\ f.stage # "ready" => f.req \in Requests
              /\ f.stage \in {"verify", "granted"} => f.item \in Grants}
Calls == {c \in [stage : {"sent", "accept", "confirm"}, req : Requests,
                 answer : Answers \cup {None}, final : BOOLEAN] :
            c.stage = "accept" => c.answer \in Answers /\ c.answer.req = c.req}

\* None stands for a nil pointer, a missing entry of a map or no particular
\* user.
ASSUME NoneAssumption ==
    None \notin Users \cup Marks \cup Returns \cup Holds \cup Requests \cup Sources \cup Items

\* Type invariant: the Go types of Manager, and what travels.
GateTypeOK ==
    /\ now \in Nat /\ users \subseteq Users /\ run \in Nat /\ runs \in Nat
    /\ ready \in BOOLEAN /\ closing \in BOOLEAN /\ seq \in Nat
    /\ gate \in [Users -> UserGates]
    /\ flight \in [Users -> Flights \cup {None}]
    /\ call \in Calls \cup {None}
    /\ wire \subseteq Requests /\ answers \subseteq Answers
    /\ session \in Nat /\ hold \in [Users -> Holds \cup {None}]
    /\ fence \in [Users -> [Leases -> Nat]]

(***************************************************************************)
(* The inductive invariant behind NoResurrection.  A revocation leaves a   *)
(* mark that refuses the answers to every call begun before it; the mark   *)
(* may go after the grace period, when no such call can be open any more.  *)
(***************************************************************************)
\* The requests of the calls that have not ended.
Open == {r \in {flight[u].req : u \in {v \in Users : Busy(v)}}
                 \cup (IF call = None THEN {} ELSE {call.req}) : r # None}

OpenInTime ==
    \A r \in Open : r.seq <= seq /\ r.started <= now /\ now <= r.started + Patience

Refuses(g, l, s) ==
    s <= g.barrier \/ (g.revoked[l] # None /\ s <= g.revoked[l].barrier)

MarksLast ==
    \A u \in Users, l \in Leases :
        gate[u].revoked[l] # None =>
            /\ gate[u].revoked[l].barrier <= seq
            /\ \A r \in Open : r.seq <= gate[u].revoked[l].barrier =>
                                   r.started + Grace < gate[u].revoked[l].until

OldAnswersRefused ==
    \A u \in Users, l \in Leases :
        /\ fence[u][l] <= seq
        /\ \A r \in Open : r.seq <= fence[u][l] => Refuses(gate[u], l, r.seq)

FenceInv == OpenInTime /\ MarksLast /\ OldAnswersRefused /\ NoResurrection

(***************************************************************************)
(* The inductive invariant behind DeadlineWithinLease: whatever is still   *)
(* under way for a user runs out no later than the lease the panel holds,  *)
(* since the panel only ever extends it.                                   *)
(***************************************************************************)
Within(u, t) == t <= now + Grace /\ (hold[u] # None => t <= hold[u].expiresAt)
ItemsOf(a) == a.leases \cup ({a.item} \ {None})

AnswerWithin(a) ==
    /\ a.req.started <= a.time
    /\ \A i \in ItemsOf(a) : Within(i.user, i.expiresAt)
    /\ a.item # None => a.item.user = a.req.user

ExpiryInv ==
    /\ \A u \in Users : hold[u] # None => hold[u].expiresAt <= now + Grace
    /\ \A r \in wire : r.started <= now
    /\ \A a \in answers : AnswerWithin(a)
    /\ call # None /\ call.stage = "accept" => AnswerWithin(call.answer)
    /\ \A u \in Users :
         /\ Source(u) # None => Within(u, Source(u).deadline)
         /\ Busy(u) /\ flight[u].req # None => flight[u].req.user = u
         /\ Busy(u) /\ flight[u].stage = "verify" => Within(u, flight[u].item.deadline)

(***************************************************************************)
(* The inductive invariant behind ReturnIsConfirmed.                       *)
(***************************************************************************)
\* A request carries every return that is older than it; a session number
\* is never used again; a lease in use is not one that is being returned.
ReturnInv ==
    /\ run \in {0, runs} /\ (ready => run # 0)
    /\ \A u \in Users, l \in Leases :
         gate[u].retired[l] # None =>
            /\ gate[u].retired[l].run <= runs
            /\ \A r \in Open : gate[u].retired[l].seq <= r.seq =>
                  [user |-> u, lease |-> l, run |-> gate[u].retired[l].run,
                   cs |-> gate[u].retired[l].cs] \in r.retired
    /\ \A u \in Users : Source(u) # None => /\ gate[u].retired[Source(u).lease] = None
                                            /\ Source(u).run <= runs
    /\ \A a \in answers : a.status # "lost" => a.req.run # 0
    /\ call # None /\ call.stage = "accept" => call.req.run # 0

=============================================================================
