-------------------------- MODULE DeviceGateProofs --------------------------
(***************************************************************************)
(* Theorems about the device gate (internal/devicegate/manager.go,         *)
(* lease_cache.go), for any number of users, leases, connections, calls    *)
(* and sessions, and any grace period longer than a call may last.         *)
(***************************************************************************)
EXTENDS DeviceGate, TLAPS

(***************************************************************************)
(* The operations on one user's part of the gate keep its type.            *)
(***************************************************************************)
LEMMA Numbers == Grace \in Nat /\ Patience \in Nat /\ Patience < Grace
BY GateAssumption

\* A mark is not the absence of one.
LEMMA MarkIsSome == ASSUME NEW m \in Marks PROVE m # None
BY NoneAssumption

\* purgeLocked keeps the types.
LEMMA PurgeType == ASSUME NEW g \in UserGates PROVE Purge(g) \in UserGates
BY DEF Purge, UserGates

\* retireLocked keeps the types.
LEMMA RetireType ==
    ASSUME NEW g \in UserGates, NEW lease \in Leases, NEW id \in [run : Nat, cs : Nat],
           NEW n \in Nat, run \in Nat
    PROVE  retireLocked(g, lease, id, n) \in UserGates
<1>1. ASSUME NEW r \in Returns PROVE [g EXCEPT !.retired[lease] = r] \in UserGates
    BY DEF UserGates
<1>2. g.retired[lease] \in Returns \cup {None}
    BY DEF UserGates
<1> QED
    BY <1>1, <1>2 DEF retireLocked, Returns

\* removeSourceLocked keeps the types.
LEMMA RemoveType ==
    ASSUME NEW g \in UserGates, g.src # None, NEW n \in Nat, run \in Nat
    PROVE  removeSourceLocked(g, n) \in UserGates
<1>1. [g EXCEPT !.src = None] \in UserGates
    BY DEF UserGates
<1>2. g.src.lease \in Leases /\ [run |-> g.src.run, cs |-> g.src.leaseSequence] \in [run : Nat, cs : Nat]
    BY DEF UserGates, Sources
<1> QED
    BY <1>1, <1>2, RetireType DEF removeSourceLocked

\* Marking the source revoked keeps the types.
LEMMA RevokeSourceType ==
    ASSUME NEW g \in UserGates, g.src # None
    PROVE  [g EXCEPT !.src.revoked = TRUE] \in UserGates
<1>1. [g.src EXCEPT !.revoked = TRUE] \in Sources
    BY DEF UserGates, Sources
<1> QED
    BY <1>1 DEF UserGates

\* Marking a lease revoked keeps the types.
LEMMA MarkType ==
    ASSUME NEW g \in UserGates, NEW lease \in Leases, NEW m \in Marks
    PROVE  [g EXCEPT !.revoked[lease] = m] \in UserGates
BY DEF UserGates

\* revokeLocked answers with a gate of the right type: the mark, and the lease
\* that is returned at once or after its last connection.
LEMMA RevokeType ==
    ASSUME NEW g \in UserGates, NEW lease \in Leases, NEW id \in [run : Nat, cs : Nat],
           NEW s \in Nat, NEW n \in Nat, run \in Nat, now \in Nat
    PROVE  revokeLocked(g, lease, id, s, n) \in UserGates
<1> DEFINE p == Purge(g)
           previous == IF p.revoked[lease] = None THEN 0 ELSE p.revoked[lease].seq
           m == [until |-> now + Grace + 1, barrier |-> n,
                 seq |-> IF s > previous THEN s ELSE previous]
           marked == [p EXCEPT !.revoked[lease] = m]
<1>1. p \in UserGates
    BY PurgeType
<1>2. m \in Marks
    <2>1. p.revoked[lease] \in Marks \cup {None}
        BY <1>1 DEF UserGates
    <2>2. previous \in Nat
        BY <2>1 DEF Marks
    <2> QED
        BY <2>2, Numbers DEF Marks
<1>3. marked \in UserGates /\ marked.src = p.src
    <2> HIDE DEF m, p
    <2> QED
        BY <1>1, <1>2, MarkType DEF UserGates
<1>4. retireLocked(marked, lease, id, n) \in UserGates
    BY <1>3, RetireType
<1>5. p.src # None => removeSourceLocked(marked, n) \in UserGates
    BY <1>3, RemoveType
<1>6. p.src # None => [marked EXCEPT !.src.revoked = TRUE] \in UserGates
    BY <1>3, RevokeSourceType
<1>7. revokeLocked(g, lease, id, s, n) \in
          {p, retireLocked(marked, lease, id, n)} \cup
          (IF p.src = None THEN {} ELSE {removeSourceLocked(marked, n),
                                         [marked EXCEPT !.src.revoked = TRUE]})
    <2> HIDE DEF p
    <2>1. revokeLocked(g, lease, id, s, n) =
            IF Outdated(p, lease, s) THEN p
            ELSE IF p.src = None \/ p.src.lease # lease THEN retireLocked(marked, lease, id, n)
            ELSE IF p.src.permits = {} THEN removeSourceLocked(marked, n)
            ELSE [marked EXCEPT !.src.revoked = TRUE]
        BY DEF revokeLocked, p
    <2> HIDE DEF marked
    <2> QED
        BY <2>1
<1> HIDE DEF p, marked
<1> QED
    BY <1>1, <1>4, <1>5, <1>6, <1>7

\* The empty identity of a lease is one.
LEMMA NoIdentityType == NoIdentity \in [run : Nat, cs : Nat]
BY DEF NoIdentity

\* closeAll.
LEMMA ClosedType ==
    ASSUME NEW g \in UserGates, NEW n \in Nat, run \in Nat
    PROVE  Closed(g, n) \in UserGates
BY RemoveType, RevokeSourceType DEF Closed

\* installLeaseLocked.
LEMMA InstallType ==
    ASSUME NEW u, NEW g \in UserGates, NEW lease \in Leases, NEW item, item.lease = lease,
           item.cs \in Nat, item.confirmedAt \in Nat,
           NEW deadline \in Int, NEW s \in Nat, NEW n \in Nat, run \in Nat
    PROVE  /\ installLeaseLocked(g, item, deadline, s, n) \in UserGates
           /\ installLeaseLocked(g, item, deadline, s, n).src \in Sources
<1>a. CASE Repeated(g, item)
    <2>1. g.src \in Sources /\ g.src # None
        BY <1>a DEF Repeated, UserGates
    <2> DEFINE x == larger(g.src.leaseSequence, item.cs)
               y == larger(g.src.omissionSequence, s)
    <2>2. x \in Nat /\ y \in Nat
        BY <2>1 DEF larger, Sources
    <2> HIDE DEF x, y
    <2>3. [g.src EXCEPT !.confirmedSequence = s, !.leaseSequence = x, !.omissionSequence = y] \in Sources
        BY <2>1, <2>2 DEF Sources
    <2>4. installLeaseLocked(g, item, deadline, s, n) =
            [g EXCEPT !.src = [g.src EXCEPT !.confirmedSequence = s, !.leaseSequence = x,
                                            !.omissionSequence = y]]
        BY <1>a, <2>1 DEF installLeaseLocked, x, y, UserGates, Sources
    <2> QED
        BY <2>3, <2>4 DEF UserGates
<1>b. CASE ~Repeated(g, item)
    <2> DEFINE kept == g.src # None /\ g.src.lease = item.lease
               base == IF g.src # None /\ ~kept THEN removeSourceLocked(g, n) ELSE g
               new == [run |-> IF kept THEN g.src.run ELSE run,
                       lease |-> item.lease, revoked |-> FALSE,
                       permits |-> IF kept THEN g.src.permits ELSE {},
                       confirmedAt |-> item.confirmedAt, deadline |-> deadline,
                       confirmedSequence |-> s, omissionSequence |-> s,
                       leaseSequence |-> item.cs]
    <2>1. base \in UserGates
        BY RemoveType
    <2>2. new \in Sources
        <3>1. kept => g.src \in Sources
            BY DEF UserGates
        <3> QED
            BY <3>1 DEF Sources
    <2>3. installLeaseLocked(g, item, deadline, s, n) =
            [base EXCEPT !.src = new, !.retired[item.lease] = None]
        BY <1>b DEF installLeaseLocked
    <2> HIDE DEF base, new
    <2>4. [base EXCEPT !.src = new] \in UserGates
        BY <2>1, <2>2 DEF UserGates
    <2>5. ASSUME NEW h \in UserGates PROVE [h EXCEPT !.retired[lease] = None] \in UserGates
        BY DEF UserGates
    <2>6. installLeaseLocked(g, item, deadline, s, n) =
            [[base EXCEPT !.src = new] EXCEPT !.retired[lease] = None]
        BY <2>3
    <2>7. [[base EXCEPT !.src = new] EXCEPT !.retired[lease] = None].src = new
        BY <2>1 DEF UserGates
    <2> QED
        BY <2>2, <2>4, <2>5, <2>6, <2>7
<1> QED
    BY <1>a, <1>b

\* applyRevocations and confirmSnapshot, for the whole gate.
LEMMA RevokedType ==
    ASSUME NEW g \in [Users -> UserGates], NEW items \in SUBSET [user : Users, lease : Leases],
           NEW s \in Nat, NEW n \in Nat, run \in Nat, now \in Nat
    PROVE  Revoked(g, items, s, n) \in [Users -> UserGates]
<1>1. ASSUME NEW u \in Users
      PROVE  (IF \E i \in items : i.user = u
                THEN revokeLocked(g[u], (CHOOSE i \in items : i.user = u).lease, NoIdentity, s, n)
                ELSE Purge(g[u])) \in UserGates
    <2>1. ASSUME \E i \in items : i.user = u
          PROVE  (CHOOSE i \in items : i.user = u).lease \in Leases
        BY <2>1
    <2> QED
        BY <2>1, RevokeType, NoIdentityType, PurgeType
<1> QED
    BY <1>1 DEF Revoked

\* confirmSnapshot keeps the types.
LEMMA ConfirmedType ==
    ASSUME NEW g \in [Users -> UserGates], NEW snapshot, NEW user
    PROVE  confirmSnapshot(g, snapshot, user) \in [Users -> UserGates]
<1>1. ASSUME NEW u \in Users
      PROVE  [g[u] EXCEPT !.retired = [l \in Leases |->
                  IF g[u].retired[l] # None /\ g[u].retired[l].seq <= snapshot.seq
                  THEN None ELSE g[u].retired[l]]] \in UserGates
    <2>1. g[u] \in UserGates
        OBVIOUS
    <2> QED
        BY <2>1 DEF UserGates
<1> QED
    BY <1>1 DEF confirmSnapshot

\* The fence is a number per lease.
LEMMA FencedType ==
    ASSUME NEW g, seq \in Nat, fence \in [Users -> [Leases -> Nat]]
    PROVE  Fenced(g) \in [Users -> [Leases -> Nat]]
BY DEF Fenced

\* Snapshot.
LEMMA SnapshotType ==
    ASSUME GateTypeOK, NEW kind \in {"admit", "sync"}, NEW user \in Users \cup {None},
           kind = "admit" => user \in Users
    PROVE  Snapshot(kind, user) \in Requests
<1> DEFINE waiting == {q \in Users \X Leases : gate[q[1]].retired[q[2]] # None}
           R == {[user |-> p[1], lease |-> p[2], run |-> gate[p[1]].retired[p[2]].run,
                  cs |-> gate[p[1]].retired[p[2]].cs] : p \in waiting}
<1>1. ASSUME NEW q \in waiting
      PROVE  [user |-> q[1], lease |-> q[2], run |-> gate[q[1]].retired[q[2]].run,
              cs |-> gate[q[1]].retired[q[2]].cs] \in Identities
    <2>1. q[1] \in Users /\ q[2] \in Leases /\ gate[q[1]].retired[q[2]] # None
        OBVIOUS
    <2>2. gate[q[1]].retired[q[2]] \in Returns \cup {None}
        BY <2>1 DEF GateTypeOK, UserGates
    <2>3. gate[q[1]].retired[q[2]] \in Returns
        BY <2>1, <2>2
    <2> QED
        BY <2>1, <2>3 DEF Returns, Identities
<1>2. R \in SUBSET Identities
    <2> HIDE DEF waiting
    <2> QED
        BY <1>1
<1>3. run \in Nat /\ seq + 1 \in Nat /\ now \in Nat
    BY DEF GateTypeOK
<1> HIDE DEF R
<1>4. Snapshot(kind, user) =
        [kind |-> kind, user |-> user, run |-> run, seq |-> seq + 1, started |-> now,
         active |-> {u \in Users : Source(u) # None /\ Source(u).permits # {}},
         pending |-> {u \in Users : Busy(u)}, retired |-> R]
    BY DEF Snapshot, R
<1> QED
    BY <1>2, <1>3, <1>4 DEF Requests

\* acceptLeases for one user.
LEMMA AcceptedType ==
    ASSUME NEW u \in Users, NEW g \in UserGates, NEW a \in Answers, NEW n \in Nat,
           run \in Nat, now \in Nat
    PROVE  Accepted(u, g, a, n) \in UserGates
<1> DEFINE s == a.req.seq
           listed == {i \in a.leases : i.user = u}
           omitted == /\ g.src # None /\ g.src.omissionSequence <= s
                      /\ \A i \in listed : i.lease # g.src.lease
           item == CHOOSE i \in listed : TRUE
           d == Deadline(item, a.time, a.req.started)
           installed == IF listed = {} \/ Refused(u, g, item, s) THEN g
                        ELSE installLeaseLocked(g, item, d, s, n)
           kept == IF omitted THEN revokeLocked(installed, g.src.lease, NoIdentity, s, n)
                   ELSE installed
<1>1. s \in Nat /\ a.req.started \in Nat /\ a.time \in Nat
    BY DEF Answers, Requests
<1>2. ASSUME listed # {}
      PROVE  item \in Items /\ item.lease \in Leases /\ item.cs \in Nat /\ item.confirmedAt \in Nat
             /\ d \in Int
    <2>1. a.leases \in SUBSET Items
        BY DEF Answers
    <2>2. item \in Items
        BY <1>2, <2>1
    <2>3. item.expiresAt \in Nat
        BY <2>2 DEF Items
    <2> QED
        BY <1>1, <2>2, <2>3 DEF Items, Deadline
<1>3. installed \in UserGates
    <2> HIDE DEF item, d, s, listed
    <2> QED
        BY <1>1, <1>2, InstallType
<1>4. kept \in UserGates
    <2>1. g.src # None => g.src.lease \in Leases
        BY DEF UserGates, Sources
    <2> HIDE DEF installed, s
    <2> QED
        BY <1>1, <1>3, <2>1, RevokeType, NoIdentityType
<1>5. listed # {} => /\ revokeLocked(kept, item.lease, [run |-> run, cs |-> item.cs], s, n) \in UserGates
                     /\ revokeLocked(kept, item.lease, NoIdentity, s, n) \in UserGates
    <2> HIDE DEF item, s, listed, kept
    <2> QED
        BY <1>1, <1>2, <1>4, RevokeType, NoIdentityType
<1>6. Accepted(u, g, a, n) =
        IF listed = {} \/ item.user \notin a.idle \/ Busy(u) THEN kept
        ELSE IF kept.src = None
            THEN revokeLocked(kept, item.lease, [run |-> run, cs |-> item.cs], s, n)
        ELSE IF /\ kept.src.lease = item.lease /\ kept.src.permits = {}
                /\ kept.src.confirmedSequence <= s /\ kept.src.omissionSequence <= s
            THEN revokeLocked(kept, item.lease, NoIdentity, s, n)
        ELSE kept
    BY DEF Accepted
<1> HIDE DEF item, s, listed, kept
<1> QED
    BY <1>4, <1>5, <1>6

-----------------------------------------------------------------------------
(***************************************************************************)
(* Every critical section keeps the types.                                 *)
(***************************************************************************)
LEMMA GateInitType == GateInit => GateTypeOK
<1>1. NoGate \in UserGates
    BY DEF NoGate, UserGates
<1> SUFFICES ASSUME GateInit PROVE GateTypeOK
    OBVIOUS
<1>2. gate \in [Users -> UserGates] /\ flight \in [Users -> Flights \cup {None}]
      /\ hold \in [Users -> Holds \cup {None}] /\ fence \in [Users -> [Leases -> Nat]]
    BY <1>1 DEF GateInit
<1>3. ready \in BOOLEAN /\ closing \in BOOLEAN
    BY DEF GateInit
<1>4. now \in Nat /\ users \subseteq Users /\ run \in Nat /\ runs \in Nat /\ seq \in Nat
      /\ session \in Nat
    BY DEF GateInit
<1>5. call \in Calls \cup {None} /\ wire \subseteq Requests /\ answers \subseteq Answers
    BY DEF GateInit
<1> QED
    BY <1>2, <1>3, <1>4, <1>5 DEF GateTypeOK

\* The sections that touch sources and connections only.
LEMMA BeginType == GateTypeOK /\ begin => GateTypeOK'
<1> SUFFICES ASSUME GateTypeOK, begin PROVE GateTypeOK'
    OBVIOUS
<1>1. gate' \in [Users -> UserGates] /\ runs' \in Nat /\ run' \in Nat
    <2>1. CASE run = 0
        <3>1. ASSUME NEW u \in Users PROVE [gate[u] EXCEPT !.barrier = 0] \in UserGates
            BY DEF GateTypeOK, UserGates
        <3> QED
            BY <2>1, <3>1 DEF begin, GateTypeOK
    <2> QED
        BY <2>1 DEF begin, GateTypeOK
<1>2. session' \in Nat /\ ready' \in BOOLEAN
    BY <1>1 DEF begin, GateTypeOK
<1> QED
    BY <1>1, <1>2 DEF begin, GateTypeOK, netVars

\* Permits of the connections that waited keep the types.
LEMMA AddPermitsType ==
    ASSUME GateTypeOK, NEW u \in Users, Source(u) # None, NEW cs \in SUBSET Conns
    PROVE  AddPermits(u, cs) \in [Users -> UserGates]
<1>1. gate[u] \in UserGates /\ gate[u].src \in Sources
    BY DEF GateTypeOK, UserGates, Source
<1>2. [gate[u].src EXCEPT !.permits = gate[u].src.permits \cup cs] \in Sources
    BY <1>1 DEF Sources
<1>3. [gate[u] EXCEPT !.src = [gate[u].src EXCEPT !.permits = gate[u].src.permits \cup cs]] \in UserGates
    BY <1>1, <1>2 DEF UserGates
<1>4. AddPermits(u, cs) =
        [gate EXCEPT ![u] = [gate[u] EXCEPT !.src =
            [gate[u].src EXCEPT !.permits = gate[u].src.permits \cup cs]]]
    BY <1>1 DEF AddPermits, GateTypeOK, UserGates, Sources
<1> QED
    BY <1>3, <1>4 DEF GateTypeOK

\* An admission under way, by its stage.
LEMMA FlightType ==
    ASSUME GateTypeOK, NEW u \in Users, Busy(u)
    PROVE  /\ flight[u] \in Flights /\ flight[u].run \in Nat
           /\ flight[u].waiters \in SUBSET Conns /\ flight[u].abandoned \in BOOLEAN
           /\ flight[u].stage # "ready" => flight[u].req \in Requests
           /\ flight[u].stage \in {"verify", "granted"} => flight[u].item \in Grants
BY DEF GateTypeOK, Busy, Flights

\* A connection asks for a permit (Acquire): the types are kept.
LEMMA AcquireType ==
    ASSUME GateTypeOK, NEW c \in Conns, NEW u \in Users, Acquire(c, u)
    PROVE  GateTypeOK'
<1>1. gate' \in [Users -> UserGates]
    BY AddPermitsType DEF Acquire, GateTypeOK, Usable, Live
<1>2. flight' \in [Users -> Flights \cup {None}]
    <2>1. NewFlight(c) \in Flights
        BY DEF NewFlight, Flights, GateTypeOK
    <2>2. ASSUME Busy(u) PROVE [flight[u] EXCEPT !.waiters = flight[u].waiters \cup {c}] \in Flights
        BY <2>2, FlightType DEF Flights
    <2> QED
        BY <2>1, <2>2 DEF Acquire, GateTypeOK
<1> QED
    BY <1>1, <1>2 DEF Acquire, GateTypeOK, netVars, panelVars

\* A waiting connection gives up (Acquire, cancelled): the types are kept.
LEMMA CancelWaitType ==
    ASSUME GateTypeOK, NEW c \in Conns, NEW u \in Users, CancelWait(c, u)
    PROVE  GateTypeOK'
<1> DEFINE w == flight[u].waiters \ {c}
           b == flight[u].abandoned \/ flight[u].waiters = {c}
<1>1. Busy(u)
    BY DEF CancelWait
<1>2. w \in SUBSET Conns /\ b \in BOOLEAN
    BY <1>1, FlightType
<1>3. flight[u] \in Flights
    BY <1>1, FlightType
<1>4. flight' = [flight EXCEPT ![u] = [flight[u] EXCEPT !.waiters = w, !.abandoned = b]]
    BY <1>3 DEF CancelWait, GateTypeOK, Flights
<1> HIDE DEF w, b
<1>5. [flight[u] EXCEPT !.waiters = w, !.abandoned = b] \in Flights
    BY <1>2, <1>3 DEF Flights
<1>6. flight' \in [Users -> Flights \cup {None}]
    BY <1>4, <1>5 DEF GateTypeOK
<1> QED
    BY <1>6 DEF CancelWait, GateTypeOK, netVars, panelVars

\* A connection closes (Release): the types are kept.
LEMMA ReleaseType ==
    ASSUME GateTypeOK, NEW c \in Conns, NEW u \in Users, Release(c, u)
    PROVE  GateTypeOK'
<1> DEFINE g == [gate[u] EXCEPT !.src.permits = @ \ {c}]
<1>1. gate[u] \in UserGates /\ gate[u].src \in Sources /\ Source(u) # None
    BY DEF Release, GateTypeOK, UserGates, Source
<1>2. g = [gate[u] EXCEPT !.src = [gate[u].src EXCEPT !.permits = gate[u].src.permits \ {c}]]
    BY <1>1 DEF UserGates, Sources
<1>3. [gate[u].src EXCEPT !.permits = gate[u].src.permits \ {c}] \in Sources
    BY <1>1 DEF Sources
<1>4. g \in UserGates /\ g.src \in Sources
    BY <1>1, <1>2, <1>3 DEF UserGates
<1>5. run \in Nat /\ seq + 1 \in Nat
    BY DEF GateTypeOK
<1>6. removeSourceLocked(g, seq + 1) \in UserGates
    <2>1. g.src.lease \in Leases /\ [run |-> g.src.run, cs |-> g.src.leaseSequence] \in [run : Nat, cs : Nat]
        BY <1>4 DEF Sources
    <2>2. [g EXCEPT !.src = None] \in UserGates
        BY <1>4 DEF UserGates
    <2> HIDE DEF g
    <2> QED
        BY <1>5, <2>1, <2>2, RetireType DEF removeSourceLocked
<1>7. gate' \in [Users -> UserGates] /\ seq' \in Nat
    <2>1. \/ gate' = [gate EXCEPT ![u] = removeSourceLocked(g, seq + 1)] /\ seq' = seq + 1
          \/ gate' = [gate EXCEPT ![u] = g] /\ seq' = seq
        BY DEF Release, Numbered
    <2> HIDE DEF g
    <2> QED
        BY <1>4, <1>5, <1>6, <2>1 DEF GateTypeOK
<1> QED
    BY <1>7 DEF Release, GateTypeOK, netVars, panelVars

\* A lease expires on the node (expireLocked): the types are kept.
LEMMA ExpireType ==
    ASSUME GateTypeOK, NEW u \in Users, expireSource(u)
    PROVE  GateTypeOK'
<1>1. removeSourceLocked(gate[u], seq + 1) \in UserGates
    BY RemoveType DEF expireSource, Live, Source, GateTypeOK
<1>2. gate' \in [Users -> UserGates] /\ seq' \in Nat
    BY <1>1 DEF expireSource, GateTypeOK, Numbered
<1> QED
    BY <1>2 DEF expireSource, GateTypeOK, netVars, panelVars

\* Giving a request up keeps the types.
LEMMA GiveUpType ==
    ASSUME GateTypeOK, NEW req, GiveUp(req)
    PROVE  wire' \in SUBSET Requests /\ answers' \in SUBSET Answers
BY DEF GiveUp, GateTypeOK, Forget

\* Losing the session with the panel keeps the types (loseSession).
LEMMA LoseType ==
    ASSUME GateTypeOK, NEW r, loseSession(r)
    PROVE  ready' \in BOOLEAN /\ run' \in Nat /\ gate' \in [Users -> UserGates] /\ seq' \in Nat
<1>1. \A u \in Users : Closed(gate[u], seq + 1) \in UserGates
    BY ClosedType DEF GateTypeOK
<1>a. CASE run = r
    <2>1. ready' = FALSE /\ run' = 0 /\ gate' = [u \in Users |-> Closed(gate[u], seq + 1)]
          /\ seq' = seq + 1
        BY <1>a DEF loseSession, Numbered
    <2>2. gate' \in [Users -> UserGates]
        BY <1>1, <2>1
    <2>3. ready' \in BOOLEAN
        BY <2>1
    <2>4. run' \in Nat /\ seq' \in Nat
        BY <2>1 DEF GateTypeOK
    <2> QED
        BY <2>2, <2>3, <2>4
<1>b. CASE run # r
    <2>1. ready' = ready /\ run' = run /\ gate' = gate /\ seq' = seq
        BY <1>b DEF loseSession
    <2> QED
        BY <2>1 DEF GateTypeOK
<1> QED
    BY <1>a, <1>b

\* The sections of an admission.
LEMMA AdmitSendType ==
    ASSUME GateTypeOK, NEW u \in Users, AdmitSend(u)
    PROVE  GateTypeOK'
<1> DEFINE req == Snapshot("admit", u)
<1>1. req \in Requests
    BY SnapshotType
<1>2. flight[u] \in Flights
    BY FlightType DEF AdmitSend
<1>3. flight' = [flight EXCEPT ![u] = [flight[u] EXCEPT !.stage = "sent", !.req = req]]
    BY <1>2 DEF AdmitSend, GateTypeOK, Flights
<1> HIDE DEF req
<1>4. [flight[u] EXCEPT !.stage = "sent", !.req = req] \in Flights
    BY <1>1, <1>2 DEF Flights
<1>5. flight' \in [Users -> Flights \cup {None}]
    BY <1>3, <1>4 DEF GateTypeOK
<1>6. wire' \in SUBSET Requests /\ seq' \in Nat
    BY <1>1 DEF AdmitSend, GateTypeOK, Numbered, req
<1> QED
    BY <1>5, <1>6 DEF AdmitSend, GateTypeOK, panelVars

\* An admission fails on the way (requestCached): the types are kept.
LEMMA AdmitErrorType ==
    ASSUME GateTypeOK, NEW u \in Users, AdmitError(u)
    PROVE  GateTypeOK'
<1>1. flight' \in [Users -> Flights \cup {None}]
    BY DEF AdmitError, AdmitFails, GateTypeOK
<1>2. wire' \in SUBSET Requests /\ answers' \in SUBSET Answers
    BY GiveUpType DEF AdmitError, netVars, GateTypeOK
<1> QED
    BY <1>1, <1>2 DEF AdmitError, GateTypeOK, panelVars

\* The parts of an answer have their types.
LEMMA AnswerParts ==
    ASSUME GateTypeOK, NEW a \in answers
    PROVE  /\ a \in Answers /\ a.req \in Requests /\ a.req.seq \in Nat /\ a.req.started \in Nat
           /\ a.time \in Nat /\ a.revoked \in SUBSET [user : Users, lease : Leases]
           /\ a.leases \in SUBSET Items
           /\ a.status = "allowed" => a.item \in Items
<1>1. a \in Answers
    BY DEF GateTypeOK
<1> QED
    BY <1>1 DEF Answers, Requests

\* The panel's answer to an admission arrives (requestCached): the types are kept.
LEMMA AdmitAnswerType ==
    ASSUME GateTypeOK, NEW u \in Users, NEW a \in answers, AdmitAnswer(u, a)
    PROVE  GateTypeOK'
<1> DEFINE g == IF run = a.req.run THEN Revoked(gate, a.revoked, a.req.seq, seq + 1) ELSE gate
<1>0. Busy(u) /\ answers' \in SUBSET Answers
    BY DEF AdmitAnswer, Forget, GateTypeOK
<1>1. gate' \in [Users -> UserGates] /\ seq' \in Nat /\ run' \in Nat /\ ready' \in BOOLEAN
      /\ fence' \in [Users -> [Leases -> Nat]]
    <2>a. CASE a.status = "lost"
        BY <2>a, LoseType DEF AdmitAnswer, GateTypeOK
    <2>b. CASE a.status # "lost"
        <3>1. g \in [Users -> UserGates]
            <4>1. seq + 1 \in Nat /\ run \in Nat /\ now \in Nat /\ gate \in [Users -> UserGates]
                BY DEF GateTypeOK
            <4>2. Revoked(gate, a.revoked, a.req.seq, seq + 1) \in [Users -> UserGates]
                BY <4>1, AnswerParts, RevokedType
            <4> QED
                BY <4>1, <4>2
        <3>2. gate' = confirmSnapshot(g, a.req, u) /\ fence' = Fenced(g)
              /\ NumberedIf(Fenced(g) # fence)
              /\ run' = run /\ ready' = ready
            BY <2>b DEF AdmitAnswer
        <3>3. seq' \in Nat
            BY <3>2 DEF NumberedIf, Numbered, GateTypeOK
        <3>4. fence' \in [Users -> [Leases -> Nat]]
            BY <3>2, FencedType DEF GateTypeOK
        <3> HIDE DEF g
        <3> QED
            BY <3>1, <3>2, <3>3, <3>4, ConfirmedType DEF GateTypeOK
    <2> QED
        BY <2>a, <2>b
<1>2. flight' \in [Users -> Flights \cup {None}]
    <2>1. flight[u] \in Flights /\ flight[u].stage = "sent" /\ flight[u].req = a.req
        BY <1>0, FlightType DEF AdmitAnswer
    <2>2. [flight[u] EXCEPT !.stage = "ready", !.req = None] \in Flights
        BY <2>1 DEF Flights
    <2>3. ASSUME a.status = "allowed"
          PROVE  [flight[u] EXCEPT !.stage = "verify", !.item =
                    [lease |-> a.item.lease, cs |-> a.item.cs, confirmedAt |-> a.item.confirmedAt,
                     deadline |-> Deadline(a.item, a.time, a.req.started)]] \in Flights
        <3> DEFINE i == [lease |-> a.item.lease, cs |-> a.item.cs,
                         confirmedAt |-> a.item.confirmedAt,
                         deadline |-> Deadline(a.item, a.time, a.req.started)]
        <3>1. i \in Grants
            BY <2>3, AnswerParts DEF Deadline, Items, Grants
        <3>2. flight[u].req \in Requests
            BY <2>1, AnswerParts
        <3> HIDE DEF i
        <3>3. [flight[u] EXCEPT !.stage = "verify", !.item = i] \in Flights
            BY <2>1, <3>1, <3>2 DEF Flights
        <3> QED
            BY <3>3 DEF i
    <2>4. \/ flight' = [flight EXCEPT ![u] = None]
          \/ flight' = [flight EXCEPT ![u] = [flight[u] EXCEPT !.stage = "ready", !.req = None]]
          \/ /\ a.status = "allowed"
             /\ flight' = [flight EXCEPT ![u] = [flight[u] EXCEPT !.stage = "verify", !.item =
                    [lease |-> a.item.lease, cs |-> a.item.cs, confirmedAt |-> a.item.confirmedAt,
                     deadline |-> Deadline(a.item, a.time, a.req.started)]]]
        BY DEF AdmitAnswer, AdmitFails
    <2> QED
        BY <2>2, <2>3, <2>4 DEF GateTypeOK
<1> QED
    BY <1>0, <1>1, <1>2 DEF AdmitAnswer, GateTypeOK, panelVars

\* Noting that a synchronisation omitted the source keeps the types.
LEMMA OmissionType ==
    ASSUME NEW g \in UserGates, g.src \in Sources, NEW n \in Nat
    PROVE  [g EXCEPT !.src.omissionSequence = n] \in UserGates
<1>1. [g.src EXCEPT !.omissionSequence = n] \in Sources
    BY DEF UserGates, Sources
<1> QED
    BY <1>1 DEF UserGates

\* An admission installs its lease (installLeaseLocked): the types are kept.
LEMMA AdmitInstallType ==
    ASSUME GateTypeOK, NEW u \in Users, AdmitInstall(u)
    PROVE  GateTypeOK'
<1> DEFINE f == flight[u]
           g == installLeaseLocked(gate[u], f.item, f.item.deadline, f.req.seq, seq + 1)
<1>1. f \in Flights /\ f.item \in Grants /\ f.req \in Requests
    BY FlightType DEF AdmitInstall
<1>2. gate[u] \in UserGates /\ seq + 1 \in Nat /\ run \in Nat /\ f.req.seq \in Nat
    BY <1>1 DEF GateTypeOK, Requests
<1>3. f.item.lease \in Leases /\ f.item.cs \in Nat /\ f.item.confirmedAt \in Nat
      /\ f.item.deadline \in Int
    BY <1>1 DEF Grants
<1> HIDE DEF f
<1>4. g \in UserGates /\ g.src \in Sources
    BY <1>2, <1>3, InstallType
<1>5. [g EXCEPT !.src.omissionSequence = seq + 1] \in UserGates
    BY <1>2, <1>4, OmissionType
<1>6. \/ /\ gate' = [gate EXCEPT ![u] = [g EXCEPT !.src.omissionSequence = seq + 1]]
         /\ seq' = seq + 1 /\ flight' = [flight EXCEPT ![u].stage = "granted"]
      \/ /\ gate' \in {gate, [gate EXCEPT ![u] = g]}
         /\ seq' = seq /\ flight' = [flight EXCEPT ![u] = None]
    BY DEF AdmitInstall, f, Numbered
<1> HIDE DEF g
<1>7. gate' \in [Users -> UserGates] /\ seq' \in Nat
    BY <1>2, <1>4, <1>5, <1>6 DEF GateTypeOK
<1>8. flight' \in [Users -> Flights \cup {None}]
    <2>1. [f EXCEPT !.stage = "granted"] \in Flights
        BY <1>1 DEF Flights
    <2>2. \/ flight' = [flight EXCEPT ![u] = [f EXCEPT !.stage = "granted"]]
          \/ flight' = [flight EXCEPT ![u] = None]
        BY <1>6 DEF f
    <2> QED
        BY <2>1, <2>2 DEF GateTypeOK
<1> QED
    BY <1>7, <1>8 DEF AdmitInstall, GateTypeOK, netVars, panelVars

\* A granted admission serves who waits (admit): the types are kept.
LEMMA AdmitGrantType ==
    ASSUME GateTypeOK, NEW u \in Users, admit(u)
    PROVE  GateTypeOK'
<1>1. flight[u].waiters \in SUBSET Conns
    BY FlightType DEF admit
<1>2. gate' \in [Users -> UserGates]
    BY <1>1, AddPermitsType DEF admit, Usable, Live, GateTypeOK
<1>3. flight' \in [Users -> Flights \cup {None}]
    BY DEF admit, GateTypeOK
<1> QED
    BY <1>2, <1>3 DEF admit, GateTypeOK, netVars, panelVars

\* The sections of a synchronisation.
LEMMA SyncSendType ==
    ASSUME GateTypeOK, SyncSend
    PROVE  GateTypeOK'
<1> DEFINE req == Snapshot("sync", None)
<1>1. req \in Requests
    BY SnapshotType
<1> HIDE DEF req
<1>2. [stage |-> "sent", req |-> req, answer |-> None, final |-> closing] \in Calls
    BY <1>1 DEF GateTypeOK, Calls
<1>3. call' = [stage |-> "sent", req |-> req, answer |-> None, final |-> closing]
      /\ wire' = wire \cup {req} /\ seq' = seq + 1
    BY DEF SyncSend, req, Numbered
<1> QED
    BY <1>1, <1>2, <1>3 DEF SyncSend, GateTypeOK, panelVars

\* A synchronisation fails on the way (Sync): the types are kept.
LEMMA SyncErrorType ==
    ASSUME GateTypeOK, SyncError
    PROVE  GateTypeOK'
<1>1. wire' \in SUBSET Requests /\ answers' \in SUBSET Answers
    BY GiveUpType DEF SyncError, netVars, GateTypeOK
<1> QED
    BY <1>1 DEF SyncError, GateTypeOK, panelVars

\* The call in progress has its parts.
LEMMA CallType ==
    ASSUME GateTypeOK, call # None
    PROVE  /\ call \in Calls /\ call.req \in Requests
           /\ call.stage = "accept" => call.answer \in Answers /\ call.answer.req = call.req
BY DEF GateTypeOK, Calls

\* The answer to a synchronisation arrives (Sync): the types are kept.
LEMMA SyncAnswerType ==
    ASSUME GateTypeOK, NEW a \in answers, SyncAnswer(a)
    PROVE  GateTypeOK'
<1> DEFINE g == Revoked(gate, a.revoked, a.req.seq, seq + 1)
<1>0. answers' \in SUBSET Answers
    BY DEF SyncAnswer, Forget, GateTypeOK
<1>1. g \in [Users -> UserGates]
    <2>1. seq + 1 \in Nat /\ run \in Nat /\ now \in Nat /\ gate \in [Users -> UserGates]
        BY DEF GateTypeOK
    <2> QED
        BY <2>1, AnswerParts, RevokedType
<1>2. gate' \in [Users -> UserGates] /\ seq' \in Nat /\ run' \in Nat /\ ready' \in BOOLEAN
      /\ fence' \in [Users -> [Leases -> Nat]]
    <2>a. CASE a.status = "lost"
        BY <2>a, LoseType DEF SyncAnswer, GateTypeOK
    <2>b. CASE a.status # "lost" /\ run = a.req.run
        <3>1. gate' = g /\ fence' = Fenced(g) /\ NumberedIf(Fenced(g) # fence)
              /\ run' = run /\ ready' = ready
            BY <2>b DEF SyncAnswer
        <3>2. seq' \in Nat
            BY <3>1 DEF NumberedIf, Numbered, GateTypeOK
        <3>3. fence' \in [Users -> [Leases -> Nat]]
            BY <3>1, FencedType DEF GateTypeOK
        <3> HIDE DEF g
        <3> QED
            BY <1>1, <3>1, <3>2, <3>3 DEF GateTypeOK
    <2>c. CASE a.status # "lost" /\ run # a.req.run
        BY <2>c DEF SyncAnswer, GateTypeOK
    <2> QED
        BY <2>a, <2>b, <2>c
<1>3. call' \in Calls \cup {None}
    <2>1. call' = None \/ call' = [call EXCEPT !.stage = "accept", !.answer = a]
        BY DEF SyncAnswer
    <2>2. call \in Calls /\ a \in Answers /\ a.req = call.req
        BY CallType, AnswerParts DEF SyncAnswer
    <2>3. [call EXCEPT !.stage = "accept", !.answer = a] \in Calls
        BY <2>2 DEF Calls
    <2> QED
        BY <2>1, <2>3
<1> QED
    BY <1>0, <1>2, <1>3 DEF SyncAnswer, GateTypeOK, panelVars

\* An account of the answer is accepted (acceptLeases): the types are kept.
LEMMA AcceptType ==
    ASSUME GateTypeOK, acceptLeases
    PROVE  GateTypeOK'
<1> DEFINE a == call.answer
           g == [u \in Users |-> Accepted(u, gate[u], a, seq + 1)]
<1>1. call \in Calls /\ a \in Answers
    BY CallType DEF acceptLeases
<1>2. g \in [Users -> UserGates]
    BY <1>1, AcceptedType DEF GateTypeOK
<1>3. [call EXCEPT !.stage = "confirm"] \in Calls
    BY <1>1 DEF Calls
<1>4. \/ /\ gate' = g /\ fence' = Fenced(g) /\ NumberedIf(g # gate)
         /\ call' = [call EXCEPT !.stage = "confirm"]
      \/ call' = None /\ gate' = gate /\ fence' = fence /\ seq' = seq
    BY DEF acceptLeases
<1> HIDE DEF g
<1>5. gate' \in [Users -> UserGates] /\ seq' \in Nat /\ fence' \in [Users -> [Leases -> Nat]]
      /\ call' \in Calls \cup {None}
    BY <1>2, <1>3, <1>4, FencedType, SMTT(20) DEF GateTypeOK, NumberedIf, Numbered
<1> QED
    BY <1>5 DEF acceptLeases, GateTypeOK, netVars, panelVars

\* The closed leases are confirmed (confirmSnapshot): the types are kept.
LEMMA SyncConfirmType ==
    ASSUME GateTypeOK, SyncConfirm
    PROVE  GateTypeOK'
<1>1. gate' \in [Users -> UserGates]
    BY ConfirmedType DEF SyncConfirm, GateTypeOK
<1> QED
    BY <1>1 DEF SyncConfirm, GateTypeOK, netVars, panelVars

\* SetUsers and Stop.
LEMMA SetUsersType ==
    ASSUME GateTypeOK, NEW allowed \in SUBSET Users, SetUsers(allowed)
    PROVE  GateTypeOK'
<1> DEFINE removed == {u \in Users \ allowed : u \in users \/ Busy(u) \/ Source(u) # None}
           fenced(u) == [gate[u] EXCEPT !.barrier = seq + 1]
           g(u) == IF u \notin removed THEN Purge(gate[u])
                   ELSE IF Source(u) = None THEN Purge(fenced(u))
                   ELSE revokeLocked(fenced(u), Source(u).lease, NoIdentity, 0, seq + 1)
<1>0. seq + 1 \in Nat /\ run \in Nat /\ now \in Nat /\ 0 \in Nat
    BY DEF GateTypeOK
<1>1. ASSUME NEW u \in Users PROVE Purge(gate[u]) \in UserGates /\ g(u) \in UserGates
    <2>1. gate[u] \in UserGates
        BY DEF GateTypeOK
    <2>2. fenced(u) \in UserGates
        BY <1>0, <2>1 DEF UserGates
    <2>3. Source(u) # None => Source(u).lease \in Leases
        BY <2>1 DEF UserGates, Sources, Source
    <2> HIDE DEF fenced, removed
    <2>4. Source(u) # None =>
            revokeLocked(fenced(u), Source(u).lease, NoIdentity, 0, seq + 1) \in UserGates
        BY <1>0, <2>2, <2>3, RevokeType, NoIdentityType
    <2> QED
        BY <2>1, <2>2, <2>4, PurgeType
<1>2. \/ gate' = [u \in Users |-> Purge(gate[u])] /\ seq' = seq /\ fence' = fence
      \/ /\ gate' = [u \in Users |-> g(u)] /\ seq' = seq + 1
         /\ fence' = [u \in Users |-> [l \in Leases |->
                        IF u \in removed THEN seq + 1 ELSE fence[u][l]]]
    BY DEF SetUsers, Numbered
<1>3. gate' \in [Users -> UserGates]
    <2> HIDE DEF g
    <2> QED
        BY <1>1, <1>2
<1>4. seq' \in Nat /\ fence' \in [Users -> [Leases -> Nat]]
    <2> HIDE DEF g, removed
    <2> QED
        BY <1>0, <1>2 DEF GateTypeOK
<1>5. users' \subseteq Users
    BY DEF SetUsers
<1> QED
    BY <1>3, <1>4, <1>5 DEF SetUsers, GateTypeOK, netVars, panelVars

\* The gate stops (Stop): the types are kept.
LEMMA StopType == GateTypeOK /\ Stop => GateTypeOK'
<1> SUFFICES ASSUME GateTypeOK, Stop PROVE GateTypeOK'
    OBVIOUS
<1>1. \A u \in Users : Closed(gate[u], seq + 1) \in UserGates
    BY ClosedType DEF GateTypeOK
<1>2. gate' \in [Users -> UserGates]
    BY <1>1 DEF Stop
<1>3. ready' \in BOOLEAN /\ closing' \in BOOLEAN
    BY DEF Stop
<1>4. seq' \in Nat
    BY DEF Stop, GateTypeOK, Numbered
<1> QED
    BY <1>2, <1>3, <1>4 DEF Stop, GateTypeOK, netVars, panelVars

\* The panel: what it holds, and its answers.
LEMMA AnswerType ==
    ASSUME GateTypeOK, NEW req, NEW a \in Answers, Answer(req, a), hold' \in [Users -> Holds \cup {None}]
    PROVE  GateTypeOK'
<1>1. answers' \in SUBSET Answers /\ wire' \in SUBSET Requests
    BY DEF Answer, GateTypeOK
<1> QED
    BY <1>1 DEF Answer, GateTypeOK

\* A refusal is an answer.
LEMMA NoAnswerType ==
    ASSUME now \in Nat, NEW req \in Requests, NEW status \in {"lost", "waiting", "denied", "ok"}
    PROVE  NoAnswer(req, status) \in Answers
BY DEF NoAnswer, Answers, Verdicts

\* What the panel keeps after a return has its type.
LEMMA ReturnsType ==
    ASSUME GateTypeOK, NEW req
    PROVE  AfterReturns(req) \in [Users -> Holds \cup {None}]
BY DEF AfterReturns, GateTypeOK

\* A confirmed lease is one.
LEMMA ConfirmType ==
    ASSUME GateTypeOK, NEW h, h.lease \in Leases, h.run \in Nat => h.cs \in Nat, h.run \in Nat,
           NEW req \in Requests
    PROVE  Confirm(h, req) \in Holds
<1> DEFINE x == larger(IF h.run = req.run THEN h.cs ELSE 0, req.seq)
<1>1. req.seq \in Nat /\ req.run \in Nat /\ now \in Nat /\ now + Grace \in Nat
    BY Numbers DEF Requests, GateTypeOK
<1>2. x \in Nat
    BY <1>1 DEF larger
<1> HIDE DEF x
<1>3. Confirm(h, req) = [lease |-> h.lease, run |-> req.run, cs |-> x, confirmedAt |-> now,
                         expiresAt |-> now + Grace, revoked |-> FALSE]
    BY DEF Confirm, x
<1> QED
    BY <1>1, <1>2, <1>3 DEF Holds

\* What the panel reports of a lease is an item.
LEMMA ItemType ==
    ASSUME NEW u \in Users, NEW h \in Holds
    PROVE  Item(u, h) \in Items
BY DEF Item, Holds, Items

\* What the panel knows as revoked has its type.
LEMMA RevokedAtType ==
    ASSUME NEW h \in [Users -> Holds \cup {None}]
    PROVE  RevokedAt(h) \in SUBSET [user : Users, lease : Leases]
<1>1. ASSUME NEW u \in Users, h[u] # None
      PROVE  [user |-> u, lease |-> h[u].lease] \in [user : Users, lease : Leases]
    <2>1. h[u] \in Holds
        BY <1>1
    <2> QED
        BY <2>1 DEF Holds
<1> QED
    BY <1>1 DEF RevokedAt

\* The panel handles a request whose answer is lost: the types are kept.
LEMMA PanelLostType ==
    ASSUME GateTypeOK, NEW req \in wire, PanelLost(req)
    PROVE  GateTypeOK'
<1>1. NoAnswer(req, "lost") \in Answers
    BY NoAnswerType DEF GateTypeOK
<1> QED
    BY <1>1, AnswerType DEF PanelLost, GateTypeOK

\* A grant: the lease of a free slot, or the one that is held.
LEMMA GrantType ==
    ASSUME GateTypeOK, NEW h \in [Users -> Holds \cup {None}], NEW u \in Users,
           NEW l \in Grantable(h[u]), NEW req \in Requests
    PROVE  Confirm(IF h[u] = None THEN [lease |-> l, run |-> 0, cs |-> 0] ELSE h[u], req) \in Holds
<1>1. CASE h[u] = None
    <2>1. l \in Leases
        BY <1>1 DEF Grantable
    <2> QED
        BY <1>1, <2>1, ConfirmType
<1>2. CASE h[u] # None
    <2>1. h[u] \in Holds
        BY <1>2
    <2>2. h[u].lease \in Leases /\ h[u].run \in Nat /\ h[u].cs \in Nat
        BY <2>1 DEF Holds
    <2> QED
        BY <1>2, <2>2, ConfirmType
<1> QED
    BY <1>1, <1>2

\* The panel admits a node: the types are kept.
LEMMA PanelAdmitType ==
    ASSUME GateTypeOK, NEW req \in wire, PanelAdmit(req)
    PROVE  GateTypeOK'
<1> DEFINE h == AfterReturns(req)
           u == req.user
<1>1. req \in Requests
    BY DEF GateTypeOK
<1>2. h \in [Users -> Holds \cup {None}] /\ u \in Users /\ now \in Nat
    BY <1>1, ReturnsType DEF GateTypeOK, PanelAdmit, Requests
<1> HIDE DEF h
<1>a. CASE /\ hold' = h
           /\ \E status \in {"waiting", "denied"} :
                 Answer(req, [NoAnswer(req, status) EXCEPT !.revoked = RevokedAt(h)])
    <2>1. PICK status \in {"waiting", "denied"} :
            Answer(req, [NoAnswer(req, status) EXCEPT !.revoked = RevokedAt(h)])
        BY <1>a
    <2>2. NoAnswer(req, status) \in Answers /\ RevokedAt(h) \in SUBSET [user : Users, lease : Leases]
        BY <1>1, <1>2, NoAnswerType, RevokedAtType
    <2>3. [NoAnswer(req, status) EXCEPT !.revoked = RevokedAt(h)] \in Answers
        BY <2>2 DEF Answers
    <2> QED
        BY <1>a, <1>2, <2>1, <2>3, AnswerType
<1>b. CASE \E l \in Grantable(h[u]) :
             /\ hold' = [h EXCEPT ![u] =
                   Confirm(IF h[u] = None THEN [lease |-> l, run |-> 0, cs |-> 0] ELSE h[u], req)]
             /\ Answer(req, [NoAnswer(req, "allowed") EXCEPT
                               !.item = Item(u, hold'[u]), !.revoked = RevokedAt(hold')])
    <2>1. PICK l \in Grantable(h[u]) :
             /\ hold' = [h EXCEPT ![u] =
                   Confirm(IF h[u] = None THEN [lease |-> l, run |-> 0, cs |-> 0] ELSE h[u], req)]
             /\ Answer(req, [NoAnswer(req, "allowed") EXCEPT
                               !.item = Item(u, hold'[u]), !.revoked = RevokedAt(hold')])
        BY <1>b
    <2> DEFINE c == Confirm(IF h[u] = None THEN [lease |-> l, run |-> 0, cs |-> 0] ELSE h[u], req)
    <2>2. c \in Holds
        BY <1>1, <1>2, GrantType
    <2>3. hold' = [h EXCEPT ![u] = c]
        BY <2>1
    <2> HIDE DEF c
    <2>4. hold' \in [Users -> Holds \cup {None}] /\ hold'[u] \in Holds
        BY <1>2, <2>2, <2>3
    <2>5. RevokedAt(hold') \in SUBSET [user : Users, lease : Leases] /\ Item(u, hold'[u]) \in Items
        BY <1>2, <2>4, RevokedAtType, ItemType
    <2>6. [NoAnswer(req, "allowed") EXCEPT !.item = Item(u, hold'[u]),
                                           !.revoked = RevokedAt(hold')] \in Answers
        BY <1>1, <1>2, <2>5 DEF NoAnswer, Answers, Verdicts
    <2> QED
        BY <2>1, <2>4, <2>6, AnswerType
<1> QED
    BY <1>a, <1>b DEF PanelAdmit, h

\* The panel answers a synchronisation: the types are kept.
LEMMA PanelSyncType ==
    ASSUME GateTypeOK, NEW req \in wire, PanelSync(req)
    PROVE  GateTypeOK'
<1> DEFINE h == AfterReturns(req)
           H == [u \in Users |-> IF h[u] # None /\ ~h[u].revoked /\ u \in req.active
                                 THEN Confirm(h[u], req) ELSE h[u]]
           leases == {Item(u, H[u]) : u \in {v \in Users : H[v] # None /\ ~H[v].revoked}}
           idle == {u \in Users : u \notin req.active \cup req.pending}
<1>1. req \in Requests /\ now \in Nat
    BY DEF GateTypeOK
<1>2. h \in [Users -> Holds \cup {None}]
    BY ReturnsType
<1> HIDE DEF h
<1>3. H \in [Users -> Holds \cup {None}]
    <2>1. ASSUME NEW u \in Users, h[u] # None PROVE Confirm(h[u], req) \in Holds
        <3>1. h[u] \in Holds
            BY <1>2, <2>1
        <3>2. h[u].lease \in Leases /\ h[u].run \in Nat /\ h[u].cs \in Nat
            BY <3>1 DEF Holds
        <3> QED
            BY <1>1, <3>2, ConfirmType
    <2> QED
        BY <1>2, <2>1
<1>4. hold' = H /\ Answer(req, [NoAnswer(req, "ok") EXCEPT !.leases = leases,
                                   !.revoked = RevokedAt(H), !.idle = idle])
    BY DEF PanelSync, h
<1> HIDE DEF H
<1>5. leases \in SUBSET Items /\ RevokedAt(H) \in SUBSET [user : Users, lease : Leases]
    <2>1. ASSUME NEW u \in Users, H[u] # None PROVE Item(u, H[u]) \in Items
        BY <1>3, <2>1, ItemType
    <2> QED
        BY <1>3, <2>1, RevokedAtType
<1>6. idle \in SUBSET Users /\ NoAnswer(req, "ok") \in Answers
    BY <1>1, NoAnswerType
<1> HIDE DEF leases, idle
<1>7. [NoAnswer(req, "ok") EXCEPT !.leases = leases, !.revoked = RevokedAt(H), !.idle = idle] \in Answers
    BY <1>5, <1>6 DEF Answers
<1> QED
    BY <1>3, <1>4, <1>7, AnswerType

\* Type correctness: every variable keeps the type of the Go field, or of the
\* message, that it stands for.
LEMMA GateTypeStep == GateTypeOK /\ [GateNext]_gateVars => GateTypeOK'
<1> SUFFICES ASSUME GateTypeOK, [GateNext]_gateVars PROVE GateTypeOK'
    OBVIOUS
<1>1. CASE begin
    BY <1>1, BeginType
<1>2. CASE Stop
    BY <1>2, StopType
<1>3. CASE Tick
    BY <1>3 DEF Tick, GateTypeOK, netVars, panelVars
<1>4. CASE PanelForgets
    BY <1>4 DEF PanelForgets, GateTypeOK, netVars
<1>5. CASE SyncSend \/ SyncError \/ acceptLeases \/ SyncConfirm
    BY <1>5, SyncSendType, SyncErrorType, AcceptType, SyncConfirmType
<1>6. ASSUME NEW a \in answers, SyncAnswer(a) PROVE GateTypeOK'
    BY <1>6, SyncAnswerType
<1>7. ASSUME NEW u \in Users, NEW c \in Conns, Acquire(c, u) \/ CancelWait(c, u) \/ Release(c, u)
      PROVE  GateTypeOK'
    BY <1>7, AcquireType, CancelWaitType, ReleaseType
<1>8. ASSUME NEW u \in Users, AdmitSend(u) \/ AdmitError(u) \/ AdmitInstall(u) \/ admit(u)
      PROVE  GateTypeOK'
    BY <1>8, AdmitSendType, AdmitErrorType, AdmitInstallType, AdmitGrantType
<1>9. ASSUME NEW u \in Users, NEW a \in answers, AdmitAnswer(u, a) PROVE GateTypeOK'
    BY <1>9, AdmitAnswerType
<1>10. ASSUME NEW u \in Users, expireSource(u) PROVE GateTypeOK'
    BY <1>10, ExpireType
<1>11. ASSUME NEW u \in Users, PanelRevokes(u) PROVE GateTypeOK'
    <2>1. ASSUME hold[u] # None PROVE [hold[u] EXCEPT !.revoked = TRUE] \in Holds
        <3>1. hold[u] \in Holds
            BY <2>1 DEF GateTypeOK
        <3> QED
            BY <3>1 DEF Holds
    <2>2. hold' = [hold EXCEPT ![u] = [hold[u] EXCEPT !.revoked = TRUE]] /\ hold[u] # None
        BY <1>11 DEF PanelRevokes, Held
    <2>3. hold' \in [Users -> Holds \cup {None}]
        BY <2>1, <2>2 DEF GateTypeOK
    <2> QED
        BY <1>11, <2>3 DEF PanelRevokes, GateTypeOK, netVars
<1>12. ASSUME NEW allowed \in SUBSET Users, SetUsers(allowed) PROVE GateTypeOK'
    BY <1>12, SetUsersType
<1>13. ASSUME NEW req \in wire, PanelLost(req) \/ PanelAdmit(req) \/ PanelSync(req)
       PROVE  GateTypeOK'
    BY <1>13, PanelLostType, PanelAdmitType, PanelSyncType
<1>14. CASE UNCHANGED gateVars
    BY <1>14 DEF gateVars, GateTypeOK
<1> QED
    BY <1>1, <1>2, <1>3, <1>4, <1>5, <1>6, <1>7, <1>8, <1>9, <1>10, <1>11, <1>12, <1>13, <1>14
       DEF GateNext

\* The manager, the network and the panel keep their types at every step.
THEOREM GateTypesCorrect == GateSpec => []GateTypeOK
BY GateInitType, GateTypeStep, PTL DEF GateSpec

-----------------------------------------------------------------------------
(***************************************************************************)
(* NoResurrection.  Moves(g, h, n, S) is what a critical section with      *)
(* number n may do to one user's part of the gate: records of revocations  *)
(* are added with the barrier n and dropped when they are old enough, and  *)
(* a source that admits connections was there before, or rests on one of   *)
(* the snapshots S, which no barrier refused.                              *)
(***************************************************************************)
NewMark(m, n) == m # None /\ m.until = now + Grace + 1 /\ m.barrier = n
SameMark(g, h, l) == h.revoked[l] = g.revoked[l]
OldMark(g, h, l) ==
    h.revoked[l] = None /\ g.revoked[l] # None /\ now > g.revoked[l].until

Stays(g, h) ==
    /\ Live(g.src) /\ g.src.lease = h.src.lease
    /\ g.src.confirmedSequence = h.src.confirmedSequence
Comes(g, h, S) ==
    h.src.confirmedSequence \in S /\ ~Refuses(g, h.src.lease, h.src.confirmedSequence)

Moves(g, h, n, S) ==
    /\ h.barrier = g.barrier
    /\ \A l \in Leases : SameMark(g, h, l) \/ OldMark(g, h, l) \/ NewMark(h.revoked[l], n)
    /\ Live(h.src) =>
          /\ Stays(g, h) \/ Comes(g, h, S)
          /\ SameMark(g, h, h.src.lease) \/ OldMark(g, h, h.src.lease)

\* What happens in one critical section adds up.
LEMMA MovesAddUp ==
    ASSUME NEW g \in UserGates, NEW k \in UserGates, NEW h \in UserGates, NEW n \in Nat, NEW S,
           Moves(g, k, n, S), Moves(k, h, n, {}), now \in Nat
    PROVE  Moves(g, h, n, S)
<1>1. ASSUME NEW l \in Leases
      PROVE  /\ SameMark(g, h, l) \/ OldMark(g, h, l) \/ NewMark(h.revoked[l], n)
             /\ (SameMark(g, k, l) \/ OldMark(g, k, l)) /\ (SameMark(k, h, l) \/ OldMark(k, h, l))
                   => SameMark(g, h, l) \/ OldMark(g, h, l)
    <2>1. NewMark(k.revoked[l], n) => ~OldMark(k, h, l)
        BY Numbers DEF NewMark, OldMark
    <2>2. SameMark(g, k, l) \/ OldMark(g, k, l) \/ NewMark(k.revoked[l], n)
        BY DEF Moves
    <2>3. SameMark(k, h, l) \/ OldMark(k, h, l) \/ NewMark(h.revoked[l], n)
        BY DEF Moves
    <2>4. SameMark(k, h, l) => (NewMark(k.revoked[l], n) <=> NewMark(h.revoked[l], n))
        BY DEF SameMark
    <2>5. (SameMark(g, k, l) \/ OldMark(g, k, l)) /\ (SameMark(k, h, l) \/ OldMark(k, h, l))
                   => SameMark(g, h, l) \/ OldMark(g, h, l)
        BY DEF SameMark, OldMark
    <2> QED
        BY <2>1, <2>2, <2>3, <2>4, <2>5
<1>2. ASSUME Live(h.src)
      PROVE  /\ Stays(g, h) \/ Comes(g, h, S)
             /\ SameMark(g, h, h.src.lease) \/ OldMark(g, h, h.src.lease)
    <2>1. Stays(k, h) /\ (SameMark(k, h, h.src.lease) \/ OldMark(k, h, h.src.lease))
        BY <1>2 DEF Moves, Comes
    <2>2. /\ Stays(g, k) \/ Comes(g, k, S)
          /\ SameMark(g, k, k.src.lease) \/ OldMark(g, k, k.src.lease)
        BY <2>1 DEF Moves, Stays
    <2>3. k.src.lease = h.src.lease /\ k.src.confirmedSequence = h.src.confirmedSequence
        BY <2>1 DEF Stays
    <2>4. h.src.lease \in Leases
        BY <1>2 DEF Live, UserGates, Sources
    <2>5. Stays(g, h) \/ Comes(g, h, S)
        BY <2>2, <2>3 DEF Stays, Comes
    <2> QED
        BY <1>1, <2>1, <2>2, <2>3, <2>4, <2>5
<1>3. h.barrier = g.barrier
    BY DEF Moves
<1> QED
    BY <1>1, <1>2, <1>3 DEF Moves

\* A section that leaves the records alone, and closes the source or leaves
\* its lease and its confirmation alone.
LEMMA MovesIfOnlyClosed ==
    ASSUME NEW g, NEW h, NEW n, NEW S,
           h.barrier = g.barrier, h.revoked = g.revoked, Live(h.src) => Stays(g, h)
    PROVE  Moves(g, h, n, S)
BY DEF Moves, SameMark

\* Nothing moves where nothing changes.
LEMMA MovesSame ==
    ASSUME NEW g, NEW k, NEW h, NEW n, NEW S, Moves(g, k, n, S),
           h.barrier = k.barrier, h.revoked = k.revoked, Live(h.src) => Live(k.src),
           h.src.lease = k.src.lease, h.src.confirmedSequence = k.src.confirmedSequence
    PROVE  Moves(g, h, n, S)
BY DEF Moves, SameMark, OldMark, Stays, Comes

\* purgeLocked drops only what is older than a lease's life.
LEMMA PurgeMoves ==
    ASSUME NEW g \in UserGates, NEW n, NEW S
    PROVE  /\ Moves(g, Purge(g), n, S)
           /\ Purge(g).src = g.src /\ Purge(g).barrier = g.barrier
           /\ \A l \in Leases : SameMark(g, Purge(g), l) \/ OldMark(g, Purge(g), l)
<1>1. Purge(g).src = g.src /\ Purge(g).barrier = g.barrier
    BY DEF Purge, UserGates
<1>2. ASSUME NEW l \in Leases PROVE SameMark(g, Purge(g), l) \/ OldMark(g, Purge(g), l)
    BY DEF Purge, UserGates, SameMark, OldMark
<1>3. Live(g.src) => g.src.lease \in Leases
    BY DEF Live, UserGates, Sources
<1> HIDE DEF Purge
<1> QED
    BY <1>1, <1>2, <1>3 DEF Moves, Stays

\* What retireLocked, removeSourceLocked and closeAll leave alone.
LEMMA RetireLeaves ==
    ASSUME NEW g \in UserGates, NEW lease, NEW id, NEW n
    PROVE  /\ retireLocked(g, lease, id, n).src = g.src
           /\ retireLocked(g, lease, id, n).barrier = g.barrier
           /\ retireLocked(g, lease, id, n).revoked = g.revoked
BY DEF retireLocked, UserGates

\* removeSourceLocked leaves no source and keeps what is revoked.
LEMMA RemoveLeaves ==
    ASSUME NEW g \in UserGates, NEW n
    PROVE  /\ removeSourceLocked(g, n).src = None
           /\ removeSourceLocked(g, n).barrier = g.barrier
           /\ removeSourceLocked(g, n).revoked = g.revoked
<1>1. [g EXCEPT !.src = None] \in UserGates /\ [g EXCEPT !.src = None].src = None
      /\ [g EXCEPT !.src = None].barrier = g.barrier
      /\ [g EXCEPT !.src = None].revoked = g.revoked
    BY DEF UserGates
<1> DEFINE b == [g EXCEPT !.src = None]
           id == [run |-> g.src.run, cs |-> g.src.leaseSequence]
<1>2. removeSourceLocked(g, n) = retireLocked(b, g.src.lease, id, n)
    BY DEF removeSourceLocked
<1>4. b \in UserGates
    BY <1>1
<1> HIDE DEF b, id
<1>3. /\ retireLocked(b, g.src.lease, id, n).src = b.src
      /\ retireLocked(b, g.src.lease, id, n).barrier = b.barrier
      /\ retireLocked(b, g.src.lease, id, n).revoked = b.revoked
    BY <1>4, RetireLeaves
<1> QED
    BY <1>1, <1>2, <1>3 DEF b

\* A marked source is the same lease.
LEMMA RevokedSource ==
    ASSUME NEW g \in UserGates, g.src # None
    PROVE  /\ [g EXCEPT !.src.revoked = TRUE].src.revoked
           /\ [g EXCEPT !.src.revoked = TRUE].barrier = g.barrier
           /\ [g EXCEPT !.src.revoked = TRUE].revoked = g.revoked
<1>1. g.src \in Sources
    BY DEF UserGates
<1> QED
    BY <1>1 DEF UserGates, Sources

\* An account closed with the session is only revoked (loseSession).
LEMMA ClosedMoves ==
    ASSUME NEW g \in UserGates, NEW n, NEW m, NEW S
    PROVE  Moves(g, Closed(g, n), m, S) /\ ~Live(Closed(g, n).src)
<1>1. Closed(g, n).barrier = g.barrier /\ Closed(g, n).revoked = g.revoked
      /\ ~Live(Closed(g, n).src)
    BY RemoveLeaves, RevokedSource DEF Closed, Live
<1> QED
    BY <1>1, MovesIfOnlyClosed

\* A revocation marks its lease and closes the source that has it.
LEMMA RevokeMoves ==
    ASSUME NEW g \in UserGates, NEW lease \in Leases, NEW id, NEW s \in Nat, NEW n \in Nat,
           now \in Nat
    PROVE  /\ Moves(g, revokeLocked(g, lease, id, s, n), n, {})
           /\ (s = 0 /\ g.src # None /\ g.src.lease = lease) =>
                 ~Live(revokeLocked(g, lease, id, s, n).src)
           /\ revokeLocked(g, lease, id, s, n).barrier = g.barrier
<1> DEFINE p == Purge(g)
           previous == IF p.revoked[lease] = None THEN 0 ELSE p.revoked[lease].seq
           m == [until |-> now + Grace + 1, barrier |-> n,
                 seq |-> IF s > previous THEN s ELSE previous]
           marked == [p EXCEPT !.revoked[lease] = m]
           h == revokeLocked(g, lease, id, s, n)
<1>1. p \in UserGates /\ p.src = g.src /\ p.barrier = g.barrier
    BY PurgeType, PurgeMoves
<1>2. m \in Marks
    <2>1. p.revoked[lease] \in Marks \cup {None}
        BY <1>1 DEF UserGates
    <2>2. previous \in Nat
        BY <2>1 DEF Marks
    <2> QED
        BY <2>2, Numbers DEF Marks
<1>3. NewMark(m, n)
    BY <1>2, MarkIsSome DEF NewMark
<1>4. Moves(g, p, n, {})
    BY PurgeMoves
<1>5. h = IF Outdated(p, lease, s) THEN p
          ELSE IF p.src = None \/ p.src.lease # lease THEN retireLocked(marked, lease, id, n)
          ELSE IF p.src.permits = {} THEN removeSourceLocked(marked, n)
          ELSE [marked EXCEPT !.src.revoked = TRUE]
    BY DEF revokeLocked
<1> HIDE DEF m, p, h
<1>6. marked \in UserGates /\ marked.src = p.src /\ marked.barrier = p.barrier
      /\ marked.revoked = [p.revoked EXCEPT ![lease] = m]
    BY <1>1, <1>2, MarkType DEF UserGates
<1> HIDE DEF marked
<1>7. CASE Outdated(p, lease, s)
    <2>1. s # 0
        BY <1>7 DEF Outdated
    <2> QED
        BY <1>1, <1>4, <1>5, <1>7, <2>1 DEF h
<1>8. CASE ~Outdated(p, lease, s)
    <2>1. h.barrier = p.barrier /\ h.revoked = marked.revoked
        BY <1>5, <1>6, <1>8, RetireLeaves, RemoveLeaves, RevokedSource
    <2>2. Live(h.src) => h.src = p.src /\ p.src.lease # lease
        <3>1. CASE p.src = None \/ p.src.lease # lease
            <4>1. h.src = p.src
                BY <1>5, <1>6, <1>8, <3>1, RetireLeaves
            <4> QED
                BY <3>1, <4>1 DEF Live
        <3>2. CASE p.src # None /\ p.src.lease = lease
            BY <1>5, <1>6, <1>8, <3>2, RemoveLeaves, RevokedSource DEF Live
        <3> QED
            BY <3>1, <3>2
    <2>3. ASSUME NEW l \in Leases
          PROVE  /\ l = lease => NewMark(h.revoked[l], n)
                 /\ l # lease => SameMark(p, h, l)
        BY <1>1, <1>3, <1>6, <2>1 DEF UserGates, SameMark
    <2>4. ASSUME NEW l \in Leases
          PROVE  /\ SameMark(g, h, l) \/ OldMark(g, h, l) \/ NewMark(h.revoked[l], n)
                 /\ l # lease => SameMark(g, h, l) \/ OldMark(g, h, l)
        <3>1. SameMark(g, p, l) \/ OldMark(g, p, l)
            BY PurgeMoves DEF p
        <3> QED
            BY <2>3, <3>1 DEF SameMark, OldMark
    <2>5. Live(h.src) => Stays(g, h) /\ h.src.lease \in Leases /\ h.src.lease # lease
        BY <1>1, <2>2 DEF Live, Stays, UserGates, Sources
    <2>6. Moves(g, h, n, {})
        BY <1>1, <2>1, <2>4, <2>5 DEF Moves
    <2> QED
        BY <1>1, <2>1, <2>2, <2>6 DEF h
<1> QED
    BY <1>7, <1>8

\* A confirmation is installed if no barrier refuses its snapshot.
LEMMA InstallMoves ==
    ASSUME NEW u, NEW g \in UserGates, NEW item, item.lease \in Leases, item.cs \in Nat,
           item.confirmedAt \in Nat, NEW deadline \in Int, NEW s \in Nat, NEW n \in Nat,
           ~Refused(u, g, item, s), run \in Nat
    PROVE  Moves(g, installLeaseLocked(g, item, deadline, s, n), n, {s})
<1> DEFINE h == installLeaseLocked(g, item, deadline, s, n)
<1>1. ~Refuses(g, item.lease, s)
    BY DEF Refused, Refuses
<1>2. h.barrier = g.barrier /\ h.revoked = g.revoked
      /\ h.src.lease = item.lease /\ h.src.confirmedSequence = s
    <2>a. CASE Repeated(g, item)
        <3>1. g.src \in Sources /\ g.src.lease = item.lease
            BY <2>a DEF Repeated, UserGates
        <3>2. h = [g EXCEPT !.src.confirmedSequence = s,
                            !.src.leaseSequence = larger(@, item.cs),
                            !.src.omissionSequence = larger(@, s)]
            BY <2>a DEF installLeaseLocked
        <3> HIDE DEF h
        <3> QED
            BY <3>1, <3>2 DEF UserGates, Sources
    <2>b. CASE ~Repeated(g, item)
        <3> DEFINE kept == g.src # None /\ g.src.lease = item.lease
                   base == IF g.src # None /\ ~kept THEN removeSourceLocked(g, n) ELSE g
                   new == [run |-> IF kept THEN g.src.run ELSE run,
                           lease |-> item.lease, revoked |-> FALSE,
                           permits |-> IF kept THEN g.src.permits ELSE {},
                           confirmedAt |-> item.confirmedAt, deadline |-> deadline,
                           confirmedSequence |-> s, omissionSequence |-> s,
                           leaseSequence |-> item.cs]
        <3>1. base \in UserGates /\ base.barrier = g.barrier /\ base.revoked = g.revoked
            BY RemoveType, RemoveLeaves
        <3>2. h = [base EXCEPT !.src = new, !.retired[item.lease] = None]
            BY <2>b DEF installLeaseLocked
        <3>3. new.lease = item.lease /\ new.confirmedSequence = s
            OBVIOUS
        <3> HIDE DEF base, new, h
        <3>4. h.barrier = base.barrier /\ h.revoked = base.revoked /\ h.src = new
            BY <3>1, <3>2 DEF UserGates
        <3> QED
            BY <3>1, <3>3, <3>4
    <2> QED
        BY <2>a, <2>b
<1> HIDE DEF h
<1>3. Moves(g, h, n, {s})
    BY <1>1, <1>2 DEF Moves, SameMark, Comes
<1> QED
    BY <1>3 DEF h

\* The sections of whole answers.
LEMMA RevokedMoves ==
    ASSUME NEW g \in [Users -> UserGates], NEW items \in SUBSET [user : Users, lease : Leases],
           NEW s \in Nat, NEW n \in Nat, now \in Nat, NEW u \in Users
    PROVE  Moves(g[u], Revoked(g, items, s, n)[u], n, {})
<1>1. CASE \E i \in items : i.user = u
    <2> DEFINE l == (CHOOSE i \in items : i.user = u).lease
    <2>1. l \in Leases
        BY <1>1
    <2>2. Revoked(g, items, s, n)[u] = revokeLocked(g[u], l, NoIdentity, s, n)
        BY <1>1 DEF Revoked
    <2> HIDE DEF l
    <2> QED
        BY <2>1, <2>2, RevokeMoves
<1>2. CASE ~\E i \in items : i.user = u
    <2>1. Revoked(g, items, s, n)[u] = Purge(g[u])
        BY <1>2 DEF Revoked
    <2> QED
        BY <2>1, PurgeMoves
<1> QED
    BY <1>1, <1>2

\* confirmSnapshot leaves source and revocations alone.
LEMMA ConfirmLeaves ==
    ASSUME NEW g \in [Users -> UserGates], NEW snapshot, NEW user, NEW u \in Users
    PROVE  /\ confirmSnapshot(g, snapshot, user)[u].src = g[u].src
           /\ confirmSnapshot(g, snapshot, user)[u].barrier = g[u].barrier
           /\ confirmSnapshot(g, snapshot, user)[u].revoked = g[u].revoked
<1>1. g[u] \in UserGates
    OBVIOUS
<1> QED
    BY <1>1 DEF confirmSnapshot, UserGates

\* acceptLeases moves an account only as the fence allows.
LEMMA AcceptedMoves ==
    ASSUME NEW u \in Users, NEW g \in UserGates, NEW a \in Answers, NEW n \in Nat,
           run \in Nat, now \in Nat
    PROVE  Moves(g, Accepted(u, g, a, n), n, {a.req.seq})
<1> DEFINE s == a.req.seq
           listed == {i \in a.leases : i.user = u}
           omitted == /\ g.src # None /\ g.src.omissionSequence <= s
                      /\ \A i \in listed : i.lease # g.src.lease
           item == CHOOSE i \in listed : TRUE
           d == Deadline(item, a.time, a.req.started)
           installed == IF listed = {} \/ Refused(u, g, item, s) THEN g
                        ELSE installLeaseLocked(g, item, d, s, n)
           kept == IF omitted THEN revokeLocked(installed, g.src.lease, NoIdentity, s, n)
                   ELSE installed
           final == {kept, revokeLocked(kept, item.lease, [run |-> run, cs |-> item.cs], s, n),
                     revokeLocked(kept, item.lease, NoIdentity, s, n)}
<1>1. s \in Nat /\ a.req.started \in Nat /\ a.time \in Nat
    BY DEF Answers, Requests
<1>2. ASSUME listed # {}
      PROVE  item \in Items /\ item.lease \in Leases /\ item.cs \in Nat /\ item.confirmedAt \in Nat
             /\ d \in Int
    <2>1. a.leases \in SUBSET Items
        BY DEF Answers
    <2>2. item \in Items
        BY <1>2, <2>1
    <2>3. item.expiresAt \in Nat
        BY <2>2 DEF Items
    <2> QED
        BY <1>1, <2>2, <2>3 DEF Items, Deadline
<1>3. installed \in UserGates /\ Moves(g, installed, n, {s})
    <2>1. Moves(g, g, n, {s})
        BY DEF Moves, SameMark, Stays
    <2> HIDE DEF item, d, s, listed
    <2>2. CASE listed = {} \/ Refused(u, g, item, s)
        BY <2>1, <2>2
    <2>3. CASE ~(listed = {} \/ Refused(u, g, item, s))
        <3>1. /\ installLeaseLocked(g, item, d, s, n) \in UserGates
              /\ Moves(g, installLeaseLocked(g, item, d, s, n), n, {s})
            BY <1>1, <1>2, <2>3, InstallType, InstallMoves
        <3> QED
            BY <2>3, <3>1
    <2> QED
        BY <2>2, <2>3
<1>4. kept \in UserGates /\ Moves(g, kept, n, {s})
    <2>1. g.src # None => g.src.lease \in Leases
        BY DEF UserGates, Sources
    <2> HIDE DEF installed, s
    <2>2. CASE omitted
        <3>1. /\ kept \in UserGates
              /\ Moves(installed, kept, n, {})
            BY <1>1, <1>3, <2>1, <2>2, RevokeType, RevokeMoves, NoIdentityType
        <3> QED
            BY <1>3, <3>1, MovesAddUp
    <2>3. CASE ~omitted
        BY <1>3, <2>3
    <2> QED
        BY <2>2, <2>3
<1>5. ASSUME listed # {}, NEW id \in [run : Nat, cs : Nat]
      PROVE  /\ revokeLocked(kept, item.lease, id, s, n) \in UserGates
             /\ Moves(g, revokeLocked(kept, item.lease, id, s, n), n, {s})
    <2> HIDE DEF item, s, listed, kept
    <2>1. item.lease \in Leases
        BY <1>2, <1>5
    <2>2. revokeLocked(kept, item.lease, id, s, n) \in UserGates
        BY <1>1, <1>4, <1>5, <2>1, RevokeType
    <2>3. Moves(kept, revokeLocked(kept, item.lease, id, s, n), n, {})
        BY <1>1, <1>4, <2>1, RevokeMoves
    <2> QED
        BY <1>4, <2>2, <2>3, MovesAddUp
<1>6. Accepted(u, g, a, n) =
        IF listed = {} \/ item.user \notin a.idle \/ Busy(u) THEN kept
        ELSE IF kept.src = None
            THEN revokeLocked(kept, item.lease, [run |-> run, cs |-> item.cs], s, n)
        ELSE IF /\ kept.src.lease = item.lease /\ kept.src.permits = {}
                /\ kept.src.confirmedSequence <= s /\ kept.src.omissionSequence <= s
            THEN revokeLocked(kept, item.lease, NoIdentity, s, n)
        ELSE kept
    BY DEF Accepted
<1>7. listed # {} => [run |-> run, cs |-> item.cs] \in [run : Nat, cs : Nat]
    BY <1>2
<1> HIDE DEF item, s, listed, kept
<1>8. Moves(g, Accepted(u, g, a, n), n, {s})
    BY <1>4, <1>5, <1>6, <1>7, NoIdentityType
<1> QED
    BY <1>8 DEF s

\* The requests that can still be answered.
LEMMA OpenType ==
    ASSUME GateTypeOK
    PROVE  /\ Open \in SUBSET Requests
           /\ \A r \in Open : r.seq \in Nat /\ r.started \in Nat
<1>1. \A u \in Users : Busy(u) => flight[u].req \in Requests \cup {None}
    BY DEF GateTypeOK, Busy, Flights
<1>2. call # None => call.req \in Requests
    BY CallType
<1>3. Open \in SUBSET Requests
    BY <1>1, <1>2 DEF Open
<1> QED
    BY <1>3 DEF Requests

\* One user's part of FenceInv: h is the user's part of the gate, q the last
\* number, O the open requests and F the history.
Kept(h, q, O, F) ==
    /\ \A l \in Leases : h.revoked[l] # None =>
          /\ h.revoked[l].barrier <= q
          /\ \A r \in O : r.seq <= h.revoked[l].barrier => r.started + Grace < h.revoked[l].until
    /\ \A l \in Leases :
          /\ F[l] <= q
          /\ \A r \in O : r.seq <= F[l] => Refuses(h, l, r.seq)
    /\ Live(h.src) => h.src.confirmedSequence > F[h.src.lease]

\* It holds after a critical section without a new request.
LEMMA MovesKeep ==
    ASSUME GateTypeOK, FenceInv, NEW u \in Users, NEW h \in UserGates, NEW q \in {seq, seq + 1},
           NEW O \in SUBSET Open, NEW F,
           Moves(gate[u], h, seq + 1, {r.seq : r \in Open}),
           q = seq => F = fence[u],
           \A l \in Leases :
              F[l] = IF h.revoked[l] # None /\ h.revoked[l].barrier = seq + 1
                     THEN seq + 1 ELSE fence[u][l]
    PROVE  Kept(h, q, O, F)
<1> DEFINE g == gate[u]
<1>0. seq \in Nat /\ now \in Nat /\ g \in UserGates /\ g.barrier \in Nat /\ h.barrier \in Nat
    BY DEF GateTypeOK, UserGates
<1>1. ASSUME NEW l \in Leases
      PROVE  /\ g.revoked[l] # None => /\ g.revoked[l] \in Marks /\ g.revoked[l].barrier <= seq
                                       /\ g.revoked[l].barrier \in Nat /\ g.revoked[l].until \in Nat
             /\ h.revoked[l] # None => /\ h.revoked[l] \in Marks
                                       /\ h.revoked[l].barrier \in Nat /\ h.revoked[l].until \in Nat
             /\ fence[u][l] \in Nat /\ fence[u][l] <= seq
    <2>1. g.revoked[l] \in Marks \cup {None} /\ h.revoked[l] \in Marks \cup {None}
        BY <1>0 DEF UserGates
    <2>2. g.revoked[l] # None => g.revoked[l].barrier <= seq
        BY DEF FenceInv, MarksLast
    <2>3. fence[u][l] \in Nat /\ fence[u][l] <= seq
        BY DEF FenceInv, OldAnswersRefused, GateTypeOK
    <2> QED
        BY <2>1, <2>2, <2>3 DEF Marks
<1>2. ASSUME NEW r \in Open
      PROVE  /\ r.seq \in Nat /\ r.started \in Nat
             /\ r.seq <= seq /\ r.started <= now /\ now <= r.started + Patience
    BY OpenType DEF FenceInv, OpenInTime
<1>3. ASSUME NEW l \in Leases
      PROVE  SameMark(g, h, l) \/ OldMark(g, h, l) \/ NewMark(h.revoked[l], seq + 1)
    BY DEF Moves
<1>4. h.barrier = g.barrier
    BY DEF Moves
<1> HIDE DEF g
<1>5. ASSUME NEW l \in Leases
      PROVE  /\ ~NewMark(h.revoked[l], seq + 1) => F[l] = fence[u][l]
             /\ NewMark(h.revoked[l], seq + 1) => F[l] = seq + 1 /\ q = seq + 1
    <2>1. CASE NewMark(h.revoked[l], seq + 1)
        <3>1. F[l] = seq + 1
            BY <2>1 DEF NewMark
        <3>2. q # seq
            BY <1>0, <1>1, <3>1
        <3> QED
            BY <2>1, <3>1, <3>2
    <2>2. CASE ~NewMark(h.revoked[l], seq + 1)
        <3>1. h.revoked[l] # None => h.revoked[l] = g.revoked[l]
            BY <1>3, <2>2 DEF SameMark, OldMark
        <3>2. ~(h.revoked[l] # None /\ h.revoked[l].barrier = seq + 1)
            BY <1>0, <1>1, <3>1
        <3> QED
            BY <2>2, <3>2
    <2> QED
        BY <2>1, <2>2
<1>6. ASSUME NEW l \in Leases, h.revoked[l] # None
      PROVE  /\ h.revoked[l].barrier <= q
             /\ \A r \in O : r.seq <= h.revoked[l].barrier => r.started + Grace < h.revoked[l].until
    <2>1. CASE NewMark(h.revoked[l], seq + 1)
        BY <1>0, <1>2, <1>5, <2>1, Numbers DEF NewMark
    <2>2. CASE ~NewMark(h.revoked[l], seq + 1)
        <3>1. h.revoked[l] = g.revoked[l]
            BY <1>3, <1>6, <2>2 DEF SameMark, OldMark
        <3>2. \A r \in Open : r.seq <= g.revoked[l].barrier => r.started + Grace < g.revoked[l].until
            BY <1>6, <3>1 DEF FenceInv, MarksLast, g
        <3> QED
            BY <1>0, <1>1, <1>6, <3>1, <3>2
    <2> QED
        BY <2>1, <2>2
<1>7. ASSUME NEW l \in Leases
      PROVE  F[l] <= q
    BY <1>0, <1>1, <1>5
<1>8. ASSUME NEW l \in Leases, NEW r \in O, r.seq <= F[l]
      PROVE  Refuses(h, l, r.seq)
    <2>1. CASE NewMark(h.revoked[l], seq + 1)
        BY <1>0, <1>2, <2>1 DEF NewMark, Refuses
    <2>2. CASE ~NewMark(h.revoked[l], seq + 1)
        <3>1. Refuses(g, l, r.seq)
            BY <1>5, <1>8, <2>2 DEF FenceInv, OldAnswersRefused, g
        <3>2. CASE r.seq <= g.barrier
            BY <1>4, <3>2 DEF Refuses
        <3>3. CASE g.revoked[l] # None /\ r.seq <= g.revoked[l].barrier
            <4>1. r.started + Grace < g.revoked[l].until
                BY <3>3 DEF FenceInv, MarksLast, g
            <4>2. ~OldMark(g, h, l)
                BY <1>0, <1>1, <1>2, <3>3, <4>1, Numbers DEF OldMark
            <4>3. h.revoked[l] = g.revoked[l]
                BY <1>3, <2>2, <4>2 DEF SameMark
            <4> QED
                BY <3>3, <4>3 DEF Refuses
        <3> QED
            BY <3>1, <3>2, <3>3 DEF Refuses
    <2> QED
        BY <2>1, <2>2
<1>9. ASSUME Live(h.src)
      PROVE  h.src.confirmedSequence > F[h.src.lease]
    <2>1. h.src.lease \in Leases /\ h.src.confirmedSequence \in Nat
        BY <1>9 DEF Live, UserGates, Sources
    <2>2. /\ Stays(g, h) \/ Comes(g, h, {r.seq : r \in Open})
          /\ SameMark(g, h, h.src.lease) \/ OldMark(g, h, h.src.lease)
        BY <1>9 DEF Moves, g
    <2>3. ~NewMark(h.revoked[h.src.lease], seq + 1)
        BY <1>0, <1>1, <2>1, <2>2 DEF NewMark, SameMark, OldMark
    <2>4. F[h.src.lease] = fence[u][h.src.lease]
        BY <1>5, <2>1, <2>3
    <2>5. CASE Stays(g, h)
        BY <2>4, <2>5 DEF Stays, FenceInv, NoResurrection, Source, g
    <2>6. CASE Comes(g, h, {r.seq : r \in Open})
        <3>1. PICK r \in Open : h.src.confirmedSequence = r.seq
            BY <2>6 DEF Comes
        <3>2. ~(r.seq <= fence[u][h.src.lease])
            BY <2>1, <2>6, <3>1 DEF Comes, FenceInv, OldAnswersRefused, g
        <3> QED
            BY <1>1, <1>2, <2>1, <2>4, <3>1, <3>2
    <2> QED
        BY <2>2, <2>5, <2>6
<1> QED
    BY <1>6, <1>7, <1>8, <1>9 DEF Kept

\* The time limit of the calls, after a critical section without a new request.
LEMMA OpenInTimeKept ==
    ASSUME GateTypeOK, OpenInTime, now' = now, seq' \in {seq, seq + 1}, Open' \subseteq Open
    PROVE  OpenInTime'
<1>1. ASSUME NEW r \in Open
      PROVE  r.seq <= seq + 1 /\ r.seq <= seq /\ r.started <= now /\ now <= r.started + Patience
    <2>1. seq \in Nat /\ r.seq \in Nat
        BY OpenType DEF GateTypeOK
    <2> QED
        BY <2>1 DEF OpenInTime
<1> QED
    BY <1>1 DEF OpenInTime

\* The invariant follows from what every account keeps.
LEMMA FenceFromUsers ==
    ASSUME OpenInTime', \A u \in Users : Kept(gate'[u], seq', Open', fence'[u])
    PROVE  FenceInv'
<1>1. MarksLast'
    BY DEF MarksLast, Kept
<1>2. OldAnswersRefused'
    BY DEF OldAnswersRefused, Kept, Refuses
<1>3. NoResurrection'
    BY DEF NoResurrection, Kept, Source, Live
<1> QED
    BY <1>1, <1>2, <1>3 DEF FenceInv

\* The whole invariant, after a critical section without a new request.
LEMMA FenceByMoves ==
    ASSUME GateTypeOK, GateTypeOK', FenceInv, now' = now, seq' \in {seq, seq + 1},
           Open' \subseteq Open, seq' = seq => fence' = fence, fence' = Fenced(gate'),
           \A u \in Users : Moves(gate[u], gate'[u], seq + 1, {r.seq : r \in Open})
    PROVE  FenceInv'
<1>1. ASSUME NEW u \in Users PROVE Kept(gate'[u], seq', Open', fence'[u])
    <2> DEFINE h == gate'[u]
               F == fence'[u]
    <2>1. h \in UserGates /\ seq' \in {seq, seq + 1} /\ Open' \in SUBSET Open
        BY DEF GateTypeOK
    <2>2. seq' = seq => F = fence[u]
        OBVIOUS
    <2>3. \A l \in Leases :
              F[l] = IF h.revoked[l] # None /\ h.revoked[l].barrier = seq + 1
                     THEN seq + 1 ELSE fence[u][l]
        BY DEF Fenced
    <2>4. Moves(gate[u], h, seq + 1, {r.seq : r \in Open})
        OBVIOUS
    <2> HIDE DEF h, F
    <2>5. Kept(h, seq', Open', F)
        BY <2>1, <2>2, <2>3, <2>4, MovesKeep
    <2> QED
        BY <2>5 DEF h, F
<1>2. OpenInTime'
    BY OpenInTimeKept DEF FenceInv
<1> QED
    BY <1>1, <1>2, FenceFromUsers

\* A section that revokes no lease leaves the history alone.
LEMMA NothingFenced ==
    ASSUME GateTypeOK, FenceInv, NEW g \in [Users -> UserGates],
           \A u \in Users, l \in Leases : SameMark(gate[u], g[u], l) \/ OldMark(gate[u], g[u], l)
    PROVE  Fenced(g) = fence
<1>1. ASSUME NEW u \in Users, NEW l \in Leases
      PROVE  ~(g[u].revoked[l] # None /\ g[u].revoked[l].barrier = seq + 1)
    <2>1. g[u].revoked[l] # None => g[u].revoked[l] = gate[u].revoked[l]
        BY DEF SameMark, OldMark
    <2>2. gate[u].revoked[l] \in Marks \cup {None} /\ seq \in Nat
        BY DEF GateTypeOK, UserGates
    <2>3. gate[u].revoked[l] # None => gate[u].revoked[l].barrier <= seq
        BY DEF FenceInv, MarksLast
    <2> QED
        BY <2>1, <2>2, <2>3 DEF Marks
<1>2. Fenced(g) = [u \in Users |-> [l \in Leases |-> fence[u][l]]]
    BY <1>1 DEF Fenced
<1>3. fence \in [Users -> [Leases -> Nat]]
    BY DEF GateTypeOK
<1> QED
    BY <1>2, <1>3

\* A section that only closes sources, or changes what neither the records nor
\* the confirmations depend on.
LEMMA FenceIfOnlyClosed ==
    ASSUME GateTypeOK, GateTypeOK', FenceInv, now' = now, seq' \in {seq, seq + 1},
           Open' \subseteq Open, fence' = fence,
           \A u \in Users : /\ gate'[u].barrier = gate[u].barrier
                            /\ gate'[u].revoked = gate[u].revoked
                            /\ Live(gate'[u].src) => Stays(gate[u], gate'[u])
    PROVE  FenceInv'
<1>1. \A u \in Users : Moves(gate[u], gate'[u], seq + 1, {r.seq : r \in Open})
    BY MovesIfOnlyClosed
<1>2. fence' = Fenced(gate')
    <2>1. gate' \in [Users -> UserGates]
        BY DEF GateTypeOK
    <2>2. \A u \in Users, l \in Leases : SameMark(gate[u], gate'[u], l)
        BY DEF SameMark
    <2> QED
        BY <2>1, <2>2, NothingFenced
<1> QED
    BY <1>1, <1>2, FenceByMoves

\* No call begins when the admissions and the synchronisation keep their
\* requests or end.
LEMMA OpenShrinks ==
    ASSUME \A u \in Users : flight'[u] # None =>
              \/ flight'[u].req = None
              \/ flight[u] # None /\ flight'[u].req = flight[u].req,
           call' # None => call # None /\ call'.req = call.req
    PROVE  Open' \subseteq Open
<1>1. ASSUME NEW r, r \in Open' PROVE r \in Open
    <2>1. r # None
        BY <1>1 DEF Open
    <2>2. \/ \E u \in Users : flight'[u] # None /\ r = flight'[u].req
          \/ call' # None /\ r = call'.req
        BY <1>1 DEF Open, Busy
    <2>3. \/ \E u \in Users : flight[u] # None /\ r = flight[u].req
          \/ call # None /\ r = call.req
        BY <2>1, <2>2
    <2> QED
        BY <2>1, <2>3 DEF Open, Busy
<1> QED
    BY <1>1

\* Ended admissions.
LEMMA OpenWithoutOne ==
    ASSUME NEW u \in Users, flight \in [Users -> Flights \cup {None}],
           flight' = [flight EXCEPT ![u] = None], call' # None => call # None /\ call'.req = call.req
    PROVE  Open' \subseteq Open
<1>1. \A v \in Users : flight'[v] # None => flight[v] # None /\ flight'[v].req = flight[v].req
    OBVIOUS
<1> QED
    BY <1>1, OpenShrinks

\* An admission that goes on with the same request.
LEMMA OpenWithOne ==
    ASSUME NEW u \in Users, flight \in [Users -> Flights \cup {None}], NEW f,
           flight' = [flight EXCEPT ![u] = f], flight[u] # None,
           f.req = None \/ f.req = flight[u].req,
           call' # None => call # None /\ call'.req = call.req
    PROVE  Open' \subseteq Open
<1>1. \A v \in Users : flight'[v] # None =>
              \/ flight'[v].req = None
              \/ flight[v] # None /\ flight'[v].req = flight[v].req
    OBVIOUS
<1> QED
    BY <1>1, OpenShrinks

\* The gate stops (Stop): what was revoked stays below the fence.
LEMMA StopFence == GateTypeOK /\ GateTypeOK' /\ FenceInv /\ Stop => FenceInv'
<1> SUFFICES ASSUME GateTypeOK, GateTypeOK', FenceInv, Stop PROVE FenceInv'
    OBVIOUS
<1>1. Open' \subseteq Open
    BY OpenShrinks DEF Stop
<1>2. ASSUME NEW u \in Users
      PROVE  /\ gate'[u].barrier = gate[u].barrier /\ gate'[u].revoked = gate[u].revoked
             /\ ~Live(gate'[u].src)
    <2>1. gate[u] \in UserGates /\ gate'[u] = Closed(gate[u], seq + 1)
        BY DEF GateTypeOK, Stop
    <2> QED
        BY <2>1, RemoveLeaves, RevokedSource DEF Closed, Live
<1> QED
    BY <1>1, <1>2, FenceIfOnlyClosed DEF Stop, Numbered

\* A connection closes (Release): what was revoked stays below the fence.
LEMMA ReleaseFence ==
    ASSUME GateTypeOK, GateTypeOK', FenceInv, NEW c \in Conns, NEW u \in Users, Release(c, u)
    PROVE  FenceInv'
<1> DEFINE g == [gate[u] EXCEPT !.src.permits = @ \ {c}]
<1>1. Open' \subseteq Open
    BY OpenShrinks DEF Release
<1>2. gate[u] \in UserGates /\ gate[u].src \in Sources /\ Source(u) # None
    BY DEF Release, GateTypeOK, UserGates, Source
<1>3. g = [gate[u] EXCEPT !.src = [gate[u].src EXCEPT !.permits = gate[u].src.permits \ {c}]]
    BY <1>2 DEF UserGates, Sources
<1>4. /\ g \in UserGates /\ g.barrier = gate[u].barrier /\ g.revoked = gate[u].revoked
      /\ Live(g.src) => Stays(gate[u], g)
    BY <1>2, <1>3 DEF UserGates, Sources, Live, Stays, Source
<1>5. \/ gate' = [gate EXCEPT ![u] = removeSourceLocked(g, seq + 1)] /\ seq' = seq + 1
      \/ gate' = [gate EXCEPT ![u] = g] /\ seq' = seq
    BY DEF Release, Numbered
<1> HIDE DEF g
<1>6. ASSUME NEW v \in Users
      PROVE  /\ gate'[v].barrier = gate[v].barrier /\ gate'[v].revoked = gate[v].revoked
             /\ Live(gate'[v].src) => Stays(gate[v], gate'[v])
    <2>1. gate'[v] \in (IF v = u THEN {g, removeSourceLocked(g, seq + 1)} ELSE {gate[v]})
        BY <1>5 DEF GateTypeOK
    <2> QED
        BY <1>4, <2>1, RemoveLeaves DEF Live, Stays
<1> QED
    BY <1>1, <1>5, <1>6, FenceIfOnlyClosed DEF Release

\* A lease expires on the node (expireLocked): what was revoked stays below the fence.
LEMMA ExpireFence ==
    ASSUME GateTypeOK, GateTypeOK', FenceInv, NEW u \in Users, expireSource(u)
    PROVE  FenceInv'
<1>1. Open' \subseteq Open
    BY OpenShrinks DEF expireSource
<1>2. gate[u] \in UserGates
    BY DEF GateTypeOK
<1>3. ASSUME NEW v \in Users
      PROVE  /\ gate'[v].barrier = gate[v].barrier /\ gate'[v].revoked = gate[v].revoked
             /\ Live(gate'[v].src) => Stays(gate[v], gate'[v])
    <2>1. gate'[v] = IF v = u THEN removeSourceLocked(gate[u], seq + 1) ELSE gate[v]
        BY DEF expireSource, GateTypeOK
    <2> QED
        BY <1>2, <2>1, RemoveLeaves DEF Live, Stays
<1> QED
    BY <1>1, <1>3, FenceIfOnlyClosed DEF expireSource, Numbered

\* A permit changes neither the lease nor its confirmation.
LEMMA PermitsStay ==
    ASSUME GateTypeOK, NEW u \in Users, Source(u) # None, NEW cs \in SUBSET Conns,
           gate' = AddPermits(u, cs)
    PROVE  \A v \in Users : /\ gate'[v].barrier = gate[v].barrier
                            /\ gate'[v].revoked = gate[v].revoked
                            /\ Live(gate'[v].src) => Stays(gate[v], gate'[v])
<1>1. gate[u] \in UserGates /\ gate[u].src \in Sources
    BY DEF GateTypeOK, UserGates, Source
<1>2. gate' = [gate EXCEPT ![u] = [gate[u] EXCEPT !.src =
            [gate[u].src EXCEPT !.permits = gate[u].src.permits \cup cs]]]
    BY <1>1 DEF AddPermits, GateTypeOK, UserGates, Sources
<1> DEFINE g == [gate[u] EXCEPT !.src =
                    [gate[u].src EXCEPT !.permits = gate[u].src.permits \cup cs]]
<1>3. /\ g.barrier = gate[u].barrier /\ g.revoked = gate[u].revoked
      /\ Live(g.src) => Stays(gate[u], g)
    BY <1>1 DEF UserGates, Sources, Live, Stays, Source
<1>4. \A v \in Users : gate'[v] = IF v = u THEN g ELSE gate[v]
    BY <1>2 DEF GateTypeOK
<1> HIDE DEF g
<1> QED
    BY <1>3, <1>4 DEF Live, Stays

\* An account nobody touched keeps its source and revocations.
LEMMA UnchangedStay ==
    ASSUME gate' = gate
    PROVE  \A v \in Users : /\ gate'[v].barrier = gate[v].barrier
                            /\ gate'[v].revoked = gate[v].revoked
                            /\ Live(gate'[v].src) => Stays(gate[v], gate'[v])
BY DEF Stays

\* An admission that begins has no request yet.
LEMMA AcquireOpen ==
    ASSUME GateTypeOK, NEW c \in Conns, NEW u \in Users, Acquire(c, u)
    PROVE  Open' \subseteq Open
<1>1. CASE flight' = flight
    BY <1>1, OpenShrinks DEF Acquire
<1>2. CASE Busy(u) /\ flight' = [flight EXCEPT ![u] =
              [flight[u] EXCEPT !.waiters = flight[u].waiters \cup {c}]]
    <2>1. flight[u] \in Flights
        BY <1>2, FlightType
    <2>2. [flight[u] EXCEPT !.waiters = flight[u].waiters \cup {c}].req = flight[u].req
        BY <2>1 DEF Flights
    <2> QED
        BY <1>2, <2>2, OpenWithOne DEF Acquire, GateTypeOK, Busy
<1>3. CASE ~Busy(u) /\ flight' = [flight EXCEPT ![u] = NewFlight(c)]
    <2>1. NewFlight(c).req = None
        BY DEF NewFlight
    <2>2. \A v \in Users : flight'[v] # None =>
              \/ flight'[v].req = None
              \/ flight[v] # None /\ flight'[v].req = flight[v].req
        BY <1>3, <2>1 DEF GateTypeOK
    <2> QED
        BY <2>2, OpenShrinks DEF Acquire
<1> QED
    BY <1>1, <1>2, <1>3 DEF Acquire

\* A connection asks for a permit (Acquire): what was revoked stays below the fence.
LEMMA AcquireFence ==
    ASSUME GateTypeOK, GateTypeOK', FenceInv, NEW c \in Conns, NEW u \in Users, Acquire(c, u)
    PROVE  FenceInv'
<1>1. Open' \subseteq Open
    BY AcquireOpen
<1>2. Usable(Source(u)) => Source(u) # None
    BY DEF Usable, Live
<1>3. \A v \in Users : /\ gate'[v].barrier = gate[v].barrier
                       /\ gate'[v].revoked = gate[v].revoked
                       /\ Live(gate'[v].src) => Stays(gate[v], gate'[v])
    BY <1>2, PermitsStay, UnchangedStay DEF Acquire
<1> QED
    BY <1>1, <1>3, FenceIfOnlyClosed DEF Acquire

\* Who gives up leaves the request of the admission.
LEMMA CancelWaitOpen ==
    ASSUME GateTypeOK, NEW c \in Conns, NEW u \in Users, CancelWait(c, u)
    PROVE  Open' \subseteq Open
<1>1. flight[u] \in Flights /\ Busy(u)
    BY FlightType DEF CancelWait
<1>2. \A v \in Users : flight'[v] # None => flight[v] # None /\ flight'[v].req = flight[v].req
    BY <1>1 DEF CancelWait, GateTypeOK, Busy, Flights
<1> QED
    BY <1>2, OpenShrinks DEF CancelWait

\* A waiting connection gives up (Acquire, cancelled): what was revoked stays below the fence.
LEMMA CancelWaitFence ==
    ASSUME GateTypeOK, GateTypeOK', FenceInv, NEW c \in Conns, NEW u \in Users, CancelWait(c, u)
    PROVE  FenceInv'
<1>1. Open' \subseteq Open
    BY CancelWaitOpen
<1> QED
    BY <1>1, UnchangedStay, FenceIfOnlyClosed DEF CancelWait

\* A new request carries a number larger than every barrier.
LEMMA SendFence ==
    ASSUME GateTypeOK, FenceInv, NEW req, req.seq = seq + 1, req.started = now,
           Open' \subseteq Open \cup {req}, now' = now, seq' = seq + 1,
           gate' = gate, fence' = fence
    PROVE  FenceInv'
<1>0. seq \in Nat /\ now \in Nat
    BY DEF GateTypeOK
<1>1. ASSUME NEW r \in Open'
      PROVE  r.seq <= seq' /\ r.started <= now' /\ now' <= r.started + Patience
    BY <1>0, OpenType, Numbers DEF FenceInv, OpenInTime
<1>2. ASSUME NEW u \in Users, NEW l \in Leases
      PROVE  /\ gate[u].revoked[l] # None =>
                  /\ gate[u].revoked[l].barrier \in Nat
                  /\ gate[u].revoked[l].barrier <= seq
                  /\ \A r \in Open : r.seq <= gate[u].revoked[l].barrier =>
                                         r.started + Grace < gate[u].revoked[l].until
             /\ fence[u][l] \in Nat /\ fence[u][l] <= seq
             /\ \A r \in Open : r.seq <= fence[u][l] => Refuses(gate[u], l, r.seq)
    <2>1. gate[u].revoked[l] \in Marks \cup {None} /\ fence[u][l] \in Nat
        BY DEF GateTypeOK, UserGates
    <2> QED
        BY <2>1 DEF Marks, FenceInv, MarksLast, OldAnswersRefused
<1>3. ASSUME NEW u \in Users PROVE Kept(gate[u], seq + 1, Open', fence[u])
    <2>1. ASSUME NEW l \in Leases, gate[u].revoked[l] # None
          PROVE  /\ gate[u].revoked[l].barrier <= seq + 1
                 /\ \A r \in Open' : r.seq <= gate[u].revoked[l].barrier =>
                                         r.started + Grace < gate[u].revoked[l].until
        <3>1. ~(req.seq <= gate[u].revoked[l].barrier)
            BY <1>0, <1>2, <2>1
        <3> QED
            BY <1>0, <1>2, <2>1, <3>1
    <2>2. ASSUME NEW l \in Leases
          PROVE  /\ fence[u][l] <= seq + 1
                 /\ \A r \in Open' : r.seq <= fence[u][l] => Refuses(gate[u], l, r.seq)
        <3>1. ~(req.seq <= fence[u][l])
            BY <1>0, <1>2
        <3> QED
            BY <1>0, <1>2, <3>1
    <2>3. Live(gate[u].src) => gate[u].src.confirmedSequence > fence[u][gate[u].src.lease]
        BY DEF FenceInv, NoResurrection, Source
    <2> QED
        BY <2>1, <2>2, <2>3 DEF Kept
<1>4. OpenInTime'
    BY <1>1 DEF OpenInTime
<1> QED
    BY <1>3, <1>4, FenceFromUsers

\* An admission that is sent adds its request.
LEMMA AdmitSendOpen ==
    ASSUME GateTypeOK, NEW u \in Users, AdmitSend(u)
    PROVE  Open' \subseteq Open \cup {Snapshot("admit", u)}
<1> DEFINE req == Snapshot("admit", u)
<1>1. flight[u] \in Flights
    BY FlightType DEF AdmitSend
<1>3. flight' = [flight EXCEPT ![u].stage = "sent", ![u].req = req] /\ call' = call
    BY DEF AdmitSend
<1> HIDE DEF req
<1>4. \A v \in Users : flight'[v] # None =>
          flight'[v].req = req \/ (flight[v] # None /\ flight'[v].req = flight[v].req)
    BY <1>1, <1>3 DEF GateTypeOK, Flights
<1>5. ASSUME NEW r, r \in Open' PROVE r \in Open \cup {req}
    <2>1. r # None /\ (\/ \E v \in Users : flight'[v] # None /\ r = flight'[v].req
                       \/ call' # None /\ r = call'.req)
        BY <1>5 DEF Open, Busy
    <2> QED
        BY <1>3, <1>4, <2>1 DEF Open, Busy
<1> QED
    BY <1>5 DEF req

\* An admission is sent (cachedAttempt): what was revoked stays below the fence.
LEMMA AdmitSendFence ==
    ASSUME GateTypeOK, GateTypeOK', FenceInv, NEW u \in Users, AdmitSend(u)
    PROVE  FenceInv'
<1> DEFINE req == Snapshot("admit", u)
<1>1. req.seq = seq + 1 /\ req.started = now
    BY DEF Snapshot
<1>2. Open' \subseteq Open \cup {req}
    BY AdmitSendOpen
<1> HIDE DEF req
<1> QED
    BY <1>1, <1>2, SendFence DEF AdmitSend, Numbered

\* So does a synchronisation.
LEMMA SyncSendOpen ==
    ASSUME GateTypeOK, SyncSend
    PROVE  Open' \subseteq Open \cup {Snapshot("sync", None)}
<1> DEFINE req == Snapshot("sync", None)
<1>2. call' = [stage |-> "sent", req |-> req, answer |-> None, final |-> closing] /\ flight' = flight
    BY DEF SyncSend
<1> HIDE DEF req
<1>3. ASSUME NEW r, r \in Open' PROVE r \in Open \cup {req}
    <2>1. r # None /\ (\/ \E v \in Users : flight'[v] # None /\ r = flight'[v].req
                       \/ call' # None /\ r = call'.req)
        BY <1>3 DEF Open, Busy
    <2> QED
        BY <1>2, <2>1 DEF Open, Busy
<1> QED
    BY <1>3 DEF req

\* A synchronisation is sent (Sync): what was revoked stays below the fence.
LEMMA SyncSendFence ==
    ASSUME GateTypeOK, GateTypeOK', FenceInv, SyncSend
    PROVE  FenceInv'
<1> DEFINE req == Snapshot("sync", None)
<1>1. req.seq = seq + 1 /\ req.started = now
    BY DEF Snapshot
<1>2. Open' \subseteq Open \cup {req}
    BY SyncSendOpen
<1> HIDE DEF req
<1> QED
    BY <1>1, <1>2, SendFence DEF SyncSend, Numbered

\* An admission fails on the way (requestCached): what was revoked stays below the fence.
LEMMA AdmitErrorFence ==
    ASSUME GateTypeOK, GateTypeOK', FenceInv, NEW u \in Users, AdmitError(u)
    PROVE  FenceInv'
<1>1. Open' \subseteq Open
    BY OpenWithoutOne DEF AdmitError, AdmitFails, GateTypeOK
<1> QED
    BY <1>1, UnchangedStay, FenceIfOnlyClosed DEF AdmitError

\* A synchronisation fails on the way (Sync): what was revoked stays below the fence.
LEMMA SyncErrorFence ==
    ASSUME GateTypeOK, GateTypeOK', FenceInv, SyncError
    PROVE  FenceInv'
<1>1. Open' \subseteq Open
    BY OpenShrinks DEF SyncError
<1> QED
    BY <1>1, UnchangedStay, FenceIfOnlyClosed DEF SyncError

\* A granted admission serves who waits (admit): what was revoked stays below the fence.
LEMMA AdmitGrantFence ==
    ASSUME GateTypeOK, GateTypeOK', FenceInv, NEW u \in Users, admit(u)
    PROVE  FenceInv'
<1>1. Open' \subseteq Open
    BY OpenWithoutOne DEF admit, GateTypeOK
<1>2. flight[u].waiters \in SUBSET Conns
    BY FlightType DEF admit
<1>3. Usable(Source(u)) => Source(u) # None
    BY DEF Usable, Live
<1>4. \A v \in Users : /\ gate'[v].barrier = gate[v].barrier
                       /\ gate'[v].revoked = gate[v].revoked
                       /\ Live(gate'[v].src) => Stays(gate[v], gate'[v])
    BY <1>2, <1>3, PermitsStay, UnchangedStay DEF admit
<1> QED
    BY <1>1, <1>4, FenceIfOnlyClosed DEF admit

\* A session the panel has lost: every source is closed.
LEMMA LoseStays ==
    ASSUME GateTypeOK, NEW r, loseSession(r)
    PROVE  /\ seq' \in {seq, seq + 1}
           /\ \A v \in Users : /\ gate'[v].barrier = gate[v].barrier
                               /\ gate'[v].revoked = gate[v].revoked
                               /\ Live(gate'[v].src) => Stays(gate[v], gate'[v])
<1>a. CASE run = r
    <2>1. seq' = seq + 1 /\ gate' = [u \in Users |-> Closed(gate[u], seq + 1)]
        BY <1>a DEF loseSession, Numbered
    <2>2. ASSUME NEW v \in Users
          PROVE  /\ gate'[v].barrier = gate[v].barrier
                 /\ gate'[v].revoked = gate[v].revoked
                 /\ ~Live(gate'[v].src)
        <3>1. gate[v] \in UserGates /\ gate'[v] = Closed(gate[v], seq + 1)
            BY <2>1 DEF GateTypeOK
        <3> QED
            BY <3>1, RemoveLeaves, RevokedSource DEF Closed, Live
    <2> QED
        BY <2>1, <2>2
<1>b. CASE run # r
    <2>1. gate' = gate /\ seq' = seq
        BY <1>b DEF loseSession
    <2> QED
        BY <2>1, UnchangedStay
<1> QED
    BY <1>a, <1>b

\* Requests numbered before the fence stay so.
LEMMA NumberedIfKeeps ==
    ASSUME NEW F, NumberedIf(F # fence)
    PROVE  seq' \in {seq, seq + 1} /\ (seq' = seq => F = fence \/ seq = seq + 1)
BY DEF NumberedIf, Numbered

\* An answered admission keeps its request or ends.
LEMMA AdmitAnswerOpen ==
    ASSUME GateTypeOK, NEW u \in Users, NEW a \in answers, AdmitAnswer(u, a)
    PROVE  Open' \subseteq Open
<1>0. flight[u] \in Flights /\ flight[u] # None /\ flight[u].req = a.req
    BY FlightType DEF AdmitAnswer, Busy
<1>1. \/ flight' = [flight EXCEPT ![u] = None]
      \/ flight' = [flight EXCEPT ![u] = [flight[u] EXCEPT !.stage = "ready", !.req = None]]
      \/ flight' = [flight EXCEPT ![u] = [flight[u] EXCEPT !.stage = "verify", !.item =
                [lease |-> a.item.lease, cs |-> a.item.cs, confirmedAt |-> a.item.confirmedAt,
                 deadline |-> Deadline(a.item, a.time, a.req.started)]]]
    BY DEF AdmitAnswer, AdmitFails
<1>2. call' = call
    BY DEF AdmitAnswer
<1>3. [flight[u] EXCEPT !.stage = "ready", !.req = None].req = None
    BY <1>0 DEF Flights
<1>4. \A i : [flight[u] EXCEPT !.stage = "verify", !.item = i].req = flight[u].req
    BY <1>0 DEF Flights
<1>5. flight \in [Users -> Flights \cup {None}]
    BY DEF GateTypeOK
<1> QED
    BY <1>0, <1>1, <1>2, <1>3, <1>4, <1>5, OpenWithoutOne, OpenWithOne

\* The panel's answer to an admission arrives (requestCached): what was revoked stays below the fence.
LEMMA AdmitAnswerFence ==
    ASSUME GateTypeOK, GateTypeOK', FenceInv, NEW u \in Users, NEW a \in answers, AdmitAnswer(u, a)
    PROVE  FenceInv'
<1> DEFINE g == IF run = a.req.run THEN Revoked(gate, a.revoked, a.req.seq, seq + 1) ELSE gate
<1>0. flight[u] \in Flights /\ flight[u] # None /\ flight[u].req = a.req
    BY FlightType DEF AdmitAnswer, Busy
<1>1. Open' \subseteq Open
    BY AdmitAnswerOpen
<1>a. CASE a.status = "lost"
    <2>1. loseSession(flight[u].run) /\ fence' = fence /\ now' = now
        BY <1>a DEF AdmitAnswer
    <2> QED
        BY <1>1, <2>1, LoseStays, FenceIfOnlyClosed
<1>b. CASE a.status # "lost"
    <2>0. seq \in Nat /\ seq + 1 \in Nat /\ run \in Nat /\ now \in Nat /\ gate \in [Users -> UserGates]
        BY DEF GateTypeOK
    <2>1. gate' = confirmSnapshot(g, a.req, u) /\ fence' = Fenced(g) /\ NumberedIf(Fenced(g) # fence)
          /\ now' = now
        BY <1>b DEF AdmitAnswer
    <2>2. g \in [Users -> UserGates] /\ \A v \in Users : Moves(gate[v], g[v], seq + 1, {})
        <3>1. CASE run = a.req.run
            BY <2>0, <3>1, AnswerParts, RevokedType, RevokedMoves
        <3>2. CASE run # a.req.run
            <4>1. \A v \in Users : Moves(gate[v], gate[v], seq + 1, {})
                BY DEF Moves, SameMark, Stays
            <4> QED
                BY <2>0, <3>2, <4>1
        <3> QED
            BY <3>1, <3>2
    <2> HIDE DEF g
    <2>3. \A v \in Users : /\ gate'[v].src = g[v].src /\ gate'[v].barrier = g[v].barrier
                           /\ gate'[v].revoked = g[v].revoked
        BY <2>1, <2>2, ConfirmLeaves
    <2>4. \A v \in Users : Moves(gate[v], gate'[v], seq + 1, {r.seq : r \in Open})
        BY <2>2, <2>3 DEF Moves, SameMark, OldMark, Stays, Comes
    <2>5. fence' = Fenced(gate')
        BY <2>1, <2>3 DEF Fenced
    <2>6. seq' \in {seq, seq + 1} /\ (seq' = seq => fence' = fence)
        BY <2>0, <2>1, NumberedIfKeeps
    <2> QED
        BY <1>1, <2>1, <2>4, <2>5, <2>6, FenceByMoves
<1> QED
    BY <1>a, <1>b

\* So does a synchronisation.
LEMMA SyncAnswerOpen ==
    ASSUME GateTypeOK, NEW a \in answers, SyncAnswer(a)
    PROVE  Open' \subseteq Open
<1>1. call \in Calls /\ call # None /\ flight' = flight
      /\ (call' = None \/ call' = [call EXCEPT !.stage = "accept", !.answer = a])
    BY CallType DEF SyncAnswer
<1>2. [call EXCEPT !.stage = "accept", !.answer = a].req = call.req
    BY <1>1 DEF Calls
<1> QED
    BY <1>1, <1>2, OpenShrinks

\* The answer to a synchronisation arrives (Sync): what was revoked stays below the fence.
LEMMA SyncAnswerFence ==
    ASSUME GateTypeOK, GateTypeOK', FenceInv, NEW a \in answers, SyncAnswer(a)
    PROVE  FenceInv'
<1> DEFINE g == Revoked(gate, a.revoked, a.req.seq, seq + 1)
<1>1. Open' \subseteq Open
    BY SyncAnswerOpen
<1>a. CASE a.status = "lost"
    <2>1. loseSession(a.req.run) /\ fence' = fence /\ now' = now
        BY <1>a DEF SyncAnswer
    <2> QED
        BY <1>1, <2>1, LoseStays, FenceIfOnlyClosed
<1>b. CASE a.status # "lost" /\ run = a.req.run
    <2>0. seq \in Nat /\ seq + 1 \in Nat /\ run \in Nat /\ now \in Nat /\ gate \in [Users -> UserGates]
        BY DEF GateTypeOK
    <2>1. gate' = g /\ fence' = Fenced(g) /\ NumberedIf(Fenced(g) # fence) /\ now' = now
        BY <1>b DEF SyncAnswer
    <2>2. \A v \in Users : Moves(gate[v], g[v], seq + 1, {})
        BY <2>0, AnswerParts, RevokedMoves
    <2> HIDE DEF g
    <2>3. \A v \in Users : Moves(gate[v], gate'[v], seq + 1, {r.seq : r \in Open})
        BY <2>1, <2>2 DEF Moves, Comes
    <2>4. seq' \in {seq, seq + 1} /\ (seq' = seq => fence' = fence)
        BY <2>0, <2>1, NumberedIfKeeps
    <2> QED
        BY <1>1, <2>1, <2>3, <2>4, FenceByMoves
<1>c. CASE a.status # "lost" /\ run # a.req.run
    <2>1. gate' = gate /\ fence' = fence /\ seq' = seq /\ now' = now
        BY <1>c DEF SyncAnswer
    <2> QED
        BY <1>1, <2>1, UnchangedStay, FenceIfOnlyClosed
<1> QED
    BY <1>a, <1>b, <1>c

\* Accepted leases are confirmed next, with the same request.
LEMMA AcceptOpen ==
    ASSUME GateTypeOK, acceptLeases
    PROVE  Open' \subseteq Open
<1>0. call # None /\ call \in Calls
    BY CallType DEF acceptLeases
<1>1. flight' = flight /\ (call' = None \/ call' = [call EXCEPT !.stage = "confirm"])
    BY DEF acceptLeases
<1>2. [call EXCEPT !.stage = "confirm"].req = call.req
    BY <1>0 DEF Calls
<1> QED
    BY <1>0, <1>1, <1>2, OpenShrinks

\* An account of the answer is accepted (acceptLeases): what was revoked stays below the fence.
LEMMA AcceptFence ==
    ASSUME GateTypeOK, GateTypeOK', FenceInv, acceptLeases
    PROVE  FenceInv'
<1> DEFINE a == call.answer
           g == [u \in Users |-> Accepted(u, gate[u], a, seq + 1)]
<1>0. seq \in Nat /\ seq + 1 \in Nat /\ run \in Nat /\ now \in Nat /\ gate \in [Users -> UserGates]
    BY DEF GateTypeOK
<1>1. call # None /\ call \in Calls /\ a \in Answers /\ a.req = call.req /\ call.req \in Requests
    BY CallType DEF acceptLeases
<1>2. call.req \in Open
    BY <1>1, NoneAssumption DEF Open
<1>3. Open' \subseteq Open
    BY AcceptOpen
<1>a. CASE run = a.req.run
    <2>1. gate' = g /\ fence' = Fenced(g) /\ NumberedIf(g # gate) /\ now' = now
        BY <1>a DEF acceptLeases
    <2>2. ASSUME NEW v \in Users PROVE Moves(gate[v], g[v], seq + 1, {a.req.seq})
        BY <1>0, <1>1, AcceptedMoves
    <2> HIDE DEF g
    <2>3. \A v \in Users : Moves(gate[v], gate'[v], seq + 1, {r.seq : r \in Open})
        BY <1>1, <1>2, <2>1, <2>2 DEF Moves, Comes
    <2>4. seq' \in {seq, seq + 1} /\ (seq' = seq => g = gate)
        BY <1>0, <2>1 DEF NumberedIf, Numbered
    <2>5. Fenced(gate) = fence
        <3>1. \A u \in Users, l \in Leases : SameMark(gate[u], gate[u], l)
            BY DEF SameMark
        <3> QED
            BY <1>0, <3>1, NothingFenced
    <2> QED
        BY <1>3, <2>1, <2>3, <2>4, <2>5, FenceByMoves
<1>b. CASE run # a.req.run
    <2>1. gate' = gate /\ fence' = fence /\ seq' = seq /\ now' = now
        BY <1>b DEF acceptLeases
    <2> QED
        BY <1>3, <2>1, UnchangedStay, FenceIfOnlyClosed
<1> QED
    BY <1>a, <1>b

\* The closed leases are confirmed (confirmSnapshot): what was revoked stays below the fence.
LEMMA SyncConfirmFence ==
    ASSUME GateTypeOK, GateTypeOK', FenceInv, SyncConfirm
    PROVE  FenceInv'
<1>1. Open' \subseteq Open
    BY OpenShrinks DEF SyncConfirm
<1>2. \A v \in Users : /\ gate'[v].barrier = gate[v].barrier
                       /\ gate'[v].revoked = gate[v].revoked
                       /\ Live(gate'[v].src) => Stays(gate[v], gate'[v])
    BY ConfirmLeaves DEF SyncConfirm, GateTypeOK, Stays
<1> QED
    BY <1>1, <1>2, FenceIfOnlyClosed DEF SyncConfirm

\* An installation leaves the records and the barrier alone.
LEMMA InstallLeaves ==
    ASSUME NEW g \in UserGates, NEW item, item.lease \in Leases, item.cs \in Nat,
           item.confirmedAt \in Nat, NEW deadline \in Int, NEW s \in Nat, NEW n \in Nat, run \in Nat
    PROVE  /\ installLeaseLocked(g, item, deadline, s, n).barrier = g.barrier
           /\ installLeaseLocked(g, item, deadline, s, n).revoked = g.revoked
<1> DEFINE h == installLeaseLocked(g, item, deadline, s, n)
<1>a. CASE Repeated(g, item)
    <2>1. g.src \in Sources /\ g.src.lease = item.lease
        BY <1>a DEF Repeated, UserGates
    <2>2. h = [g EXCEPT !.src.confirmedSequence = s,
                        !.src.leaseSequence = larger(@, item.cs),
                        !.src.omissionSequence = larger(@, s)]
        BY <1>a DEF installLeaseLocked
    <2> HIDE DEF h
    <2>3. h.barrier = g.barrier /\ h.revoked = g.revoked
        BY <2>1, <2>2 DEF UserGates, Sources
    <2> QED
        BY <2>3 DEF h
<1>b. CASE ~Repeated(g, item)
    <2> DEFINE kept == g.src # None /\ g.src.lease = item.lease
               base == IF g.src # None /\ ~kept THEN removeSourceLocked(g, n) ELSE g
               new == [run |-> IF kept THEN g.src.run ELSE run,
                       lease |-> item.lease, revoked |-> FALSE,
                       permits |-> IF kept THEN g.src.permits ELSE {},
                       confirmedAt |-> item.confirmedAt, deadline |-> deadline,
                       confirmedSequence |-> s, omissionSequence |-> s,
                       leaseSequence |-> item.cs]
    <2>1. base \in UserGates /\ base.barrier = g.barrier /\ base.revoked = g.revoked
        BY RemoveType, RemoveLeaves
    <2>2. h = [base EXCEPT !.src = new, !.retired[item.lease] = None]
        BY <1>b DEF installLeaseLocked
    <2> HIDE DEF base, new, h
    <2>3. h.barrier = base.barrier /\ h.revoked = base.revoked
        BY <2>1, <2>2 DEF UserGates
    <2> QED
        BY <2>1, <2>3 DEF h
<1> QED
    BY <1>a, <1>b

\* AdmitInstall: the installation, and the number of the section if the lease
\* is granted.
Installed(g, item, s, n) == installLeaseLocked(g, item, item.deadline, s, n)
Admitted(g, item, s, n) == [Installed(g, item, s, n) EXCEPT !.src.omissionSequence = n]

\* Installing an admitted lease moves an account only as the fence allows.
LEMMA AdmissionMoves ==
    ASSUME NEW u, NEW g \in UserGates, NEW item \in Grants, NEW s \in Nat, NEW n \in Nat, run \in Nat
    PROVE  /\ Installed(g, item, s, n).revoked = g.revoked
           /\ Admitted(g, item, s, n).revoked = g.revoked
           /\ ~Refused(u, g, item, s) => Moves(g, Installed(g, item, s, n), n, {s})
           /\ ~Refused(u, g, item, s) => Moves(g, Admitted(g, item, s, n), n, {s})
<1> DEFINE k == Installed(g, item, s, n)
           h == Admitted(g, item, s, n)
<1>1. item.lease \in Leases /\ item.cs \in Nat /\ item.confirmedAt \in Nat /\ item.deadline \in Int
    BY DEF Grants
<1>2. k.revoked = g.revoked
    BY <1>1, InstallLeaves DEF Installed
<1>3. k \in UserGates /\ k.src \in Sources
    BY <1>1, InstallType DEF Installed
<1>4. ~Refused(u, g, item, s) => Moves(g, k, n, {s})
    BY <1>1, InstallMoves DEF Installed
<1>5. h = [k EXCEPT !.src.omissionSequence = n]
    BY DEF Admitted
<1> HIDE DEF k, h
<1>6. /\ h.barrier = k.barrier /\ h.revoked = k.revoked
      /\ Live(h.src) => Live(k.src)
      /\ h.src.lease = k.src.lease /\ h.src.confirmedSequence = k.src.confirmedSequence
    BY <1>3, <1>5, NoneAssumption DEF UserGates, Sources, Live
<1>7. Moves(g, k, n, {s}) => Moves(g, h, n, {s})
    BY <1>6, MovesSame
<1> QED
    BY <1>2, <1>4, <1>6, <1>7 DEF k, h

\* An installation keeps its request or ends.
LEMMA AdmitInstallOpen ==
    ASSUME GateTypeOK, NEW u \in Users, AdmitInstall(u)
    PROVE  Open' \subseteq Open
<1> DEFINE f == flight[u]
<1>0. f # None /\ f \in Flights /\ flight \in [Users -> Flights \cup {None}]
    BY FlightType DEF AdmitInstall, Busy, GateTypeOK
<1>1. call' = call
    BY DEF AdmitInstall
<1>2. [f EXCEPT !.stage = "granted"].req = f.req
    BY <1>0 DEF Flights
<1>3. \/ flight' = [flight EXCEPT ![u] = None]
      \/ flight' = [flight EXCEPT ![u] = [f EXCEPT !.stage = "granted"]]
    BY DEF AdmitInstall
<1> QED
    BY <1>0, <1>1, <1>2, <1>3, OpenWithoutOne, OpenWithOne

\* An admission installs its lease (installLeaseLocked): what was revoked stays below the fence.
LEMMA AdmitInstallFence ==
    ASSUME GateTypeOK, GateTypeOK', FenceInv, NEW u \in Users, AdmitInstall(u)
    PROVE  FenceInv'
<1> DEFINE f == flight[u]
           g == Installed(gate[u], f.item, f.req.seq, seq + 1)
           stored == run = f.run /\ ~Refused(u, gate[u], f.item, f.req.seq)
           h == Admitted(gate[u], f.item, f.req.seq, seq + 1)
<1>1. f # None /\ f \in Flights /\ f.item \in Grants /\ f.req \in Requests
    BY FlightType DEF AdmitInstall, Busy
<1>2. gate[u] \in UserGates /\ seq + 1 \in Nat /\ run \in Nat /\ f.req.seq \in Nat /\ seq \in Nat
      /\ gate \in [Users -> UserGates] /\ flight \in [Users -> Flights \cup {None}]
    BY <1>1 DEF GateTypeOK, Requests
<1>3. f.req \in Open
    BY <1>1, NoneAssumption DEF Open, Busy
<1>4. \/ /\ stored /\ gate' = [gate EXCEPT ![u] = h]
         /\ seq' = seq + 1 /\ flight' = [flight EXCEPT ![u].stage = "granted"]
      \/ /\ stored /\ gate' = [gate EXCEPT ![u] = g]
         /\ seq' = seq /\ flight' = [flight EXCEPT ![u] = None]
      \/ /\ gate' = gate
         /\ seq' = seq /\ flight' = [flight EXCEPT ![u] = None]
    BY DEF AdmitInstall, Numbered, Installed, Admitted
<1>5. Open' \subseteq Open
    BY AdmitInstallOpen
<1>6. /\ g.revoked = gate[u].revoked /\ h.revoked = gate[u].revoked
      /\ stored => Moves(gate[u], g, seq + 1, {f.req.seq}) /\ Moves(gate[u], h, seq + 1, {f.req.seq})
    <2> DEFINE s == f.req.seq
               i == f.item
               d == gate[u]
               n == seq + 1
    <2>1. d \in UserGates /\ i \in Grants /\ s \in Nat /\ n \in Nat /\ run \in Nat
        BY <1>1, <1>2
    <2> HIDE DEF s, i, d, n
    <2>2. /\ Installed(d, i, s, n).revoked = d.revoked
          /\ Admitted(d, i, s, n).revoked = d.revoked
          /\ ~Refused(u, d, i, s) => Moves(d, Installed(d, i, s, n), n, {s})
          /\ ~Refused(u, d, i, s) => Moves(d, Admitted(d, i, s, n), n, {s})
        BY <2>1, AdmissionMoves
    <2> QED
        BY <2>2 DEF s, i, d, n
<1> HIDE DEF g, h, stored
<1>7. ASSUME NEW v \in Users
      PROVE  /\ Moves(gate[v], gate'[v], seq + 1, {r.seq : r \in Open})
             /\ gate'[v].revoked = gate[v].revoked
    <2>1. CASE gate'[v] = gate[v]
        BY <2>1 DEF Moves, SameMark, Stays
    <2>2. CASE stored /\ v = u /\ gate'[v] \in {g, h}
        <3>1. gate'[v].revoked = gate[v].revoked /\ Moves(gate[v], gate'[v], seq + 1, {f.req.seq})
            BY <1>6, <2>2
        <3>2. {f.req.seq} \subseteq {r.seq : r \in Open}
            BY <1>3
        <3> QED
            BY <3>1, <3>2 DEF Moves, Comes
    <2>3. gate'[v] = gate[v] \/ (stored /\ v = u /\ gate'[v] \in {g, h})
        BY <1>2, <1>4
    <2> QED
        BY <2>1, <2>2, <2>3
<1>8. Fenced(gate') = fence
    <2>1. \A v \in Users, l \in Leases : SameMark(gate[v], gate'[v], l)
        BY <1>7 DEF SameMark
    <2>2. gate' \in [Users -> UserGates]
        BY DEF GateTypeOK
    <2> QED
        BY <2>1, <2>2, NothingFenced
<1>9. fence' = fence /\ now' = now /\ seq' \in {seq, seq + 1}
    BY <1>4 DEF AdmitInstall
<1> QED
    BY <1>5, <1>7, <1>8, <1>9, FenceByMoves

\* A user who keeps the permission: old records of revocations go.
LEMMA PurgeKeeps ==
    ASSUME GateTypeOK, FenceInv, NEW u \in Users, NEW q \in {seq, seq + 1}
    PROVE  Kept(Purge(gate[u]), q, Open, fence[u])
<1> DEFINE h == Purge(gate[u])
<1>1. gate[u] \in UserGates /\ h \in UserGates /\ seq \in Nat
    BY PurgeType DEF GateTypeOK
<1>2. /\ Moves(gate[u], h, seq + 1, {r.seq : r \in Open})
      /\ \A l \in Leases : SameMark(gate[u], h, l) \/ OldMark(gate[u], h, l)
    BY <1>1, PurgeMoves
<1> HIDE DEF h
<1>3. ASSUME NEW l \in Leases
      PROVE  ~(h.revoked[l] # None /\ h.revoked[l].barrier = seq + 1)
    <2>1. gate[u].revoked[l] # None => gate[u].revoked[l].barrier <= seq
        BY DEF FenceInv, MarksLast
    <2> QED
        BY <1>1, <1>2, <2>1 DEF SameMark, OldMark
<1>4. Kept(h, q, Open, fence[u])
    BY <1>1, <1>2, <1>3, MovesKeep
<1> QED
    BY <1>4 DEF h

\* A user who loses it: the barrier refuses every call that is open.
LEMMA FenceKeeps ==
    ASSUME GateTypeOK, FenceInv, NEW u \in Users, NEW F, \A l \in Leases : F[l] = seq + 1,
           NEW g, g = [gate[u] EXCEPT !.barrier = seq + 1],
           NEW h, h = IF Source(u) = None THEN Purge(g)
                      ELSE revokeLocked(g, Source(u).lease, NoIdentity, 0, seq + 1)
    PROVE  Kept(h, seq + 1, Open, F)
<1>1. gate[u] \in UserGates /\ seq \in Nat /\ seq + 1 \in Nat /\ now \in Nat /\ run \in Nat
    BY DEF GateTypeOK
<1>2. /\ g \in UserGates /\ g.barrier = seq + 1
      /\ g.src = Source(u) /\ g.revoked = gate[u].revoked
    BY <1>1 DEF UserGates, Source
<1>3. Source(u) # None => Source(u).lease \in Leases
    BY <1>1 DEF UserGates, Sources, Source
<1>4. Moves(g, h, seq + 1, {}) /\ ~Live(h.src) /\ h \in UserGates
    <2>1. CASE Source(u) = None
        BY <1>2, <2>1, PurgeMoves, PurgeType DEF Live
    <2>2. CASE Source(u) # None
        BY <1>1, <1>2, <1>3, <2>2, RevokeMoves, RevokeType, NoIdentityType
    <2> QED
        BY <2>1, <2>2
<1>5. h.barrier = seq + 1
    BY <1>2, <1>4 DEF Moves
<1>6. ASSUME NEW r \in Open
      PROVE  r.seq \in Nat /\ r.seq <= seq /\ r.started \in Nat /\ r.started <= now
    BY OpenType DEF FenceInv, OpenInTime
<1>7. ASSUME NEW l \in Leases, h.revoked[l] # None
      PROVE  /\ h.revoked[l].barrier <= seq + 1
             /\ \A r \in Open : r.seq <= h.revoked[l].barrier => r.started + Grace < h.revoked[l].until
    <2>1. h.revoked[l] = gate[u].revoked[l] \/ NewMark(h.revoked[l], seq + 1)
        BY <1>2, <1>4, <1>7 DEF Moves, SameMark, OldMark
    <2>2. CASE NewMark(h.revoked[l], seq + 1)
        BY <1>1, <1>6, <2>2, Numbers DEF NewMark
    <2>3. CASE h.revoked[l] = gate[u].revoked[l]
        <3>1. h.revoked[l] \in Marks
            BY <1>4, <1>7 DEF UserGates
        <3>2. /\ h.revoked[l].barrier <= seq
              /\ \A r \in Open : r.seq <= h.revoked[l].barrier =>
                                    r.started + Grace < h.revoked[l].until
            BY <1>7, <2>3 DEF FenceInv, MarksLast
        <3> QED
            BY <1>1, <3>1, <3>2 DEF Marks
    <2> QED
        BY <2>1, <2>2, <2>3
<1>8. ASSUME NEW l \in Leases
      PROVE  F[l] <= seq + 1 /\ \A r \in Open : r.seq <= F[l] => Refuses(h, l, r.seq)
    BY <1>1, <1>5, <1>6 DEF Refuses
<1> QED
    BY <1>4, <1>7, <1>8 DEF Kept

\* The list of users changes (SetUsers): what was revoked stays below the fence.
LEMMA SetUsersFence ==
    ASSUME GateTypeOK, GateTypeOK', FenceInv, NEW allowed \in SUBSET Users, SetUsers(allowed)
    PROVE  FenceInv'
<1> DEFINE removed == {u \in Users \ allowed : u \in users \/ Busy(u) \/ Source(u) # None}
           fenced(u) == [gate[u] EXCEPT !.barrier = seq + 1]
           h(u) == IF Source(u) = None THEN Purge(fenced(u))
                   ELSE revokeLocked(fenced(u), Source(u).lease, NoIdentity, 0, seq + 1)
<1>1. now' = now /\ flight' = flight /\ call' = call
    BY DEF SetUsers
<1>2. Open' \subseteq Open
    BY <1>1, OpenShrinks
<1>3. \/ gate' = [u \in Users |-> Purge(gate[u])] /\ seq' = seq /\ fence' = fence
      \/ /\ gate' = [u \in Users |-> IF u \notin removed THEN Purge(gate[u]) ELSE h(u)]
         /\ seq' = seq + 1
         /\ fence' = [u \in Users |-> [l \in Leases |->
                        IF u \in removed THEN seq + 1 ELSE fence[u][l]]]
    BY DEF SetUsers, Numbered
<1>4. ASSUME NEW u \in Users, NEW F, \A l \in Leases : F[l] = seq + 1
      PROVE  Kept(h(u), seq + 1, Open, F)
    BY <1>4, FenceKeeps
<1>5. ASSUME NEW u \in Users, NEW q \in {seq, seq + 1}
      PROVE  Kept(Purge(gate[u]), q, Open, fence[u])
    BY PurgeKeeps
<1> HIDE DEF removed, h
<1>6. \A u \in Users : fence[u] \in [Leases -> Nat]
    BY DEF GateTypeOK
<1>7. ASSUME NEW u \in Users PROVE Kept(gate'[u], seq', Open, fence'[u])
    <2>1. \/ gate'[u] = Purge(gate[u]) /\ seq' \in {seq, seq + 1} /\ fence'[u] = fence[u]
          \/ gate'[u] = h(u) /\ seq' = seq + 1 /\ \A l \in Leases : fence'[u][l] = seq + 1
        BY <1>3, <1>6
    <2> QED
        BY <1>4, <1>5, <2>1
<1>8. ASSUME NEW u \in Users PROVE Kept(gate'[u], seq', Open', fence'[u])
    BY <1>2, <1>7 DEF Kept
<1>9. OpenInTime'
    BY <1>1, <1>2, <1>3, OpenInTimeKept DEF FenceInv
<1> QED
    BY <1>8, <1>9, FenceFromUsers

\* A session begins when no call is open: the barriers of the last one go.
LEMMA BeginFence ==
    ASSUME GateTypeOK, GateTypeOK', FenceInv, begin
    PROVE  FenceInv'
<1>1. call' = None /\ flight' = flight /\ now' = now /\ seq' = seq /\ fence' = fence
    BY DEF begin
<1>2. \A u \in Users : flight[u] = None /\ gate[u].src = None
    BY DEF begin, Busy, Source
<1>3. Open' = {}
    BY <1>1, <1>2 DEF Open, Busy
<1>4. ASSUME NEW u \in Users
      PROVE  gate'[u].revoked = gate[u].revoked /\ gate'[u].src = None
    <2>1. gate[u] \in UserGates
        BY DEF GateTypeOK
    <2>2. gate'[u] = gate[u] \/ gate'[u] = [gate[u] EXCEPT !.barrier = 0]
        BY DEF begin
    <2> QED
        BY <1>2, <2>1, <2>2 DEF UserGates
<1>5. ASSUME NEW u \in Users PROVE Kept(gate'[u], seq', Open', fence'[u])
    <2>1. ~Live(gate'[u].src)
        BY <1>4 DEF Live
    <2>2. \A l \in Leases : /\ gate[u].revoked[l] # None => gate[u].revoked[l].barrier <= seq
                            /\ fence[u][l] <= seq
        BY DEF FenceInv, MarksLast, OldAnswersRefused
    <2> QED
        BY <1>1, <1>3, <1>4, <2>1, <2>2 DEF Kept
<1>6. OpenInTime'
    BY <1>3 DEF OpenInTime
<1> QED
    BY <1>5, <1>6, FenceFromUsers

\* Time passes only as long as every open call may still be answered.
LEMMA TickFence ==
    ASSUME GateTypeOK, GateTypeOK', FenceInv, Tick
    PROVE  FenceInv'
<1>1. /\ call' = call /\ flight' = flight /\ now' = now + 1 /\ seq' = seq /\ fence' = fence
      /\ gate' = gate
    BY DEF Tick
<1>2. Open' = Open
    BY <1>1 DEF Open, Busy
<1>3. ASSUME NEW r \in Open PROVE now < r.started + Patience
    <2>1. r # None /\ (\/ \E v \in Users : flight[v] # None /\ r = flight[v].req
                       \/ call # None /\ r = call.req)
        BY DEF Open, Busy
    <2> QED
        BY <2>1 DEF Tick, Busy
<1>4. OpenInTime'
    <2>1. ASSUME NEW r \in Open
          PROVE  r.seq <= seq /\ r.started <= now + 1 /\ now + 1 <= r.started + Patience
        <3>1. r.seq <= seq /\ r.started <= now
            BY DEF FenceInv, OpenInTime
        <3>2. now \in Nat /\ r.started \in Nat
            BY OpenType DEF GateTypeOK
        <3> QED
            BY <1>3, <3>1, <3>2, Numbers
    <2> QED
        BY <1>1, <1>2, <2>1 DEF OpenInTime
<1>5. ASSUME NEW u \in Users PROVE Kept(gate'[u], seq', Open', fence'[u])
    <2>1. Kept(gate[u], seq, Open, fence[u])
        BY DEF FenceInv, MarksLast, OldAnswersRefused, NoResurrection, Kept, Source
    <2> QED
        BY <1>1, <1>2, <2>1
<1> QED
    BY <1>4, <1>5, FenceFromUsers

\* The panel does not change the node.
LEMMA ElsewhereFence ==
    ASSUME GateTypeOK, GateTypeOK', FenceInv,
           UNCHANGED <<now, seq, gate, flight, call, fence>>
    PROVE  FenceInv'
<1>1. Open' \subseteq Open
    BY OpenShrinks
<1> QED
    BY <1>1, UnchangedStay, FenceIfOnlyClosed

\* Nothing is revoked at first.
LEMMA FenceInit == GateInit => FenceInv
<1> SUFFICES ASSUME GateInit PROVE FenceInv
    OBVIOUS
<1>1. Open = {}
    BY DEF GateInit, Open, Busy
<1>2. \A u \in Users : gate[u].src = None /\ \A l \in Leases : gate[u].revoked[l] = None
    BY DEF GateInit, NoGate
<1>3. \A u \in Users, l \in Leases : fence[u][l] <= seq
    BY DEF GateInit
<1> QED
    BY <1>1, <1>2, <1>3
       DEF FenceInv, OpenInTime, MarksLast, OldAnswersRefused, NoResurrection, Source, Live

\* Every step keeps the invariant.
LEMMA FenceStep == GateTypeOK /\ GateTypeOK' /\ FenceInv /\ [GateNext]_gateVars => FenceInv'
<1> SUFFICES ASSUME GateTypeOK, GateTypeOK', FenceInv, [GateNext]_gateVars PROVE FenceInv'
    OBVIOUS
<1>1. CASE begin
    BY <1>1, BeginFence
<1>2. CASE Stop
    BY <1>2, StopFence
<1>3. CASE Tick
    BY <1>3, TickFence
<1>4. CASE PanelForgets
    BY <1>4, ElsewhereFence DEF PanelForgets
<1>5. CASE SyncSend \/ SyncError \/ acceptLeases \/ SyncConfirm
    BY <1>5, SyncSendFence, SyncErrorFence, AcceptFence, SyncConfirmFence
<1>6. ASSUME NEW a \in answers, SyncAnswer(a) PROVE FenceInv'
    BY <1>6, SyncAnswerFence
<1>7. ASSUME NEW u \in Users, NEW c \in Conns, Acquire(c, u) \/ CancelWait(c, u) \/ Release(c, u)
      PROVE  FenceInv'
    BY <1>7, AcquireFence, CancelWaitFence, ReleaseFence
<1>8. ASSUME NEW u \in Users, AdmitSend(u) \/ AdmitError(u) \/ AdmitInstall(u) \/ admit(u)
      PROVE  FenceInv'
    BY <1>8, AdmitSendFence, AdmitErrorFence, AdmitInstallFence, AdmitGrantFence
<1>9. ASSUME NEW u \in Users, NEW a \in answers, AdmitAnswer(u, a) PROVE FenceInv'
    BY <1>9, AdmitAnswerFence
<1>10. ASSUME NEW u \in Users, expireSource(u) PROVE FenceInv'
    BY <1>10, ExpireFence
<1>11. ASSUME NEW u \in Users, PanelRevokes(u) PROVE FenceInv'
    BY <1>11, ElsewhereFence DEF PanelRevokes
<1>12. ASSUME NEW allowed \in SUBSET Users, SetUsers(allowed) PROVE FenceInv'
    BY <1>12, SetUsersFence
<1>13. ASSUME NEW req \in wire, PanelLost(req) \/ PanelAdmit(req) \/ PanelSync(req)
       PROVE  FenceInv'
    <2>1. UNCHANGED <<now, seq, gate, flight, call, fence>>
        BY <1>13 DEF PanelLost, PanelAdmit, PanelSync, Answer
    <2> QED
        BY <2>1, ElsewhereFence
<1>14. CASE UNCHANGED gateVars
    BY <1>14, ElsewhereFence DEF gateVars
<1> QED
    BY <1>1, <1>2, <1>3, <1>4, <1>5, <1>6, <1>7, <1>8, <1>9, <1>10, <1>11, <1>12, <1>13, <1>14
       DEF GateNext

\* Every call is answered within Patience, and whatever the node revokes stays
\* refused as long as a call begun before is open.
THEOREM FenceInvHolds == GateSpec => []FenceInv
BY FenceInit, FenceStep, GateTypesCorrect, PTL DEF GateSpec

\* A source that admits connections rests on a confirmation the node asked for
\* after it last revoked the lease: installLeaseLocked refuses every answer
\* that was under way, however late it comes and however many calls, users and
\* leases there are.
THEOREM LeasesStayRevoked == GateSpec => []NoResurrection
<1>1. FenceInv => NoResurrection
    BY DEF FenceInv
<1> QED
    BY <1>1, FenceInvHolds, PTL

-----------------------------------------------------------------------------
(***************************************************************************)
(* The gate and the panel (lease_cache.go, manager.go): how long the node  *)
(* trusts a lease, and what becomes of the leases it returns.              *)
(***************************************************************************)
(***************************************************************************)
(* DeadlineWithinLease.  ExpiryInv once more, with the clock n and what    *)
(* the panel holds as parameters.                                          *)
(***************************************************************************)
Runs(n, h, t) == t <= n + Grace /\ (h # None => t <= h.expiresAt)
AnswerRuns(n, H, a) ==
    /\ a.req.started <= a.time
    /\ \A i \in ItemsOf(a) : Runs(n, H[i.user], i.expiresAt)
    /\ a.item # None => a.item.user = a.req.user
CallRuns(n, H, c) == (c # None /\ c.stage = "accept") => AnswerRuns(n, H, c.answer)
SourceRuns(n, h, g) == g.src # None => Runs(n, h, g.src.deadline)
FlightRuns(n, h, u, f) ==
    f # None => /\ f.req # None => f.req.user = u
                /\ f.stage = "verify" => Runs(n, h, f.item.deadline)
Expiry(n, H, w, A, c, g, f) ==
    /\ \A u \in Users : H[u] # None => H[u].expiresAt <= n + Grace
    /\ \A r \in w : r.started <= n
    /\ \A a \in A : AnswerRuns(n, H, a)
    /\ CallRuns(n, H, c)
    /\ \A u \in Users : SourceRuns(n, H[u], g[u]) /\ FlightRuns(n, H[u], u, f[u])

\* The invariant as an operator of the state's parts.
LEMMA ExpiryIs ==
    /\ ExpiryInv <=> Expiry(now, hold, wire, answers, call, gate, flight)
    /\ ExpiryInv' <=> Expiry(now', hold', wire', answers', call', gate', flight')
<1>1. ExpiryInv <=> Expiry(now, hold, wire, answers, call, gate, flight)
    BY DEF ExpiryInv, Expiry, Within, AnswerWithin, Runs, AnswerRuns, CallRuns, SourceRuns,
           FlightRuns, Source, Busy
<1>2. ExpiryInv' <=> Expiry(now', hold', wire', answers', call', gate', flight')
    BY DEF ExpiryInv, Expiry, Within, AnswerWithin, Runs, AnswerRuns, CallRuns, SourceRuns,
           FlightRuns, Source, Busy
<1> QED
    BY <1>1, <1>2

\* What the panel holds at a time m after n: a lease confirmed just now, or one
\* that it held before.
Later(n, H, m, K) ==
    \A u \in Users : K[u] # None => \/ K[u].expiresAt = m + Grace
                                    \/ H[u] # None /\ K[u].expiresAt = H[u].expiresAt

\* A lease the panel holds has an expiry.
LEMMA HoldsType ==
    ASSUME NEW H \in [Users -> Holds \cup {None}], NEW u \in Users, H[u] # None
    PROVE  H[u] \in Holds /\ H[u].expiresAt \in Nat
BY DEF Holds

\* The panel only ever extends a lease: what ran out in time does so later.
LEMMA RunsLater ==
    ASSUME NEW n \in Nat, NEW m \in {n, n + 1}, NEW H \in [Users -> Holds \cup {None}],
           NEW K \in [Users -> Holds \cup {None}], Later(n, H, m, K)
    PROVE  /\ \A u \in Users, t \in Int : Runs(n, H[u], t) => Runs(m, K[u], t)
           /\ \A a \in Answers : AnswerRuns(n, H, a) => AnswerRuns(m, K, a)
<1>1. ASSUME NEW u \in Users, NEW t \in Int, Runs(n, H[u], t) PROVE Runs(m, K[u], t)
    <2>1. t <= m + Grace
        BY <1>1, Numbers DEF Runs
    <2>2. ASSUME K[u] # None PROVE t <= K[u].expiresAt
        BY <1>1, <2>1, <2>2, HoldsType DEF Runs, Later
    <2> QED
        BY <2>1, <2>2 DEF Runs
<1>2. ASSUME NEW a \in Answers, AnswerRuns(n, H, a) PROVE AnswerRuns(m, K, a)
    <2>1. ItemsOf(a) \in SUBSET Items
        BY DEF ItemsOf, Answers
    <2>2. \A i \in ItemsOf(a) : i.user \in Users /\ i.expiresAt \in Int
        BY <2>1 DEF Items
    <2> QED
        BY <1>1, <1>2, <2>2 DEF AnswerRuns
<1> QED
    BY <1>1, <1>2

\* What a step has to do so that ExpiryInv holds after it.
LEMMA ExpiryKept ==
    ASSUME GateTypeOK, GateTypeOK', ExpiryInv, now' \in {now, now + 1},
           Later(now, hold, now', hold'),
           \A r \in wire' : r \in wire \/ r.started = now,
           \A a \in answers' : a \in answers \/ AnswerRuns(now', hold', a),
           CallRuns(now, hold, call'),
           \A u \in Users : SourceRuns(now, hold[u], gate'[u]) /\ FlightRuns(now, hold[u], u, flight'[u])
    PROVE  ExpiryInv'
<1>0. now \in Nat /\ hold \in [Users -> Holds \cup {None}] /\ hold' \in [Users -> Holds \cup {None}]
    BY DEF GateTypeOK
<1>1. /\ \A u \in Users, t \in Int : Runs(now, hold[u], t) => Runs(now', hold'[u], t)
      /\ \A a \in Answers : AnswerRuns(now, hold, a) => AnswerRuns(now', hold', a)
    <2> DEFINE m == now'
               K == hold'
    <2>1. m \in {now, now + 1} /\ K \in [Users -> Holds \cup {None}] /\ Later(now, hold, m, K)
        BY <1>0
    <2> HIDE DEF m, K
    <2>2. /\ \A u \in Users, t \in Int : Runs(now, hold[u], t) => Runs(m, K[u], t)
          /\ \A a \in Answers : AnswerRuns(now, hold, a) => AnswerRuns(m, K, a)
        BY <1>0, <2>1, RunsLater
    <2> QED
        BY <2>2 DEF m, K
<1>2. Expiry(now, hold, wire, answers, call, gate, flight)
    BY ExpiryIs
<1>3. ASSUME NEW u \in Users, hold'[u] # None PROVE hold'[u].expiresAt <= now' + Grace
    <2>1. hold[u] # None => hold[u].expiresAt <= now + Grace /\ hold[u].expiresAt \in Nat
        BY <1>0, <1>2, HoldsType DEF Expiry
    <2> QED
        BY <1>0, <1>3, <2>1, Numbers DEF Later
<1>4. ASSUME NEW r \in wire' PROVE r.started <= now'
    <2>1. wire' \in SUBSET Requests
        BY DEF GateTypeOK
    <2>2. r.started \in Nat
        BY <2>1 DEF Requests
    <2>3. r.started <= now
        BY <1>0, <1>2, <2>2 DEF Expiry
    <2> QED
        BY <1>0, <2>2, <2>3
<1>5. ASSUME NEW a \in answers' PROVE AnswerRuns(now', hold', a)
    <2>1. a \in Answers
        BY DEF GateTypeOK
    <2> QED
        BY <1>1, <1>2, <2>1 DEF Expiry
<1>6. CallRuns(now', hold', call')
    <2>1. ASSUME call' # None, call'.stage = "accept" PROVE call'.answer \in Answers
        BY <2>1 DEF GateTypeOK, Calls
    <2> QED
        BY <1>1, <2>1 DEF CallRuns
<1>7. ASSUME NEW u \in Users
      PROVE  SourceRuns(now', hold'[u], gate'[u]) /\ FlightRuns(now', hold'[u], u, flight'[u])
    <2>1. gate'[u].src # None => gate'[u].src.deadline \in Int
        BY DEF GateTypeOK, UserGates, Sources
    <2>2. flight'[u] # None /\ flight'[u].stage = "verify" => flight'[u].item.deadline \in Int
        BY DEF GateTypeOK, Flights, Grants
    <2> QED
        BY <1>1, <2>1, <2>2 DEF SourceRuns, FlightRuns
<1>8. Expiry(now', hold', wire', answers', call', gate', flight')
    BY <1>3, <1>4, <1>5, <1>6, <1>7 DEF Expiry
<1> QED
    BY <1>8, ExpiryIs

\* What the invariant says of the call and of the answers on their way.
LEMMA ExpiryNow ==
    ASSUME ExpiryInv
    PROVE  /\ CallRuns(now, hold, call) /\ \A a \in answers : AnswerRuns(now, hold, a)
           /\ \A r \in wire : r.started <= now
           /\ \A u \in Users : SourceRuns(now, hold[u], gate[u]) /\ FlightRuns(now, hold[u], u, flight[u])
BY ExpiryIs DEF Expiry

\* The steps of the node: the panel and the clock stand still.
LEMMA NodeExpiry ==
    ASSUME GateTypeOK, GateTypeOK', ExpiryInv, now' = now, hold' = hold,
           \A r \in wire' : r \in wire \/ r.started = now, answers' \subseteq answers,
           CallRuns(now, hold, call'),
           \A u \in Users : SourceRuns(now, hold[u], gate'[u]) /\ FlightRuns(now, hold[u], u, flight'[u])
    PROVE  ExpiryInv'
<1>1. Later(now, hold, now', hold')
    BY DEF Later
<1> QED
    BY <1>1, ExpiryKept

\* What the operations do to the deadline of a source: nothing, as long as the
\* source is there.
SameDeadline(g, h) ==
    h.src # None => g.src # None /\ h.src.deadline = g.src.deadline

\* Marking the source revoked leaves its deadline (revokeLocked).
LEMMA RevokedDeadline ==
    ASSUME NEW g \in UserGates, g.src # None
    PROVE  SameDeadline(g, [g EXCEPT !.src.revoked = TRUE])
<1>1. g.src \in Sources
    BY DEF UserGates
<1>2. [g EXCEPT !.src.revoked = TRUE].src.deadline = g.src.deadline
    BY <1>1 DEF UserGates, Sources
<1> QED
    BY <1>2 DEF SameDeadline

\* An account closed with the session keeps its deadline or has no lease (loseSession).
LEMMA ClosedDeadline ==
    ASSUME NEW g \in UserGates, NEW n
    PROVE  SameDeadline(g, Closed(g, n))
BY RemoveLeaves, RevokedDeadline DEF Closed, SameDeadline

\* revokeLocked never extends a deadline.
LEMMA RevokeDeadline ==
    ASSUME NEW g \in UserGates, NEW lease \in Leases, NEW id, NEW s \in Nat, NEW n \in Nat, now \in Nat
    PROVE  SameDeadline(g, revokeLocked(g, lease, id, s, n))
<1> DEFINE p == Purge(g)
           previous == IF p.revoked[lease] = None THEN 0 ELSE p.revoked[lease].seq
           m == [until |-> now + Grace + 1, barrier |-> n,
                 seq |-> IF s > previous THEN s ELSE previous]
           marked == [p EXCEPT !.revoked[lease] = m]
           h == revokeLocked(g, lease, id, s, n)
<1>1. p \in UserGates /\ p.src = g.src
    BY PurgeType, PurgeMoves
<1>2. m \in Marks
    <2>1. p.revoked[lease] \in Marks \cup {None}
        BY <1>1 DEF UserGates
    <2>2. previous \in Nat
        BY <2>1 DEF Marks
    <2> QED
        BY <2>2, Numbers DEF Marks
<1>3. h = IF Outdated(p, lease, s) THEN p
          ELSE IF p.src = None \/ p.src.lease # lease THEN retireLocked(marked, lease, id, n)
          ELSE IF p.src.permits = {} THEN removeSourceLocked(marked, n)
          ELSE [marked EXCEPT !.src.revoked = TRUE]
    BY DEF revokeLocked
<1> HIDE DEF m, p, h
<1>4. marked \in UserGates /\ marked.src = p.src
    BY <1>1, <1>2, MarkType DEF UserGates
<1> HIDE DEF marked
<1>5. p.src # None => SameDeadline(marked, [marked EXCEPT !.src.revoked = TRUE])
    BY <1>4, RevokedDeadline
<1>6. retireLocked(marked, lease, id, n).src = marked.src
    BY <1>4, RetireLeaves
<1>7. removeSourceLocked(marked, n).src = None
    BY <1>4, RemoveLeaves
<1>8. SameDeadline(g, h)
    BY <1>1, <1>3, <1>4, <1>5, <1>6, <1>7 DEF SameDeadline
<1> QED
    BY <1>8 DEF h

\* Revoking the items of an answer never extends a deadline.
LEMMA RevokedAllDeadline ==
    ASSUME NEW g \in [Users -> UserGates], NEW items \in SUBSET [user : Users, lease : Leases],
           NEW s \in Nat, NEW n \in Nat, now \in Nat, NEW u \in Users
    PROVE  SameDeadline(g[u], Revoked(g, items, s, n)[u])
<1>1. CASE \E i \in items : i.user = u
    <2> DEFINE l == (CHOOSE i \in items : i.user = u).lease
    <2>1. l \in Leases
        BY <1>1
    <2>2. Revoked(g, items, s, n)[u] = revokeLocked(g[u], l, NoIdentity, s, n)
        BY <1>1 DEF Revoked
    <2> HIDE DEF l
    <2> QED
        BY <2>1, <2>2, RevokeDeadline
<1>2. CASE ~\E i \in items : i.user = u
    <2>1. Revoked(g, items, s, n)[u] = Purge(g[u])
        BY <1>2 DEF Revoked
    <2> QED
        BY <2>1, PurgeMoves DEF SameDeadline
<1> QED
    BY <1>1, <1>2

\* An installed lease has the deadline it had, or the one it is installed with.
LEMMA InstallDeadline ==
    ASSUME NEW g \in UserGates, NEW item, item.lease \in Leases, item.cs \in Nat,
           item.confirmedAt \in Nat, NEW deadline \in Int, NEW s \in Nat, NEW n \in Nat, run \in Nat,
           NEW t, NEW h, SourceRuns(t, h, g), Runs(t, h, deadline)
    PROVE  SourceRuns(t, h, installLeaseLocked(g, item, deadline, s, n))
<1> DEFINE k == installLeaseLocked(g, item, deadline, s, n)
<1>a. CASE Repeated(g, item)
    <2>1. g.src # None /\ g.src \in Sources
        BY <1>a DEF Repeated, UserGates
    <2>2. k = [g EXCEPT !.src.confirmedSequence = s,
                        !.src.leaseSequence = larger(@, item.cs),
                        !.src.omissionSequence = larger(@, s)]
        BY <1>a DEF installLeaseLocked
    <2> HIDE DEF k
    <2>3. k.src.deadline = g.src.deadline
        BY <2>1, <2>2 DEF UserGates, Sources
    <2> QED
        BY <2>1, <2>3 DEF SourceRuns, k
<1>b. CASE ~Repeated(g, item)
    <2> DEFINE kept == g.src # None /\ g.src.lease = item.lease
               base == IF g.src # None /\ ~kept THEN removeSourceLocked(g, n) ELSE g
               new == [run |-> IF kept THEN g.src.run ELSE run,
                       lease |-> item.lease, revoked |-> FALSE,
                       permits |-> IF kept THEN g.src.permits ELSE {},
                       confirmedAt |-> item.confirmedAt, deadline |-> deadline,
                       confirmedSequence |-> s, omissionSequence |-> s,
                       leaseSequence |-> item.cs]
    <2>1. base \in UserGates
        BY RemoveType
    <2>2. k = [base EXCEPT !.src = new, !.retired[item.lease] = None]
        BY <1>b DEF installLeaseLocked
    <2>3. new.deadline = deadline
        OBVIOUS
    <2> HIDE DEF base, new, k
    <2>4. k.src = new
        BY <2>1, <2>2 DEF UserGates
    <2> QED
        BY <2>3, <2>4 DEF SourceRuns, k
<1> QED
    BY <1>a, <1>b

\* The remaining time counts from the start of the call, which is not later
\* than the panel's clock at the answer.
LEMMA DeadlineRuns ==
    ASSUME NEW t \in Nat, NEW h \in Holds \cup {None}, NEW i \in Items, NEW time \in Nat,
           NEW started \in Nat, started <= time, Runs(t, h, i.expiresAt)
    PROVE  Runs(t, h, Deadline(i, time, started)) /\ Deadline(i, time, started) \in Int
<1>1. i.expiresAt \in Nat /\ (h # None => h.expiresAt \in Nat)
    BY DEF Items, Holds
<1>2. Deadline(i, time, started) \in Int /\ Deadline(i, time, started) <= i.expiresAt
    BY <1>1 DEF Deadline
<1> QED
    BY <1>1, <1>2, Numbers DEF Runs

\* acceptLeases gives an account the panel's expiry, measured from the time the request was sent.
LEMMA AcceptedRuns ==
    ASSUME NEW u \in Users, NEW g \in UserGates, NEW a \in Answers, NEW n \in Nat,
           run \in Nat, now \in Nat, hold \in [Users -> Holds \cup {None}],
           AnswerRuns(now, hold, a), SourceRuns(now, hold[u], g)
    PROVE  SourceRuns(now, hold[u], Accepted(u, g, a, n))
<1> DEFINE s == a.req.seq
           listed == {i \in a.leases : i.user = u}
           omitted == /\ g.src # None /\ g.src.omissionSequence <= s
                      /\ \A i \in listed : i.lease # g.src.lease
           item == CHOOSE i \in listed : TRUE
           d == Deadline(item, a.time, a.req.started)
           installed == IF listed = {} \/ Refused(u, g, item, s) THEN g
                        ELSE installLeaseLocked(g, item, d, s, n)
           kept == IF omitted THEN revokeLocked(installed, g.src.lease, NoIdentity, s, n)
                   ELSE installed
<1>1. s \in Nat /\ a.req.started \in Nat /\ a.time \in Nat /\ a.leases \in SUBSET Items
    BY DEF Answers, Requests
<1>2. ASSUME listed # {}
      PROVE  item \in Items /\ item.lease \in Leases /\ item.cs \in Nat /\ item.confirmedAt \in Nat
             /\ d \in Int /\ Runs(now, hold[u], d)
    <2>1. item \in a.leases /\ item.user = u /\ item \in Items
        BY <1>1, <1>2
    <2>2. a.req.started <= a.time /\ Runs(now, hold[u], item.expiresAt)
        BY <2>1 DEF AnswerRuns, ItemsOf
    <2>3. hold[u] \in Holds \cup {None}
        OBVIOUS
    <2> HIDE DEF item
    <2>4. d \in Int /\ Runs(now, hold[u], d)
        BY <1>1, <2>1, <2>2, <2>3, DeadlineRuns
    <2> QED
        BY <2>1, <2>4 DEF Items
<1>3. installed \in UserGates /\ SourceRuns(now, hold[u], installed)
    <2> HIDE DEF item, d, s, listed
    <2>1. CASE listed = {} \/ Refused(u, g, item, s)
        BY <2>1
    <2>2. CASE ~(listed = {} \/ Refused(u, g, item, s))
        <3>1. /\ installLeaseLocked(g, item, d, s, n) \in UserGates
              /\ SourceRuns(now, hold[u], installLeaseLocked(g, item, d, s, n))
            BY <1>1, <1>2, <2>2, InstallType, InstallDeadline
        <3> QED
            BY <2>2, <3>1
    <2> QED
        BY <2>1, <2>2
<1>4. kept \in UserGates /\ SourceRuns(now, hold[u], kept)
    <2>1. g.src # None => g.src.lease \in Leases
        BY DEF UserGates, Sources
    <2> HIDE DEF installed, s
    <2>2. CASE omitted
        <3>1. kept \in UserGates /\ SameDeadline(installed, kept)
            BY <1>1, <1>3, <2>1, <2>2, RevokeType, RevokeDeadline, NoIdentityType
        <3> QED
            BY <1>3, <3>1 DEF SameDeadline, SourceRuns
    <2>3. CASE ~omitted
        BY <1>3, <2>3
    <2> QED
        BY <2>2, <2>3
<1>5. ASSUME listed # {}, NEW id
      PROVE  SourceRuns(now, hold[u], revokeLocked(kept, item.lease, id, s, n))
    <2> HIDE DEF item, s, listed, kept
    <2>1. SameDeadline(kept, revokeLocked(kept, item.lease, id, s, n))
        BY <1>1, <1>2, <1>4, <1>5, RevokeDeadline
    <2> QED
        BY <1>4, <2>1 DEF SameDeadline, SourceRuns
<1>6. Accepted(u, g, a, n) =
        IF listed = {} \/ item.user \notin a.idle \/ Busy(u) THEN kept
        ELSE IF kept.src = None
            THEN revokeLocked(kept, item.lease, [run |-> run, cs |-> item.cs], s, n)
        ELSE IF /\ kept.src.lease = item.lease /\ kept.src.permits = {}
                /\ kept.src.confirmedSequence <= s /\ kept.src.omissionSequence <= s
            THEN revokeLocked(kept, item.lease, NoIdentity, s, n)
        ELSE kept
    BY DEF Accepted
<1> HIDE DEF item, s, listed, kept
<1> QED
    BY <1>4, <1>5, <1>6

\* The sections that install nothing.
LEMMA OtherSections ==
    ASSUME GateTypeOK, GateTypeOK', ExpiryInv, now' = now, hold' = hold,
           \A r \in wire' : r \in wire \/ r.started = now, answers' \subseteq answers,
           call' = None \/ call' = call \/ call'.stage # "accept",
           \A u \in Users : SameDeadline(gate[u], gate'[u]),
           \A u \in Users : FlightRuns(now, hold[u], u, flight'[u])
    PROVE  ExpiryInv'
<1>1. CallRuns(now, hold, call')
    BY ExpiryNow DEF CallRuns
<1>2. \A u \in Users : SourceRuns(now, hold[u], gate'[u])
    BY ExpiryNow DEF SourceRuns, SameDeadline
<1> QED
    BY <1>1, <1>2, NodeExpiry

\* An untouched gate keeps its deadlines.
LEMMA SameGate == gate' = gate => \A u \in Users : SameDeadline(gate[u], gate'[u])
BY DEF SameDeadline

\* An untouched admission keeps what it knows.
LEMMA SameFlights ==
    ASSUME ExpiryInv, flight' = flight
    PROVE  \A u \in Users : FlightRuns(now, hold[u], u, flight'[u])
BY ExpiryNow

\* Only the admission of one account changes.
LEMMA OneFlight ==
    ASSUME GateTypeOK, ExpiryInv, NEW u \in Users, NEW f, flight' = [flight EXCEPT ![u] = f],
           FlightRuns(now, hold[u], u, f)
    PROVE  \A v \in Users : FlightRuns(now, hold[v], v, flight'[v])
<1>1. \A v \in Users : flight'[v] = IF v = u THEN f ELSE flight[v]
    BY DEF GateTypeOK
<1> QED
    BY <1>1, ExpiryNow

\* No admission, nothing to keep.
LEMMA NoFlightRuns == ASSUME NEW n, NEW h, NEW u PROVE FlightRuns(n, h, u, None)
BY DEF FlightRuns

\* A synchronisation begins (Sync): no lease outlives the panel's.
LEMMA BeginExpiry ==
    ASSUME GateTypeOK, GateTypeOK', ExpiryInv, begin
    PROVE  ExpiryInv'
<1>1. /\ now' = now /\ hold' = hold /\ wire' = wire /\ answers' = answers /\ call' = call
      /\ flight' = flight
    BY DEF begin, netVars
<1>2. ASSUME NEW u \in Users PROVE SameDeadline(gate[u], gate'[u])
    <2>1. gate[u] \in UserGates /\ (gate'[u] = gate[u] \/ gate'[u] = [gate[u] EXCEPT !.barrier = 0])
        BY DEF GateTypeOK, begin
    <2> QED
        BY <2>1 DEF UserGates, SameDeadline
<1> QED
    BY <1>1, <1>2, SameFlights, OtherSections

\* The gate stops (Stop): no lease outlives the panel's.
LEMMA StopExpiry ==
    ASSUME GateTypeOK, GateTypeOK', ExpiryInv, Stop
    PROVE  ExpiryInv'
<1>1. /\ now' = now /\ hold' = hold /\ wire' = wire /\ answers' = answers /\ call' = call
      /\ flight' = flight
    BY DEF Stop, netVars, panelVars
<1>2. ASSUME NEW u \in Users PROVE SameDeadline(gate[u], gate'[u])
    <2>1. gate[u] \in UserGates /\ gate'[u] = Closed(gate[u], seq + 1)
        BY DEF GateTypeOK, Stop
    <2> QED
        BY <2>1, ClosedDeadline
<1> QED
    BY <1>1, <1>2, SameFlights, OtherSections

\* Permits do not touch the deadline.
LEMMA PermitDeadline ==
    ASSUME GateTypeOK, NEW u \in Users, Source(u) # None, NEW cs \in SUBSET Conns,
           gate' = AddPermits(u, cs)
    PROVE  \A v \in Users : SameDeadline(gate[v], gate'[v])
<1>1. gate[u] \in UserGates /\ gate[u].src \in Sources /\ gate[u].src # None
    BY DEF GateTypeOK, UserGates, Source
<1>2. gate' = [gate EXCEPT ![u] = [gate[u] EXCEPT !.src =
            [gate[u].src EXCEPT !.permits = gate[u].src.permits \cup cs]]]
    BY <1>1 DEF AddPermits, GateTypeOK, UserGates, Sources
<1> DEFINE g == [gate[u] EXCEPT !.src =
                    [gate[u].src EXCEPT !.permits = gate[u].src.permits \cup cs]]
<1>3. SameDeadline(gate[u], g)
    BY <1>1 DEF UserGates, Sources, SameDeadline
<1>4. \A v \in Users : gate'[v] = IF v = u THEN g ELSE gate[v]
    BY <1>2 DEF GateTypeOK
<1> HIDE DEF g
<1> QED
    BY <1>3, <1>4 DEF SameDeadline

\* A connection asks for a permit (Acquire): no lease outlives the panel's.
LEMMA AcquireExpiry ==
    ASSUME GateTypeOK, GateTypeOK', ExpiryInv, NEW c \in Conns, NEW u \in Users, Acquire(c, u)
    PROVE  ExpiryInv'
<1>1. now' = now /\ hold' = hold /\ wire' = wire /\ answers' = answers /\ call' = call
    BY DEF Acquire, netVars, panelVars
<1>2. \A v \in Users : SameDeadline(gate[v], gate'[v])
    <2>1. Usable(Source(u)) => Source(u) # None
        BY DEF Usable, Live
    <2> QED
        BY <2>1, PermitDeadline, SameGate DEF Acquire
<1>3. \A v \in Users : FlightRuns(now, hold[v], v, flight'[v])
    <2>1. CASE flight' = flight
        BY <2>1, SameFlights
    <2>2. CASE Busy(u) /\ flight' = [flight EXCEPT ![u] =
                  [flight[u] EXCEPT !.waiters = flight[u].waiters \cup {c}]]
        <3> DEFINE f == [flight[u] EXCEPT !.waiters = flight[u].waiters \cup {c}]
        <3>1. flight[u] \in Flights
            BY <2>2, FlightType
        <3>2. f.req = flight[u].req /\ f.stage = flight[u].stage /\ f.item = flight[u].item
            BY <3>1 DEF Flights
        <3>3. FlightRuns(now, hold[u], u, flight[u]) /\ flight[u] # None
            BY <2>2, ExpiryNow DEF Busy
        <3> HIDE DEF f
        <3>4. FlightRuns(now, hold[u], u, f)
            BY <3>2, <3>3 DEF FlightRuns
        <3> QED
            BY <2>2, <3>4, OneFlight DEF f
    <2>3. CASE flight' = [flight EXCEPT ![u] = NewFlight(c)]
        <3>1. NewFlight(c).req = None /\ NewFlight(c).stage = "ready"
            BY DEF NewFlight
        <3>2. FlightRuns(now, hold[u], u, NewFlight(c))
            BY <3>1 DEF FlightRuns
        <3> QED
            BY <2>3, <3>2, OneFlight
    <2> QED
        BY <2>1, <2>2, <2>3 DEF Acquire
<1> QED
    BY <1>1, <1>2, <1>3, OtherSections

\* A waiting connection gives up (Acquire, cancelled): no lease outlives the panel's.
LEMMA CancelWaitExpiry ==
    ASSUME GateTypeOK, GateTypeOK', ExpiryInv, NEW c \in Conns, NEW u \in Users, CancelWait(c, u)
    PROVE  ExpiryInv'
<1>1. now' = now /\ hold' = hold /\ wire' = wire /\ answers' = answers /\ call' = call /\ gate' = gate
    BY DEF CancelWait, netVars, panelVars
<1> DEFINE w == flight[u].waiters \ {c}
           b == flight[u].abandoned \/ flight[u].waiters = {c}
           f == [flight[u] EXCEPT !.waiters = w, !.abandoned = b]
<1>2. flight[u] \in Flights /\ flight[u] # None
    BY FlightType DEF CancelWait, Busy
<1>3. flight' = [flight EXCEPT ![u] = f]
    BY <1>2 DEF CancelWait, GateTypeOK, Flights
<1> HIDE DEF w, b
<1>4. f.req = flight[u].req /\ f.stage = flight[u].stage /\ f.item = flight[u].item
    BY <1>2 DEF Flights
<1> HIDE DEF f
<1>5. FlightRuns(now, hold[u], u, f)
    BY <1>2, <1>4, ExpiryNow DEF FlightRuns
<1>6. \A v \in Users : FlightRuns(now, hold[v], v, flight'[v])
    BY <1>3, <1>5, OneFlight
<1> QED
    BY <1>1, <1>6, SameGate, OtherSections

\* A connection closes (Release): no lease outlives the panel's.
LEMMA ReleaseExpiry ==
    ASSUME GateTypeOK, GateTypeOK', ExpiryInv, NEW c \in Conns, NEW u \in Users, Release(c, u)
    PROVE  ExpiryInv'
<1>1. /\ now' = now /\ hold' = hold /\ wire' = wire /\ answers' = answers /\ call' = call
      /\ flight' = flight
    BY DEF Release, netVars, panelVars
<1> DEFINE g == [gate[u] EXCEPT !.src.permits = @ \ {c}]
<1>2. gate[u] \in UserGates /\ gate[u].src \in Sources /\ gate[u].src # None
    BY DEF Release, GateTypeOK, UserGates, Source
<1>3. g = [gate[u] EXCEPT !.src = [gate[u].src EXCEPT !.permits = gate[u].src.permits \ {c}]]
    BY <1>2 DEF UserGates, Sources
<1>4. g \in UserGates /\ SameDeadline(gate[u], g)
    BY <1>2, <1>3 DEF UserGates, Sources, SameDeadline
<1>5. \/ gate' = [gate EXCEPT ![u] = removeSourceLocked(g, seq + 1)]
      \/ gate' = [gate EXCEPT ![u] = g]
    BY DEF Release
<1> HIDE DEF g
<1>6. ASSUME NEW v \in Users PROVE SameDeadline(gate[v], gate'[v])
    <2>1. gate'[v] \in (IF v = u THEN {g, removeSourceLocked(g, seq + 1)} ELSE {gate[v]})
        BY <1>5 DEF GateTypeOK
    <2> QED
        BY <1>4, <2>1, RemoveLeaves DEF SameDeadline
<1> QED
    BY <1>1, <1>6, SameFlights, OtherSections

\* A lease expires on the node (expireLocked): no lease outlives the panel's.
LEMMA ExpireExpiry ==
    ASSUME GateTypeOK, GateTypeOK', ExpiryInv, NEW u \in Users, expireSource(u)
    PROVE  ExpiryInv'
<1>1. /\ now' = now /\ hold' = hold /\ wire' = wire /\ answers' = answers /\ call' = call
      /\ flight' = flight
    BY DEF expireSource, netVars, panelVars
<1>2. ASSUME NEW v \in Users PROVE SameDeadline(gate[v], gate'[v])
    <2>1. gate[v] \in UserGates
          /\ gate'[v] = IF v = u THEN removeSourceLocked(gate[u], seq + 1) ELSE gate[v]
        BY DEF expireSource, GateTypeOK
    <2> QED
        BY <2>1, RemoveLeaves DEF SameDeadline
<1> QED
    BY <1>1, <1>2, SameFlights, OtherSections

\* Giving a request up adds nothing to the network.
LEMMA GiveUpNet ==
    ASSUME NEW req, GiveUp(req)
    PROVE  wire' \subseteq wire /\ answers' \subseteq answers
BY DEF GiveUp, Forget

\* An admission is sent (cachedAttempt): no lease outlives the panel's.
LEMMA AdmitSendExpiry ==
    ASSUME GateTypeOK, GateTypeOK', ExpiryInv, NEW u \in Users, AdmitSend(u)
    PROVE  ExpiryInv'
<1> DEFINE req == Snapshot("admit", u)
           f == [flight[u] EXCEPT !.stage = "sent", !.req = req]
<1>1. /\ now' = now /\ hold' = hold /\ answers' = answers /\ call' = call /\ gate' = gate
      /\ wire' = wire \cup {req}
    BY DEF AdmitSend, panelVars
<1>2. req.started = now /\ req.user = u
    BY DEF Snapshot
<1>3. flight[u] \in Flights
    BY FlightType DEF AdmitSend
<1>4. flight' = [flight EXCEPT ![u] = f]
    BY <1>3 DEF AdmitSend, GateTypeOK, Flights
<1> HIDE DEF req
<1>5. f.req = req /\ f.stage = "sent"
    BY <1>3 DEF Flights
<1> HIDE DEF f
<1>6. FlightRuns(now, hold[u], u, f)
    BY <1>2, <1>5 DEF FlightRuns
<1>7. \A v \in Users : FlightRuns(now, hold[v], v, flight'[v])
    BY <1>4, <1>6, OneFlight
<1> QED
    BY <1>1, <1>2, <1>7, SameGate, OtherSections

\* An admission fails on the way (requestCached): no lease outlives the panel's.
LEMMA AdmitErrorExpiry ==
    ASSUME GateTypeOK, GateTypeOK', ExpiryInv, NEW u \in Users, AdmitError(u)
    PROVE  ExpiryInv'
<1>1. now' = now /\ hold' = hold /\ call' = call /\ gate' = gate
    BY DEF AdmitError, panelVars
<1>2. wire' \subseteq wire /\ answers' \subseteq answers
    BY GiveUpNet DEF AdmitError, netVars
<1>3. \A v \in Users : FlightRuns(now, hold[v], v, flight'[v])
    BY OneFlight, NoFlightRuns DEF AdmitError, AdmitFails
<1> QED
    BY <1>1, <1>2, <1>3, SameGate, OtherSections

\* A granted admission serves who waits (admit): no lease outlives the panel's.
LEMMA AdmitGrantExpiry ==
    ASSUME GateTypeOK, GateTypeOK', ExpiryInv, NEW u \in Users, admit(u)
    PROVE  ExpiryInv'
<1>1. now' = now /\ hold' = hold /\ wire' = wire /\ answers' = answers /\ call' = call
    BY DEF admit, netVars, panelVars
<1>2. flight[u].waiters \in SUBSET Conns
    BY FlightType DEF admit
<1>3. Usable(Source(u)) => Source(u) # None
    BY DEF Usable, Live
<1>4. \A v \in Users : SameDeadline(gate[v], gate'[v])
    BY <1>2, <1>3, PermitDeadline, SameGate DEF admit
<1>5. \A v \in Users : FlightRuns(now, hold[v], v, flight'[v])
    BY OneFlight, NoFlightRuns DEF admit
<1> QED
    BY <1>1, <1>4, <1>5, OtherSections

\* Losing the session with the panel extends no deadline (loseSession).
LEMMA LoseDeadline ==
    ASSUME GateTypeOK, NEW r, loseSession(r)
    PROVE  \A u \in Users : SameDeadline(gate[u], gate'[u])
<1>a. CASE run = r
    <2>1. ASSUME NEW u \in Users PROVE SameDeadline(gate[u], gate'[u])
        <3>1. gate[u] \in UserGates /\ gate'[u] = Closed(gate[u], seq + 1)
            BY <1>a DEF loseSession, GateTypeOK
        <3> QED
            BY <3>1, ClosedDeadline
    <2> QED
        BY <2>1
<1>b. CASE run # r
    <2>1. gate' = gate
        BY <1>b DEF loseSession
    <2> QED
        BY <2>1, SameGate
<1> QED
    BY <1>a, <1>b

\* The panel's answer to an admission arrives (requestCached): no lease outlives the panel's.
LEMMA AdmitAnswerExpiry ==
    ASSUME GateTypeOK, GateTypeOK', ExpiryInv, NEW u \in Users, NEW a \in answers, AdmitAnswer(u, a)
    PROVE  ExpiryInv'
<1> DEFINE g == IF run = a.req.run THEN Revoked(gate, a.revoked, a.req.seq, seq + 1) ELSE gate
           item == [lease |-> a.item.lease, cs |-> a.item.cs, confirmedAt |-> a.item.confirmedAt,
                    deadline |-> Deadline(a.item, a.time, a.req.started)]
           waiting == [flight[u] EXCEPT !.stage = "ready", !.req = None]
           verify == [flight[u] EXCEPT !.stage = "verify", !.item = item]
<1>1. /\ now' = now /\ hold' = hold /\ wire' = wire /\ answers' \subseteq answers /\ call' = call
    BY DEF AdmitAnswer, Forget, panelVars
<1>2. \A v \in Users : SameDeadline(gate[v], gate'[v])
    <2>a. CASE a.status = "lost"
        BY <2>a, LoseDeadline DEF AdmitAnswer
    <2>b. CASE a.status # "lost"
        <3>0. seq + 1 \in Nat /\ run \in Nat /\ now \in Nat /\ gate \in [Users -> UserGates]
            BY DEF GateTypeOK
        <3>1. gate' = confirmSnapshot(g, a.req, u)
            BY <2>b DEF AdmitAnswer
        <3>2. g \in [Users -> UserGates] /\ \A v \in Users : SameDeadline(gate[v], g[v])
            <4>1. CASE run = a.req.run
                BY <3>0, <4>1, AnswerParts, RevokedType, RevokedAllDeadline
            <4>2. CASE run # a.req.run
                BY <3>0, <4>2 DEF SameDeadline
            <4> QED
                BY <4>1, <4>2
        <3> HIDE DEF g
        <3>3. \A v \in Users : gate'[v].src = g[v].src
            BY <3>1, <3>2, ConfirmLeaves
        <3> QED
            BY <3>2, <3>3 DEF SameDeadline
    <2> QED
        BY <2>a, <2>b
<1>3. flight[u] \in Flights /\ flight[u].req = a.req /\ flight[u] # None
      /\ flight \in [Users -> Flights \cup {None}]
    BY FlightType DEF AdmitAnswer, GateTypeOK, Busy
<1>4. \/ flight' = [flight EXCEPT ![u] = None]
      \/ flight' = [flight EXCEPT ![u] = waiting]
      \/ a.status = "allowed" /\ flight' = [flight EXCEPT ![u] = verify]
    BY DEF AdmitAnswer, AdmitFails
<1>5. FlightRuns(now, hold[u], u, waiting)
    <2>1. waiting.req = None /\ waiting.stage = "ready"
        BY <1>3 DEF Flights
    <2> QED
        BY <2>1 DEF FlightRuns
<1>6. ASSUME a.status = "allowed" PROVE FlightRuns(now, hold[u], u, verify)
    <2>1. a.item \in Items /\ a.item # None /\ a.req.started \in Nat /\ a.time \in Nat
          /\ a.req \in Requests
        BY <1>6, AnswerParts, NoneAssumption
    <2>2. a.req.user = u
        BY <1>3, <2>1, ExpiryNow, NoneAssumption DEF FlightRuns
    <2>3. a.req.started <= a.time /\ a.item.user = u /\ Runs(now, hold[u], a.item.expiresAt)
        BY <2>1, <2>2, ExpiryNow DEF AnswerRuns, ItemsOf
    <2>4. now \in Nat /\ hold[u] \in Holds \cup {None}
        BY DEF GateTypeOK
    <2>5. Runs(now, hold[u], Deadline(a.item, a.time, a.req.started))
        BY <2>1, <2>3, <2>4, DeadlineRuns
    <2>6. item.deadline = Deadline(a.item, a.time, a.req.started)
        OBVIOUS
    <2> HIDE DEF item
    <2>7. verify.req = flight[u].req /\ verify.item = item
        BY <1>3 DEF Flights
    <2> QED
        BY <1>3, <2>2, <2>5, <2>6, <2>7 DEF FlightRuns
<1> HIDE DEF waiting, verify
<1>7. \A v \in Users : FlightRuns(now, hold[v], v, flight'[v])
    BY <1>4, <1>5, <1>6, OneFlight, NoFlightRuns
<1> QED
    BY <1>1, <1>2, <1>7, OtherSections

\* An admission installs its lease (installLeaseLocked): no lease outlives the panel's.
LEMMA AdmitInstallExpiry ==
    ASSUME GateTypeOK, GateTypeOK', ExpiryInv, NEW u \in Users, AdmitInstall(u)
    PROVE  ExpiryInv'
<1> DEFINE f == flight[u]
           g == Installed(gate[u], f.item, f.req.seq, seq + 1)
           h == Admitted(gate[u], f.item, f.req.seq, seq + 1)
<1>1. /\ f # None /\ f \in Flights /\ f.item \in Grants /\ f.req \in Requests
      /\ f.stage = "verify"
    BY FlightType DEF AdmitInstall, Busy
<1>2. gate[u] \in UserGates /\ seq + 1 \in Nat /\ run \in Nat /\ f.req.seq \in Nat
      /\ gate \in [Users -> UserGates] /\ flight \in [Users -> Flights \cup {None}]
    BY <1>1 DEF GateTypeOK, Requests
<1>3. f.item.lease \in Leases /\ f.item.cs \in Nat /\ f.item.confirmedAt \in Nat
      /\ f.item.deadline \in Int
    BY <1>1 DEF Grants
<1>4. SourceRuns(now, hold[u], gate[u]) /\ Runs(now, hold[u], f.item.deadline)
    BY <1>1, ExpiryNow DEF FlightRuns
<1>5. /\ now' = now /\ hold' = hold /\ wire' = wire /\ answers' = answers /\ call' = call
      /\ \/ gate' \in {[gate EXCEPT ![u] = h]} /\ flight' = [flight EXCEPT ![u].stage = "granted"]
         \/ gate' \in {gate, [gate EXCEPT ![u] = g]} /\ flight' = [flight EXCEPT ![u] = None]
    BY DEF AdmitInstall, Installed, Admitted, netVars, panelVars
<1>6. SourceRuns(now, hold[u], g) /\ g \in UserGates /\ g.src \in Sources
    BY <1>2, <1>3, <1>4, InstallDeadline, InstallType DEF Installed
<1>7. SourceRuns(now, hold[u], h)
    <2>1. h = [g EXCEPT !.src.omissionSequence = seq + 1]
        BY DEF Admitted
    <2> HIDE DEF g, h
    <2>2. h.src.deadline = g.src.deadline
        BY <1>6, <2>1 DEF UserGates, Sources
    <2> QED
        BY <1>6, <2>2, NoneAssumption DEF SourceRuns
<1>8. \A v \in Users : FlightRuns(now, hold[v], v, flight'[v])
    <2> DEFINE k == [f EXCEPT !.stage = "granted"]
    <2>1. k.req = f.req /\ k.stage = "granted"
        BY <1>1 DEF Flights
    <2>2. flight' = [flight EXCEPT ![u] = k] \/ flight' = [flight EXCEPT ![u] = None]
        BY <1>5
    <2> HIDE DEF k
    <2>3. FlightRuns(now, hold[u], u, k)
        BY <1>1, <2>1, ExpiryNow DEF FlightRuns
    <2> QED
        BY <2>2, <2>3, OneFlight, NoFlightRuns
<1> HIDE DEF g, h
<1>9. ASSUME NEW v \in Users PROVE SourceRuns(now, hold[v], gate'[v])
    <2>1. gate'[v] = gate[v] \/ (v = u /\ gate'[v] \in {g, h})
        BY <1>2, <1>5
    <2> QED
        BY <1>6, <1>7, <2>1, ExpiryNow
<1>10. CallRuns(now, hold, call')
    BY <1>5, ExpiryNow
<1> QED
    BY <1>5, <1>8, <1>9, <1>10, NodeExpiry

\* A synchronisation is sent (Sync): no lease outlives the panel's.
LEMMA SyncSendExpiry ==
    ASSUME GateTypeOK, GateTypeOK', ExpiryInv, SyncSend
    PROVE  ExpiryInv'
<1> DEFINE req == Snapshot("sync", None)
<1>1. /\ now' = now /\ hold' = hold /\ answers' = answers /\ gate' = gate /\ flight' = flight
      /\ wire' = wire \cup {req}
      /\ call' = [stage |-> "sent", req |-> req, answer |-> None, final |-> closing]
    BY DEF SyncSend, panelVars
<1>2. req.started = now
    BY DEF Snapshot
<1> HIDE DEF req
<1>3. call'.stage # "accept"
    BY <1>1
<1> QED
    BY <1>1, <1>2, <1>3, SameGate, SameFlights, OtherSections

\* A synchronisation fails on the way (Sync): no lease outlives the panel's.
LEMMA SyncErrorExpiry ==
    ASSUME GateTypeOK, GateTypeOK', ExpiryInv, SyncError
    PROVE  ExpiryInv'
<1>1. now' = now /\ hold' = hold /\ call' = None /\ gate' = gate /\ flight' = flight
    BY DEF SyncError, panelVars
<1>2. wire' \subseteq wire /\ answers' \subseteq answers
    BY GiveUpNet DEF SyncError, netVars
<1> QED
    BY <1>1, <1>2, SameGate, SameFlights, OtherSections

\* The answer to a synchronisation arrives (Sync): no lease outlives the panel's.
LEMMA SyncAnswerExpiry ==
    ASSUME GateTypeOK, GateTypeOK', ExpiryInv, NEW a \in answers, SyncAnswer(a)
    PROVE  ExpiryInv'
<1>1. /\ now' = now /\ hold' = hold /\ wire' = wire /\ answers' \subseteq answers
      /\ flight' = flight
    BY DEF SyncAnswer, Forget, panelVars
<1>2. \A v \in Users : SameDeadline(gate[v], gate'[v])
    <2>a. CASE a.status = "lost"
        BY <2>a, LoseDeadline DEF SyncAnswer
    <2>b. CASE a.status # "lost"
        <3>0. seq + 1 \in Nat /\ run \in Nat /\ now \in Nat /\ gate \in [Users -> UserGates]
            BY DEF GateTypeOK
        <3>1. \/ gate' = Revoked(gate, a.revoked, a.req.seq, seq + 1)
              \/ gate' = gate
            BY <2>b DEF SyncAnswer
        <3>2. \A v \in Users :
                  SameDeadline(gate[v], Revoked(gate, a.revoked, a.req.seq, seq + 1)[v])
            BY <3>0, AnswerParts, RevokedAllDeadline
        <3> QED
            BY <3>1, <3>2, SameGate
    <2> QED
        BY <2>a, <2>b
<1>3. CallRuns(now, hold, call')
    <2>1. call' = None \/ call' = [call EXCEPT !.stage = "accept", !.answer = a]
        BY DEF SyncAnswer
    <2>2. call \in Calls
        BY CallType DEF SyncAnswer
    <2>3. [call EXCEPT !.stage = "accept", !.answer = a].answer = a
        BY <2>2 DEF Calls
    <2>4. AnswerRuns(now, hold, a)
        BY ExpiryNow
    <2> QED
        BY <2>1, <2>3, <2>4 DEF CallRuns
<1>4. \A u \in Users : SourceRuns(now, hold[u], gate'[u])
    BY <1>2, ExpiryNow DEF SourceRuns, SameDeadline
<1> QED
    BY <1>1, <1>3, <1>4, SameFlights, NodeExpiry

\* An account of the answer is accepted (acceptLeases): no lease outlives the panel's.
LEMMA AcceptExpiry ==
    ASSUME GateTypeOK, GateTypeOK', ExpiryInv, acceptLeases
    PROVE  ExpiryInv'
<1> DEFINE a == call.answer
           g == [u \in Users |-> Accepted(u, gate[u], a, seq + 1)]
<1>1. /\ now' = now /\ hold' = hold /\ wire' = wire /\ answers' = answers /\ flight' = flight
    BY DEF acceptLeases, netVars, panelVars
<1>2. call # None /\ call \in Calls /\ call.stage = "accept" /\ a \in Answers
    BY CallType DEF acceptLeases
<1>3. AnswerRuns(now, hold, a)
    BY <1>2, ExpiryNow DEF CallRuns
<1>4. gate' \in {g, gate} /\ (call' = None \/ call' = [call EXCEPT !.stage = "confirm"])
    BY DEF acceptLeases
<1>5. call' = None \/ call'.stage = "confirm"
    <2>1. [call EXCEPT !.stage = "confirm"].stage = "confirm"
        BY <1>2 DEF Calls
    <2> QED
        BY <1>4, <2>1
<1>6. ASSUME NEW u \in Users PROVE SourceRuns(now, hold[u], g[u])
    <2>1. /\ gate[u] \in UserGates /\ seq + 1 \in Nat /\ run \in Nat /\ now \in Nat
          /\ hold \in [Users -> Holds \cup {None}] /\ SourceRuns(now, hold[u], gate[u])
        BY ExpiryNow DEF GateTypeOK
    <2>2. SourceRuns(now, hold[u], Accepted(u, gate[u], a, seq + 1))
        BY <1>2, <1>3, <2>1, AcceptedRuns
    <2> QED
        BY <2>2
<1> HIDE DEF g
<1>7. \A u \in Users : SourceRuns(now, hold[u], gate'[u])
    BY <1>4, <1>6, ExpiryNow
<1>8. CallRuns(now, hold, call')
    BY <1>5 DEF CallRuns
<1> QED
    BY <1>1, <1>7, <1>8, SameFlights, NodeExpiry

\* The closed leases are confirmed (confirmSnapshot): no lease outlives the panel's.
LEMMA SyncConfirmExpiry ==
    ASSUME GateTypeOK, GateTypeOK', ExpiryInv, SyncConfirm
    PROVE  ExpiryInv'
<1>1. /\ now' = now /\ hold' = hold /\ wire' = wire /\ answers' = answers /\ flight' = flight
      /\ call' = None
    BY DEF SyncConfirm, netVars, panelVars
<1>2. \A v \in Users : SameDeadline(gate[v], gate'[v])
    BY ConfirmLeaves DEF SyncConfirm, GateTypeOK, SameDeadline
<1> QED
    BY <1>1, <1>2, SameFlights, OtherSections

\* The list of users changes (SetUsers): no lease outlives the panel's.
LEMMA SetUsersExpiry ==
    ASSUME GateTypeOK, GateTypeOK', ExpiryInv, NEW allowed \in SUBSET Users, SetUsers(allowed)
    PROVE  ExpiryInv'
<1>1. /\ now' = now /\ hold' = hold /\ wire' = wire /\ answers' = answers /\ flight' = flight
      /\ call' = call
    BY DEF SetUsers, netVars, panelVars
<1>2. ASSUME NEW u \in Users PROVE SameDeadline(gate[u], gate'[u])
    <2> DEFINE b == [gate[u] EXCEPT !.barrier = seq + 1]
    <2>1. gate[u] \in UserGates /\ seq + 1 \in Nat /\ now \in Nat
        BY DEF GateTypeOK
    <2>2. b \in UserGates /\ b.src = gate[u].src
        BY <2>1 DEF UserGates
    <2>3. \/ gate'[u] = Purge(gate[u])
          \/ gate'[u] = Purge(b)
          \/ /\ gate[u].src # None
             /\ gate'[u] = revokeLocked(b, gate[u].src.lease, NoIdentity, 0, seq + 1)
        BY DEF SetUsers, Source
    <2>4. gate[u].src # None => gate[u].src.lease \in Leases
        BY <2>1 DEF UserGates, Sources
    <2> HIDE DEF b
    <2>5. gate[u].src # None =>
              SameDeadline(b, revokeLocked(b, gate[u].src.lease, NoIdentity, 0, seq + 1))
        BY <2>1, <2>2, <2>4, RevokeDeadline
    <2>6. Purge(gate[u]).src = gate[u].src /\ Purge(b).src = b.src
        BY <2>1, <2>2, PurgeMoves
    <2> QED
        BY <2>2, <2>3, <2>5, <2>6 DEF SameDeadline
<1> QED
    BY <1>1, <1>2, SameFlights, OtherSections

-----------------------------------------------------------------------------
(***************************************************************************)
(* The clock and the panel: the node stands still.                         *)
(***************************************************************************)
LEMMA ElsewhereExpiry ==
    ASSUME GateTypeOK, GateTypeOK', ExpiryInv, now' \in {now, now + 1},
           Later(now, hold, now', hold'), wire' \subseteq wire,
           UNCHANGED <<gate, flight, call>>,
           \A a \in answers' : a \in answers \/ AnswerRuns(now', hold', a)
    PROVE  ExpiryInv'
<1>1. CallRuns(now, hold, call')
    BY ExpiryNow DEF CallRuns
<1>2. \A u \in Users : SourceRuns(now, hold[u], gate'[u]) /\ FlightRuns(now, hold[u], u, flight'[u])
    BY ExpiryNow
<1> QED
    BY <1>1, <1>2, ExpiryKept

\* An answer of the panel, which is given at the time it stands in.
LEMMA AnswerExpiry ==
    ASSUME GateTypeOK, GateTypeOK', ExpiryInv, NEW req \in wire, NEW a, Answer(req, a),
           Later(now, hold, now, hold'), a.req = req, a.time = now,
           \A i \in ItemsOf(a) : i.user \in Users /\ hold'[i.user] # None
                                 /\ i.expiresAt = hold'[i.user].expiresAt,
           a.item # None => a.item.user = req.user
    PROVE  ExpiryInv'
<1>1. /\ now' = now /\ wire' \subseteq wire /\ UNCHANGED <<gate, flight, call>>
      /\ answers' \subseteq answers \cup {a}
    BY DEF Answer
<1>2. ASSUME NEW u \in Users, hold'[u] # None PROVE hold'[u].expiresAt <= now + Grace
    <2>1. hold[u] # None => hold[u].expiresAt <= now + Grace
        BY ExpiryIs DEF Expiry
    <2>2. hold'[u].expiresAt \in Int /\ now + Grace \in Int
        BY <1>2, Numbers DEF GateTypeOK, Holds
    <2> QED
        BY <1>2, <2>1, <2>2 DEF Later
<1>3. ASSUME NEW i \in ItemsOf(a) PROVE Runs(now, hold'[i.user], i.expiresAt)
    <2>1. hold'[i.user].expiresAt \in Int
        BY <1>3 DEF GateTypeOK, Holds
    <2> QED
        BY <1>2, <2>1 DEF Runs
<1>4. req.started <= now
    BY ExpiryNow
<1>5. AnswerRuns(now', hold', a)
    BY <1>1, <1>3, <1>4 DEF AnswerRuns
<1> QED
    BY <1>1, <1>5, ElsewhereExpiry

\* What a node returns does not shorten another node's lease.
LEMMA ReturnsLater == ASSUME GateTypeOK, NEW req PROVE Later(now, hold, now, AfterReturns(req))
BY DEF Later, AfterReturns, GateTypeOK

\* A slot that is confirmed lasts for the grace period from now on.
LEMMA ConfirmExpires ==
    ASSUME NEW h, NEW req
    PROVE  Confirm(h, req).expiresAt = now + Grace
BY DEF Confirm

\* A refusal grants nothing.
LEMMA NoItems ==
    ASSUME NEW req, NEW status
    PROVE  /\ NoAnswer(req, status).leases = {} /\ NoAnswer(req, status).item = None
           /\ NoAnswer(req, status).req = req /\ NoAnswer(req, status).time = now
BY DEF NoAnswer

\* The panel handles a request whose answer is lost: no lease outlives the panel's.
LEMMA PanelLostExpiry ==
    ASSUME GateTypeOK, GateTypeOK', ExpiryInv, NEW req \in wire, PanelLost(req)
    PROVE  ExpiryInv'
<1> DEFINE a == NoAnswer(req, "lost")
<1>1. Answer(req, a) /\ hold' = hold
    BY DEF PanelLost
<1>2. a.item = None /\ a.req = req /\ a.time = now /\ ItemsOf(a) = {}
    BY NoItems DEF ItemsOf
<1>3. Later(now, hold, now, hold')
    BY <1>1 DEF Later
<1> HIDE DEF a
<1> QED
    BY <1>1, <1>2, <1>3, AnswerExpiry

\* The panel admits a node: no lease outlives the panel's.
LEMMA PanelAdmitExpiry ==
    ASSUME GateTypeOK, GateTypeOK', ExpiryInv, NEW req \in wire, PanelAdmit(req)
    PROVE  ExpiryInv'
<1> DEFINE h == AfterReturns(req)
           u == req.user
<1>1. req \in Requests
    BY DEF GateTypeOK
<1>2. h \in [Users -> Holds \cup {None}] /\ u \in Users /\ Later(now, hold, now, h)
    BY <1>1, ReturnsType, ReturnsLater DEF PanelAdmit, Requests
<1> HIDE DEF h
<1>a. CASE /\ hold' = h
           /\ \E status \in {"waiting", "denied"} :
                 Answer(req, [NoAnswer(req, status) EXCEPT !.revoked = RevokedAt(h)])
    <2>1. PICK status \in {"waiting", "denied"} :
            Answer(req, [NoAnswer(req, status) EXCEPT !.revoked = RevokedAt(h)])
        BY <1>a
    <2> DEFINE a == [NoAnswer(req, status) EXCEPT !.revoked = RevokedAt(h)]
    <2>2. a.item = None /\ a.req = req /\ a.time = now /\ a.leases = {}
        BY DEF NoAnswer
    <2>3. Answer(req, a)
        BY <2>1
    <2> HIDE DEF a
    <2>4. ItemsOf(a) = {}
        BY <2>2 DEF ItemsOf
    <2> QED
        BY <1>a, <1>2, <2>2, <2>3, <2>4, AnswerExpiry
<1>b. CASE \E l \in Grantable(h[u]) :
             /\ hold' = [h EXCEPT ![u] =
                   Confirm(IF h[u] = None THEN [lease |-> l, run |-> 0, cs |-> 0] ELSE h[u], req)]
             /\ Answer(req, [NoAnswer(req, "allowed") EXCEPT
                               !.item = Item(u, hold'[u]), !.revoked = RevokedAt(hold')])
    <2>1. PICK l \in Grantable(h[u]) :
             /\ hold' = [h EXCEPT ![u] =
                   Confirm(IF h[u] = None THEN [lease |-> l, run |-> 0, cs |-> 0] ELSE h[u], req)]
             /\ Answer(req, [NoAnswer(req, "allowed") EXCEPT
                               !.item = Item(u, hold'[u]), !.revoked = RevokedAt(hold')])
        BY <1>b
    <2> DEFINE c == Confirm(IF h[u] = None THEN [lease |-> l, run |-> 0, cs |-> 0] ELSE h[u], req)
               a == [NoAnswer(req, "allowed") EXCEPT !.item = Item(u, hold'[u]),
                                                     !.revoked = RevokedAt(hold')]
    <2>2. c \in Holds /\ c.expiresAt = now + Grace
        BY <1>1, <1>2, GrantType, ConfirmExpires
    <2>3. hold' = [h EXCEPT ![u] = c] /\ Answer(req, a)
        BY <2>1
    <2>4. a.item = Item(u, hold'[u]) /\ a.req = req /\ a.time = now /\ a.leases = {}
        BY DEF NoAnswer
    <2> HIDE DEF a, c
    <2>5. hold'[u] = c /\ c # None /\ \A v \in Users : v # u => hold'[v] = h[v]
        BY <1>2, <2>2, <2>3, NoneAssumption
    <2>6. Later(now, hold, now, hold')
        BY <1>2, <2>2, <2>5 DEF Later
    <2>7. /\ a.item.user = u /\ a.item.expiresAt = hold'[u].expiresAt
          /\ ItemsOf(a) \subseteq {a.item}
        BY <2>4 DEF Item, ItemsOf
    <2>8. \A i \in ItemsOf(a) : i.user \in Users /\ hold'[i.user] # None
                                /\ i.expiresAt = hold'[i.user].expiresAt
        BY <1>2, <2>5, <2>7
    <2> QED
        BY <2>3, <2>4, <2>6, <2>7, <2>8, AnswerExpiry
<1> QED
    BY <1>a, <1>b DEF PanelAdmit, h

\* The panel answers a synchronisation: no lease outlives the panel's.
LEMMA PanelSyncExpiry ==
    ASSUME GateTypeOK, GateTypeOK', ExpiryInv, NEW req \in wire, PanelSync(req)
    PROVE  ExpiryInv'
<1> DEFINE h == AfterReturns(req)
           H == [u \in Users |-> IF h[u] # None /\ ~h[u].revoked /\ u \in req.active
                                 THEN Confirm(h[u], req) ELSE h[u]]
           leases == {Item(u, H[u]) : u \in {v \in Users : H[v] # None /\ ~H[v].revoked}}
           a == [NoAnswer(req, "ok") EXCEPT !.leases = leases, !.revoked = RevokedAt(H),
                                            !.idle = {u \in Users : u \notin req.active \cup req.pending}]
<1>1. Later(now, hold, now, h)
    BY ReturnsLater
<1>2. hold' = H /\ Answer(req, a)
    BY DEF PanelSync
<1> HIDE DEF h
<1>3. Later(now, hold, now, H)
    BY <1>1, ConfirmExpires DEF Later
<1>4. a.leases = leases /\ a.item = None /\ a.req = req /\ a.time = now
    BY DEF NoAnswer
<1> HIDE DEF H, a
<1>5. \A i \in ItemsOf(a) : i.user \in Users /\ H[i.user] # None
                            /\ i.expiresAt = H[i.user].expiresAt
    <2>1. ItemsOf(a) = leases
        BY <1>4 DEF ItemsOf
    <2>2. ASSUME NEW i \in leases
          PROVE  i.user \in Users /\ H[i.user] # None /\ i.expiresAt = H[i.user].expiresAt
        <3>1. PICK u \in Users : H[u] # None /\ i = Item(u, H[u])
            BY <2>2
        <3>2. i.user = u /\ i.expiresAt = H[u].expiresAt
            BY <3>1 DEF Item
        <3> QED
            BY <3>1, <3>2
    <2> QED
        BY <2>1, <2>2
<1> HIDE DEF leases
<1> QED
    BY <1>2, <1>3, <1>4, <1>5, AnswerExpiry

\* Another address takes the slot: the lease still runs out when it did.
LEMMA PanelRevokesExpiry ==
    ASSUME GateTypeOK, GateTypeOK', ExpiryInv, NEW u \in Users, PanelRevokes(u)
    PROVE  ExpiryInv'
<1>1. /\ now' = now /\ wire' = wire /\ answers' = answers /\ UNCHANGED <<gate, flight, call>>
      /\ hold' = [hold EXCEPT ![u] = [hold[u] EXCEPT !.revoked = TRUE]] /\ hold[u] # None
    BY DEF PanelRevokes, Held, netVars
<1>2. hold \in [Users -> Holds \cup {None}] /\ hold[u] \in Holds
    BY <1>1 DEF GateTypeOK
<1>3. [hold[u] EXCEPT !.revoked = TRUE].expiresAt = hold[u].expiresAt
    BY <1>2 DEF Holds
<1>4. Later(now, hold, now', hold')
    BY <1>1, <1>2, <1>3 DEF Later
<1> QED
    BY <1>1, <1>4, ElsewhereExpiry

\* The panel gives a lease up: no lease outlives the panel's.
LEMMA PanelForgetsExpiry ==
    ASSUME GateTypeOK, GateTypeOK', ExpiryInv, PanelForgets
    PROVE  ExpiryInv'
<1>1. /\ now' = now /\ wire' = wire /\ answers' = answers /\ UNCHANGED <<gate, flight, call>>
      /\ hold' = hold
    BY DEF PanelForgets, netVars
<1>2. Later(now, hold, now', hold')
    BY <1>1 DEF Later
<1> QED
    BY <1>1, <1>2, ElsewhereExpiry

\* Time passes: no lease outlives the panel's.
LEMMA TickExpiry ==
    ASSUME GateTypeOK, GateTypeOK', ExpiryInv, Tick
    PROVE  ExpiryInv'
<1>1. /\ now' = now + 1 /\ wire' = wire /\ answers' = answers /\ UNCHANGED <<gate, flight, call>>
      /\ hold' = hold
    BY DEF Tick, netVars, panelVars
<1>2. Later(now, hold, now', hold')
    BY <1>1 DEF Later
<1> QED
    BY <1>1, <1>2, ElsewhereExpiry

\* Nothing happens: no lease outlives the panel's.
LEMMA StutterExpiry ==
    ASSUME GateTypeOK, GateTypeOK', ExpiryInv, UNCHANGED gateVars
    PROVE  ExpiryInv'
<1>1. /\ now' = now /\ wire' = wire /\ answers' = answers /\ UNCHANGED <<gate, flight, call>>
      /\ hold' = hold
    BY DEF gateVars
<1>2. Later(now, hold, now', hold')
    BY <1>1 DEF Later
<1> QED
    BY <1>1, <1>2, ElsewhereExpiry

\* Nothing is leased at first.
LEMMA ExpiryInit == GateInit => ExpiryInv
BY DEF GateInit, ExpiryInv, Source, Busy, NoGate

\* Every step keeps the invariant.
LEMMA ExpiryStep == GateTypeOK /\ GateTypeOK' /\ ExpiryInv /\ [GateNext]_gateVars => ExpiryInv'
<1> SUFFICES ASSUME GateTypeOK, GateTypeOK', ExpiryInv, [GateNext]_gateVars PROVE ExpiryInv'
    OBVIOUS
<1>1. CASE begin
    BY <1>1, BeginExpiry
<1>2. CASE Stop
    BY <1>2, StopExpiry
<1>3. CASE Tick
    BY <1>3, TickExpiry
<1>4. CASE PanelForgets
    BY <1>4, PanelForgetsExpiry
<1>5. CASE SyncSend \/ SyncError \/ acceptLeases \/ SyncConfirm
    BY <1>5, SyncSendExpiry, SyncErrorExpiry, AcceptExpiry, SyncConfirmExpiry
<1>6. ASSUME NEW a \in answers, SyncAnswer(a) PROVE ExpiryInv'
    BY <1>6, SyncAnswerExpiry
<1>7. ASSUME NEW u \in Users, NEW c \in Conns, Acquire(c, u) \/ CancelWait(c, u) \/ Release(c, u)
      PROVE  ExpiryInv'
    BY <1>7, AcquireExpiry, CancelWaitExpiry, ReleaseExpiry
<1>8. ASSUME NEW u \in Users, AdmitSend(u) \/ AdmitError(u) \/ AdmitInstall(u) \/ admit(u)
      PROVE  ExpiryInv'
    BY <1>8, AdmitSendExpiry, AdmitErrorExpiry, AdmitInstallExpiry, AdmitGrantExpiry
<1>9. ASSUME NEW u \in Users, NEW a \in answers, AdmitAnswer(u, a) PROVE ExpiryInv'
    BY <1>9, AdmitAnswerExpiry
<1>10. ASSUME NEW u \in Users, expireSource(u) PROVE ExpiryInv'
    BY <1>10, ExpireExpiry
<1>11. ASSUME NEW u \in Users, PanelRevokes(u) PROVE ExpiryInv'
    BY <1>11, PanelRevokesExpiry
<1>12. ASSUME NEW allowed \in SUBSET Users, SetUsers(allowed) PROVE ExpiryInv'
    BY <1>12, SetUsersExpiry
<1>13. ASSUME NEW req \in wire, PanelLost(req) \/ PanelAdmit(req) \/ PanelSync(req)
       PROVE  ExpiryInv'
    BY <1>13, PanelLostExpiry, PanelAdmitExpiry, PanelSyncExpiry
<1>14. CASE UNCHANGED gateVars
    BY <1>14, StutterExpiry
<1> QED
    BY <1>1, <1>2, <1>3, <1>4, <1>5, <1>6, <1>7, <1>8, <1>9, <1>10, <1>11, <1>12, <1>13, <1>14
       DEF GateNext

\* Whatever is under way for a user, an answer, an admission that is being
\* verified, an answer that is being applied, or a source, runs out no later
\* than the lease the panel holds.
THEOREM ExpiryInvHolds == GateSpec => []ExpiryInv
BY ExpiryInit, ExpiryStep, GateTypesCorrect, PTL DEF GateSpec

\* The node never admits connections under a lease for longer than the panel
\* keeps the slot: validLease counts the time that is left from the start of
\* the request, and an installed deadline is never moved without an answer.
THEOREM LeasesEndInTime == GateSpec => []DeadlineWithinLease
<1>1. ExpiryInv => DeadlineWithinLease
    BY DEF ExpiryInv, DeadlineWithinLease, Within, Live
<1> QED
    BY <1>1, ExpiryInvHolds, PTL

-----------------------------------------------------------------------------
(***************************************************************************)
(* Returns (retireLocked, confirmSnapshot): a lease that is given up is    *)
(* announced until the panel has confirmed it.                             *)
(***************************************************************************)
\* Session r is as new as what the gate g knows of lease l.
Ages(g, l, r) ==
    /\ g.retired[l] # None => g.retired[l].run <= r
    /\ g.src # None /\ g.src.lease = l => g.src.run <= r

\* What one critical section may do to the return of a lease: leave it, renew
\* it, or put the lease in use.
SameReturn(g, h, l) == h.retired[l] = g.retired[l] /\ (g.src # None => g.src.lease # l)
Renewed(g, h, l, n) ==
    h.retired[l] # None /\ h.retired[l].seq = n /\ Ages(g, l, h.retired[l].run)
Granted(g, h, l) == h.src # None /\ h.src.lease = l /\ Ages(g, l, h.src.run)

\* One account's part of ReturnInv that is not about requests.
Sane(g) ==
    /\ \A l \in Leases : g.retired[l] # None => g.retired[l].run <= runs
    /\ g.src # None => g.retired[g.src.lease] = None /\ g.src.run <= runs

Turns(g, h, n) ==
    /\ Sane(h)
    /\ \A l \in Leases : SameReturn(g, h, l) \/ Renewed(g, h, l, n) \/ Granted(g, h, l)

\* g and h do not differ in what returns are about.
Alike(g, h) ==
    /\ h.retired = g.retired
    /\ g.src = None <=> h.src = None
    /\ g.src # None => h.src.lease = g.src.lease /\ h.src.run = g.src.run

\* The return of a lease and the session of a source.
LEMMA ReturnFields ==
    ASSUME NEW g \in UserGates
    PROVE  /\ \A l \in Leases : g.retired[l] \in Returns \cup {None}
           /\ \A l \in Leases : g.retired[l] # None =>
                 g.retired[l].run \in Nat /\ g.retired[l].cs \in Nat /\ g.retired[l].seq \in Nat
           /\ g.src # None => g.src \in Sources /\ g.src.lease \in Leases /\ g.src.run \in Nat
BY DEF UserGates, Returns, Sources

\* A source that stays keeps its lease, and a lease in use is not returned.
LEMMA AlikeTurns ==
    ASSUME NEW g \in UserGates, NEW h \in UserGates, NEW n, Sane(g), Alike(g, h)
    PROVE  Turns(g, h, n)
<1>1. Sane(h)
    BY DEF Sane, Alike
<1>2. ASSUME NEW l \in Leases PROVE SameReturn(g, h, l) \/ Granted(g, h, l)
    <2>1. CASE g.src # None /\ g.src.lease = l
        BY <2>1, ReturnFields DEF Granted, Ages, Sane, Alike
    <2>2. CASE ~(g.src # None /\ g.src.lease = l)
        BY <2>2 DEF SameReturn, Alike
    <2> QED
        BY <2>1, <2>2
<1> QED
    BY <1>1, <1>2 DEF Turns

\* What one critical section does adds up.
LEMMA TurnsAddUp ==
    ASSUME NEW g \in UserGates, NEW k \in UserGates, NEW h \in UserGates, NEW n,
           Turns(g, k, n), Turns(k, h, n)
    PROVE  Turns(g, h, n)
<1>1. ASSUME NEW l \in Leases
      PROVE  SameReturn(g, h, l) \/ Renewed(g, h, l, n) \/ Granted(g, h, l)
    <2>1. /\ SameReturn(g, k, l) \/ Renewed(g, k, l, n) \/ Granted(g, k, l)
          /\ SameReturn(k, h, l) \/ Renewed(k, h, l, n) \/ Granted(k, h, l)
        BY DEF Turns
    <2>2. ASSUME NEW r \in Nat, Ages(k, l, r) PROVE Ages(g, l, r)
        <3>1. CASE SameReturn(g, k, l)
            BY <2>2, <3>1 DEF SameReturn, Ages
        <3>2. CASE Renewed(g, k, l, n)
            BY <2>2, <3>2, ReturnFields DEF Renewed, Ages
        <3>3. CASE Granted(g, k, l)
            BY <2>2, <3>3, ReturnFields DEF Granted, Ages
        <3> QED
            BY <2>1, <3>1, <3>2, <3>3
    <2>3. CASE Renewed(k, h, l, n)
        BY <2>2, <2>3, ReturnFields DEF Renewed
    <2>4. CASE Granted(k, h, l)
        BY <2>2, <2>4, ReturnFields DEF Granted
    <2>5. CASE SameReturn(k, h, l)
        BY <2>1, <2>5 DEF SameReturn, Renewed, Granted
    <2> QED
        BY <2>1, <2>3, <2>4, <2>5
<1> QED
    BY <1>1 DEF Turns

\* A part that is not about returns may come before ...
LEMMA TurnsAfter ==
    ASSUME NEW g \in UserGates, NEW k \in UserGates, NEW h \in UserGates, NEW n,
           Sane(g), Alike(g, k), Turns(k, h, n)
    PROVE  Turns(g, h, n)
BY AlikeTurns, TurnsAddUp

\* ... or after.
LEMMA TurnsBefore ==
    ASSUME NEW g \in UserGates, NEW k \in UserGates, NEW h \in UserGates, NEW n,
           Turns(g, k, n), Alike(k, h)
    PROVE  Turns(g, h, n)
<1>1. Sane(k)
    BY DEF Turns
<1> QED
    BY <1>1, AlikeTurns, TurnsAddUp

\* What retireLocked writes.
LEMMA RetireGives ==
    ASSUME NEW g \in UserGates, NEW lease \in Leases, NEW id \in [run : Nat, cs : Nat],
           NEW n \in Nat, run \in Nat
    PROVE  \E r \in Returns :
              /\ retireLocked(g, lease, id, n) = [g EXCEPT !.retired[lease] = r]
              /\ r # None /\ r.seq = n
              /\ id.run # 0 => r.run = id.run
              /\ id.run = 0 /\ g.retired[lease] # None => r.run = g.retired[lease].run
              /\ id.run = 0 /\ g.retired[lease] = None => r.run = run
<1> DEFINE item == IF id.run # 0 THEN id
                   ELSE IF g.retired[lease] # None
                        THEN [run |-> g.retired[lease].run, cs |-> g.retired[lease].cs]
                        ELSE [run |-> run, cs |-> id.cs]
           r == [run |-> item.run, cs |-> item.cs, seq |-> n]
<1>1. item \in [run : Nat, cs : Nat]
    BY ReturnFields
<1>2. r \in Returns /\ r.seq = n /\ r.run = item.run
    BY <1>1 DEF Returns
<1>3. retireLocked(g, lease, id, n) = [g EXCEPT !.retired[lease] = r]
    BY DEF retireLocked
<1>4. /\ id.run # 0 => item.run = id.run
      /\ id.run = 0 /\ g.retired[lease] # None => item.run = g.retired[lease].run
      /\ id.run = 0 /\ g.retired[lease] = None => item.run = run
    OBVIOUS
<1> HIDE DEF r, item
<1> QED
    BY <1>2, <1>3, <1>4, NoneAssumption

\* A return beside the source.
LEMMA RetireTurns ==
    ASSUME NEW g \in UserGates, NEW lease \in Leases, NEW id \in [run : Nat, cs : Nat],
           NEW n \in Nat, run \in Nat, runs \in Nat, run <= runs, id.run \in {0, runs},
           Sane(g), g.src # None => g.src.lease # lease
    PROVE  Turns(g, retireLocked(g, lease, id, n), n)
<1>1. PICK r \in Returns :
              /\ retireLocked(g, lease, id, n) = [g EXCEPT !.retired[lease] = r]
              /\ r # None /\ r.seq = n
              /\ id.run # 0 => r.run = id.run
              /\ id.run = 0 /\ g.retired[lease] # None => r.run = g.retired[lease].run
              /\ id.run = 0 /\ g.retired[lease] = None => r.run = run
    BY RetireGives
<1> DEFINE h == retireLocked(g, lease, id, n)
<1>2. /\ h.src = g.src /\ h.retired[lease] = r
      /\ \A l \in Leases : l # lease => h.retired[l] = g.retired[l]
    BY <1>1 DEF UserGates
<1>3. r.run \in Nat /\ r.run <= runs /\ (g.retired[lease] # None => g.retired[lease].run <= r.run)
    BY <1>1, ReturnFields DEF Returns, Sane
<1> HIDE DEF h
<1>4. Sane(h)
    BY <1>2, <1>3, ReturnFields DEF Sane
<1>5. Renewed(g, h, lease, n)
    BY <1>1, <1>2, <1>3 DEF Renewed, Ages
<1>6. ASSUME NEW l \in Leases, l # lease PROVE SameReturn(g, h, l) \/ Granted(g, h, l)
    <2>1. CASE g.src # None /\ g.src.lease = l
        BY <1>2, <1>6, <2>1, ReturnFields DEF Granted, Ages, Sane
    <2>2. CASE ~(g.src # None /\ g.src.lease = l)
        BY <1>2, <1>6, <2>2 DEF SameReturn
    <2> QED
        BY <2>1, <2>2
<1>7. Turns(g, h, n)
    BY <1>4, <1>5, <1>6 DEF Turns
<1> QED
    BY <1>7 DEF h

\* removeSourceLocked returns the lease with its session.
LEMMA RemoveTurns ==
    ASSUME NEW g \in UserGates, NEW n \in Nat, run \in Nat, runs \in Nat, run <= runs,
           Sane(g), g.src # None
    PROVE  Turns(g, removeSourceLocked(g, n), n)
<1> DEFINE b == [g EXCEPT !.src = None]
           id == [run |-> g.src.run, cs |-> g.src.leaseSequence]
           lease == g.src.lease
           h == removeSourceLocked(g, n)
<1>1. b \in UserGates /\ b.src = None /\ b.retired = g.retired
    BY DEF UserGates
<1>2. lease \in Leases /\ id \in [run : Nat, cs : Nat] /\ id.run = g.src.run
    BY DEF UserGates, Sources
<1>3. h = retireLocked(b, lease, id, n)
    BY DEF removeSourceLocked
<1>4. g.retired[lease] = None /\ g.src.run <= runs /\ g.src.run \in Nat
    BY ReturnFields DEF Sane
<1> HIDE DEF b, id, h, lease
<1>5. PICK r \in Returns :
              /\ h = [b EXCEPT !.retired[lease] = r]
              /\ r # None /\ r.seq = n
              /\ id.run # 0 => r.run = id.run
              /\ id.run = 0 /\ b.retired[lease] # None => r.run = b.retired[lease].run
              /\ id.run = 0 /\ b.retired[lease] = None => r.run = run
    BY <1>1, <1>2, <1>3, RetireGives
<1>6. /\ h.src = None /\ h.retired[lease] = r
      /\ \A l \in Leases : l # lease => h.retired[l] = g.retired[l]
    BY <1>1, <1>2, <1>5 DEF UserGates
<1>7. r.run \in Nat /\ r.run <= runs /\ g.src.run <= r.run
    BY <1>1, <1>2, <1>4, <1>5 DEF Returns
<1>8. Sane(h)
    BY <1>6, <1>7, ReturnFields DEF Sane
<1>9. Renewed(g, h, lease, n)
    BY <1>4, <1>5, <1>6, <1>7 DEF Renewed, Ages
<1>10. \A l \in Leases : l # lease => SameReturn(g, h, l)
    BY <1>6 DEF SameReturn, lease
<1>11. Turns(g, h, n)
    BY <1>8, <1>9, <1>10 DEF Turns
<1> QED
    BY <1>11 DEF h

\* A source that is only marked.
LEMMA MarkedAlike ==
    ASSUME NEW g \in UserGates, g.src # None
    PROVE  Alike(g, [g EXCEPT !.src.revoked = TRUE])
<1>1. g.src \in Sources
    BY DEF UserGates
<1>2. [g.src EXCEPT !.revoked = TRUE] \in Sources
    BY <1>1 DEF Sources
<1> QED
    BY <1>1, <1>2, NoneAssumption DEF Alike, UserGates, Sources

\* closeAll.
LEMMA ClosedTurns ==
    ASSUME NEW g \in UserGates, NEW n \in Nat, run \in Nat, runs \in Nat, run <= runs, Sane(g)
    PROVE  Turns(g, Closed(g, n), n)
<1>1. CASE g.src = None
    <2>1. Closed(g, n) = g /\ Alike(g, g)
        BY <1>1 DEF Closed, Alike
    <2> QED
        BY <2>1, AlikeTurns
<1>2. CASE g.src # None /\ g.src.permits = {}
    <2>1. Closed(g, n) = removeSourceLocked(g, n)
        BY <1>2 DEF Closed
    <2> QED
        BY <1>2, <2>1, RemoveTurns
<1>3. CASE g.src # None /\ g.src.permits # {}
    <2>1. Closed(g, n) = [g EXCEPT !.src.revoked = TRUE]
        BY <1>3 DEF Closed
    <2>2. [g EXCEPT !.src.revoked = TRUE] \in UserGates /\ Alike(g, [g EXCEPT !.src.revoked = TRUE])
        BY <1>3, RevokeSourceType, MarkedAlike
    <2> QED
        BY <2>1, <2>2, AlikeTurns
<1> QED
    BY <1>1, <1>2, <1>3

\* Old records and new marks are not about returns.
LEMMA PurgeAlike == ASSUME NEW g \in UserGates PROVE Alike(g, Purge(g))
BY DEF Alike, Purge, UserGates

\* revokeLocked: at most the lease that is revoked is returned.
LEMMA RevokeTurns ==
    ASSUME NEW g \in UserGates, NEW lease \in Leases, NEW id \in [run : Nat, cs : Nat],
           NEW s \in Nat, NEW n \in Nat, run \in Nat, runs \in Nat, now \in Nat, run <= runs,
           id.run \in {0, runs}, Sane(g)
    PROVE  Turns(g, revokeLocked(g, lease, id, s, n), n)
<1> DEFINE p == Purge(g)
           previous == IF p.revoked[lease] = None THEN 0 ELSE p.revoked[lease].seq
           m == [until |-> now + Grace + 1, barrier |-> n,
                 seq |-> IF s > previous THEN s ELSE previous]
           marked == [p EXCEPT !.revoked[lease] = m]
           h == revokeLocked(g, lease, id, s, n)
<1>1. p \in UserGates /\ Alike(g, p)
    BY PurgeType, PurgeAlike
<1>2. m \in Marks
    <2>1. p.revoked[lease] \in Marks \cup {None}
        BY <1>1 DEF UserGates
    <2>2. previous \in Nat
        BY <2>1 DEF Marks
    <2> QED
        BY <2>2, Numbers DEF Marks
<1>3. h = IF Outdated(p, lease, s) THEN p
          ELSE IF p.src = None \/ p.src.lease # lease THEN retireLocked(marked, lease, id, n)
          ELSE IF p.src.permits = {} THEN removeSourceLocked(marked, n)
          ELSE [marked EXCEPT !.src.revoked = TRUE]
    BY DEF revokeLocked
<1>4. h \in UserGates
    BY RevokeType
<1> HIDE DEF m, p, h
<1>5. marked \in UserGates /\ marked.src = p.src /\ marked.retired = p.retired
    BY <1>1, <1>2, MarkType DEF UserGates
<1> HIDE DEF marked
<1>6. Alike(g, marked)
    BY <1>1, <1>5 DEF Alike
<1>7. Sane(marked)
    BY <1>6 DEF Sane, Alike
<1>8. CASE Outdated(p, lease, s)
    BY <1>1, <1>3, <1>8, AlikeTurns DEF h
<1>9. CASE ~Outdated(p, lease, s) /\ (p.src = None \/ p.src.lease # lease)
    <2>1. Turns(marked, h, n)
        BY <1>3, <1>5, <1>7, <1>9, RetireTurns
    <2> QED
        BY <1>4, <1>5, <1>6, <2>1, TurnsAfter DEF h
<1>10. CASE ~Outdated(p, lease, s) /\ p.src # None /\ p.src.lease = lease /\ p.src.permits = {}
    <2>1. Turns(marked, h, n)
        BY <1>3, <1>5, <1>7, <1>10, RemoveTurns
    <2> QED
        BY <1>4, <1>5, <1>6, <2>1, TurnsAfter DEF h
<1>11. CASE ~Outdated(p, lease, s) /\ p.src # None /\ p.src.lease = lease /\ p.src.permits # {}
    <2>1. h = [marked EXCEPT !.src.revoked = TRUE]
        BY <1>3, <1>11
    <2>2. Turns(marked, h, n)
        BY <1>4, <1>5, <1>7, <1>11, <2>1, MarkedAlike, AlikeTurns
    <2> QED
        BY <1>4, <1>5, <1>6, <2>2, TurnsAfter DEF h
<1> QED
    BY <1>8, <1>9, <1>10, <1>11

\* applyRevocations.
LEMMA RevokedTurns ==
    ASSUME NEW g \in [Users -> UserGates], NEW items \in SUBSET [user : Users, lease : Leases],
           NEW s \in Nat, NEW n \in Nat, NEW u \in Users,
           run \in Nat, runs \in Nat, now \in Nat, run <= runs, Sane(g[u])
    PROVE  Turns(g[u], Revoked(g, items, s, n)[u], n)
<1>1. CASE \E i \in items : i.user = u
    <2> DEFINE l == (CHOOSE i \in items : i.user = u).lease
    <2>1. l \in Leases
        BY <1>1
    <2>2. Revoked(g, items, s, n)[u] = revokeLocked(g[u], l, NoIdentity, s, n)
        BY <1>1 DEF Revoked
    <2> HIDE DEF l
    <2>3. NoIdentity.run = 0
        BY DEF NoIdentity
    <2> QED
        BY <2>1, <2>2, <2>3, RevokeTurns, NoIdentityType
<1>2. CASE ~\E i \in items : i.user = u
    <2>1. Revoked(g, items, s, n)[u] = Purge(g[u])
        BY <1>2 DEF Revoked
    <2> QED
        BY <2>1, PurgeType, PurgeAlike, AlikeTurns
<1> QED
    BY <1>1, <1>2

\* A session of now puts a lease in use, and returns the one it replaces.
LEMMA InstallTurns ==
    ASSUME NEW g \in UserGates, NEW item, item.lease \in Leases, item.cs \in Nat,
           item.confirmedAt \in Nat, NEW deadline \in Int, NEW s \in Nat, NEW n \in Nat,
           run \in Nat, runs \in Nat, run = runs, Sane(g)
    PROVE  Turns(g, installLeaseLocked(g, item, deadline, s, n), n)
<1> DEFINE h == installLeaseLocked(g, item, deadline, s, n)
<1>0. h \in UserGates
    BY InstallType
<1>a. CASE Repeated(g, item)
    <2>1. g.src \in Sources /\ g.src # None
        BY <1>a DEF Repeated, UserGates
    <2>2. h = [g EXCEPT !.src.confirmedSequence = s,
                        !.src.leaseSequence = larger(@, item.cs),
                        !.src.omissionSequence = larger(@, s)]
        BY <1>a DEF installLeaseLocked
    <2>3. h.src \in Sources
        BY InstallType
    <2> HIDE DEF h
    <2>4. h.retired = g.retired /\ h.src.lease = g.src.lease /\ h.src.run = g.src.run
        BY <2>1, <2>2 DEF UserGates, Sources
    <2>5. Alike(g, h)
        BY <2>1, <2>3, <2>4, NoneAssumption DEF Alike
    <2> QED
        BY <1>0, <2>5, AlikeTurns DEF h
<1>b. CASE ~Repeated(g, item)
    <2> DEFINE kept == g.src # None /\ g.src.lease = item.lease
               base == IF g.src # None /\ ~kept THEN removeSourceLocked(g, n) ELSE g
               new == [run |-> IF kept THEN g.src.run ELSE run,
                       lease |-> item.lease, revoked |-> FALSE,
                       permits |-> IF kept THEN g.src.permits ELSE {},
                       confirmedAt |-> item.confirmedAt, deadline |-> deadline,
                       confirmedSequence |-> s, omissionSequence |-> s,
                       leaseSequence |-> item.cs]
    <2>1. base \in UserGates /\ base.src = (IF kept THEN g.src ELSE None)
        BY RemoveType, RemoveLeaves
    <2>2. Turns(g, base, n)
        <3>1. Turns(g, g, n)
            BY AlikeTurns DEF Alike
        <3> QED
            BY <3>1, RemoveTurns
    <2>3. new.lease = item.lease /\ new.run = (IF kept THEN g.src.run ELSE run)
        OBVIOUS
    <2>4. h = [base EXCEPT !.src = new, !.retired[item.lease] = None]
        BY <1>b DEF installLeaseLocked
    <2>5. h.src \in Sources
        BY InstallType
    <2> HIDE DEF base, new, h
    <2>6. /\ h.src = new /\ h.retired[item.lease] = None
          /\ \A l \in Leases : l # item.lease => h.retired[l] = base.retired[l]
        BY <2>1, <2>4 DEF UserGates
    <2>7. new.run \in Nat /\ new.run <= runs
        BY <2>3, ReturnFields DEF Sane
    <2>8. Sane(base)
        BY <2>2 DEF Turns
    <2>9. Sane(h)
        BY <2>3, <2>6, <2>7, <2>8 DEF Sane
    <2>10. Granted(base, h, item.lease)
        <3>1. base.retired[item.lease] # None => base.retired[item.lease].run <= new.run
            <4>1. CASE kept
                BY <2>1, <2>8, <4>1 DEF Sane
            <4>2. CASE ~kept
                BY <2>3, <2>8, <4>2 DEF Sane
            <4> QED
                BY <4>1, <4>2
        <3>2. base.src # None => base.src.run <= new.run
            <4>1. base.src # None => kept /\ base.src = g.src
                BY <2>1
            <4> QED
                BY <2>3, <2>7, <4>1
        <3> QED
            BY <2>3, <2>5, <2>6, <3>1, <3>2, NoneAssumption DEF Granted, Ages
    <2>11. \A l \in Leases : l # item.lease => SameReturn(base, h, l)
        BY <2>1, <2>6 DEF SameReturn
    <2>12. Turns(base, h, n)
        BY <2>9, <2>10, <2>11 DEF Turns
    <2> QED
        BY <1>0, <2>1, <2>2, <2>12, TurnsAddUp DEF h
<1> QED
    BY <1>a, <1>b

\* acceptLeases for one account.
LEMMA AcceptedTurns ==
    ASSUME NEW u \in Users, NEW g \in UserGates, NEW a \in Answers, NEW n \in Nat,
           run \in Nat, runs \in Nat, now \in Nat, run = runs, Sane(g)
    PROVE  Turns(g, Accepted(u, g, a, n), n)
<1> DEFINE s == a.req.seq
           listed == {i \in a.leases : i.user = u}
           omitted == /\ g.src # None /\ g.src.omissionSequence <= s
                      /\ \A i \in listed : i.lease # g.src.lease
           item == CHOOSE i \in listed : TRUE
           d == Deadline(item, a.time, a.req.started)
           installed == IF listed = {} \/ Refused(u, g, item, s) THEN g
                        ELSE installLeaseLocked(g, item, d, s, n)
           kept == IF omitted THEN revokeLocked(installed, g.src.lease, NoIdentity, s, n)
                   ELSE installed
<1>1. s \in Nat /\ a.req.started \in Nat /\ a.time \in Nat
    BY DEF Answers, Requests
<1>2. ASSUME listed # {}
      PROVE  item \in Items /\ item.lease \in Leases /\ item.cs \in Nat /\ item.confirmedAt \in Nat
             /\ d \in Int
    <2>1. a.leases \in SUBSET Items
        BY DEF Answers
    <2>2. item \in Items
        BY <1>2, <2>1
    <2>3. item.expiresAt \in Nat
        BY <2>2 DEF Items
    <2> QED
        BY <1>1, <2>2, <2>3 DEF Items, Deadline
<1>a. NoIdentity.run = 0
    BY DEF NoIdentity
<1>b. Turns(g, g, n)
    BY AlikeTurns DEF Alike
<1>3. installed \in UserGates /\ Turns(g, installed, n)
    <2> HIDE DEF item, d, s, listed
    <2>1. CASE listed = {} \/ Refused(u, g, item, s)
        BY <1>b, <2>1
    <2>2. CASE ~(listed = {} \/ Refused(u, g, item, s))
        <3>1. /\ installLeaseLocked(g, item, d, s, n) \in UserGates
              /\ Turns(g, installLeaseLocked(g, item, d, s, n), n)
            BY <1>1, <1>2, <2>2, InstallType, InstallTurns
        <3> QED
            BY <2>2, <3>1
    <2> QED
        BY <2>1, <2>2
<1>4. kept \in UserGates /\ Turns(g, kept, n)
    <2>1. g.src # None => g.src.lease \in Leases
        BY DEF UserGates, Sources
    <2> HIDE DEF installed, s
    <2>2. CASE omitted
        <3>2. Sane(installed) /\ run <= runs /\ g.src.lease \in Leases
            BY <1>3, <2>1, <2>2 DEF Turns
        <3> DEFINE lease == g.src.lease
        <3> HIDE DEF lease
        <3>3. /\ revokeLocked(installed, lease, NoIdentity, s, n) \in UserGates
              /\ Turns(installed, revokeLocked(installed, lease, NoIdentity, s, n), n)
            <4>1. lease \in Leases
                BY <3>2 DEF lease
            <4> QED
                BY <1>1, <1>3, <1>a, <3>2, <4>1, RevokeType, RevokeTurns, NoIdentityType
        <3>1. /\ kept \in UserGates
              /\ Turns(installed, kept, n)
            BY <2>2, <3>3 DEF lease
        <3> QED
            BY <1>3, <3>1, TurnsAddUp
    <2>3. CASE ~omitted
        BY <1>3, <2>3
    <2> QED
        BY <2>2, <2>3
<1>5. ASSUME listed # {}, NEW id \in [run : Nat, cs : Nat], id.run \in {0, runs}
      PROVE  Turns(g, revokeLocked(kept, item.lease, id, s, n), n)
    <2> HIDE DEF item, s, listed, kept
    <2>1. item.lease \in Leases
        BY <1>2, <1>5
    <2>2. revokeLocked(kept, item.lease, id, s, n) \in UserGates
        BY <1>1, <1>4, <1>5, <2>1, RevokeType
    <2>3. Sane(kept)
        BY <1>4 DEF Turns
    <2>4. Turns(kept, revokeLocked(kept, item.lease, id, s, n), n)
        BY <1>1, <1>4, <1>5, <2>1, <2>3, RevokeTurns
    <2> QED
        BY <1>4, <2>2, <2>4, TurnsAddUp
<1>6. Accepted(u, g, a, n) =
        IF listed = {} \/ item.user \notin a.idle \/ Busy(u) THEN kept
        ELSE IF kept.src = None
            THEN revokeLocked(kept, item.lease, [run |-> run, cs |-> item.cs], s, n)
        ELSE IF /\ kept.src.lease = item.lease /\ kept.src.permits = {}
                /\ kept.src.confirmedSequence <= s /\ kept.src.omissionSequence <= s
            THEN revokeLocked(kept, item.lease, NoIdentity, s, n)
        ELSE kept
    BY DEF Accepted
<1>7. listed # {} => /\ [run |-> run, cs |-> item.cs] \in [run : Nat, cs : Nat]
                     /\ [run |-> run, cs |-> item.cs].run = runs
    BY <1>2
<1> HIDE DEF item, s, listed, kept
<1> QED
    BY <1>4, <1>5, <1>6, <1>7, <1>a, NoIdentityType

\* What an answer confirms: returns numbered up to its request are over.
Confirmed(k, h, s) ==
    /\ h.src = k.src
    /\ \A l \in Leases : \/ h.retired[l] = k.retired[l]
                         \/ k.retired[l] # None /\ k.retired[l].seq <= s /\ h.retired[l] = None

\* Every open request carries the returns of u that are older than it.
Carried(u, g, O) ==
    \A l \in Leases : g.retired[l] # None =>
        \A r \in O : g.retired[l].seq <= r.seq =>
            [user |-> u, lease |-> l, run |-> g.retired[l].run, cs |-> g.retired[l].cs] \in r.retired

\* One account's part of ReturnIsConfirmed.
ReturnOK(u, g, h) ==
    \A l \in Leases :
        (g.retired[l] # None /\ (h.retired[l] = None \/ h.retired[l].run < g.retired[l].run))
            => \/ h.src # None /\ h.src.lease = l
               \/ \E c \in {flight[u], call} \ {None} :
                     /\ c.req # None
                     /\ [user |-> u, lease |-> l, run |-> g.retired[l].run,
                         cs |-> g.retired[l].cs] \in c.req.retired

\* The calls that wait for an answer to an open request.
Awaited(u) == {c \in {flight[u], call} \ {None} : c.req # None /\ c.req \in Open}

\* What a critical section may do to the account of u.
Section(u, g, h) ==
    \E k \in UserGates :
        /\ Turns(g, k, seq + 1)
        /\ h = k \/ \E c \in Awaited(u) : Confirmed(k, h, c.req.seq)

\* Each account's part of ReturnInv.
LEMMA ReturnParts ==
    ASSUME ReturnInv
    PROVE  \A u \in Users : Sane(gate[u]) /\ Carried(u, gate[u], Open)
BY DEF ReturnInv, Sane, Carried, Source

\* A return that is renewed is newer than every open request.
LEMMA TurnsCarry ==
    ASSUME GateTypeOK, OpenInTime, NEW u \in Users, NEW g \in UserGates, NEW k \in UserGates,
           Turns(g, k, seq + 1), Carried(u, g, Open)
    PROVE  Carried(u, k, Open)
<1>1. ASSUME NEW l \in Leases, k.retired[l] # None, NEW r \in Open, k.retired[l].seq <= r.seq
      PROVE  [user |-> u, lease |-> l, run |-> k.retired[l].run, cs |-> k.retired[l].cs] \in r.retired
    <2>1. r.seq \in Nat /\ r.seq <= seq /\ seq \in Nat
        BY OpenType DEF OpenInTime, GateTypeOK
    <2>2. ~Renewed(g, k, l, seq + 1)
        BY <1>1, <2>1 DEF Renewed
    <2>3. ~Granted(g, k, l)
        BY <1>1 DEF Granted, Turns, Sane
    <2>4. SameReturn(g, k, l)
        BY <2>2, <2>3 DEF Turns
    <2> QED
        BY <1>1, <2>4 DEF SameReturn, Carried
<1> QED
    BY <1>1 DEF Carried

\* A confirmation drops returns and adds none.
LEMMA ConfirmedCarry ==
    ASSUME NEW u, NEW k \in UserGates, NEW h, NEW s, NEW O, Confirmed(k, h, s), Sane(k), Carried(u, k, O)
    PROVE  Sane(h) /\ Carried(u, h, O)
<1>1. Sane(h)
    BY ReturnFields DEF Sane, Confirmed
<1>2. Carried(u, h, O)
    BY DEF Carried, Confirmed
<1> QED
    BY <1>1, <1>2

\* A return that goes without being renewed or granted is confirmed.
LEMMA SectionOK ==
    ASSUME GateTypeOK, OpenInTime, NEW u \in Users, Sane(gate[u]), Carried(u, gate[u], Open),
           NEW h, Section(u, gate[u], h)
    PROVE  Sane(h) /\ Carried(u, h, Open) /\ ReturnOK(u, gate[u], h)
<1> DEFINE g == gate[u]
<1>1. g \in UserGates /\ seq \in Nat
    BY DEF GateTypeOK
<1>2. PICK k \in UserGates :
        /\ Turns(g, k, seq + 1)
        /\ h = k \/ \E c \in Awaited(u) : Confirmed(k, h, c.req.seq)
    BY DEF Section
<1>3. Sane(k) /\ Carried(u, k, Open)
    BY <1>1, <1>2, TurnsCarry DEF Turns
<1>4. Sane(h) /\ Carried(u, h, Open)
    BY <1>2, <1>3, ConfirmedCarry
<1>5. ASSUME NEW l \in Leases, g.retired[l] # None,
             h.retired[l] = None \/ h.retired[l].run < g.retired[l].run
      PROVE  \/ h.src # None /\ h.src.lease = l
             \/ \E c \in {flight[u], call} \ {None} :
                   /\ c.req # None
                   /\ [user |-> u, lease |-> l, run |-> g.retired[l].run,
                       cs |-> g.retired[l].cs] \in c.req.retired
    <2>1. g.retired[l].run \in Nat /\ h.src = k.src
          /\ (k.retired[l] # None => k.retired[l].run \in Nat)
        BY <1>1, <1>2, <1>5, ReturnFields DEF Confirmed
    <2>2. CASE Granted(g, k, l)
        BY <2>1, <2>2 DEF Granted
    <2>3. CASE Renewed(g, k, l, seq + 1)
        <3>1. k.retired[l] # None /\ k.retired[l].seq = seq + 1 /\ g.retired[l].run <= k.retired[l].run
            BY <1>5, <2>3 DEF Renewed, Ages
        <3>2. ~(h.retired[l] = k.retired[l])
            BY <1>5, <2>1, <3>1
        <3>3. PICK c \in Awaited(u) : Confirmed(k, h, c.req.seq)
            BY <1>2, <3>2
        <3>4. k.retired[l].seq <= c.req.seq
            BY <3>2, <3>3 DEF Confirmed
        <3>5. c.req.seq \in Nat /\ c.req.seq <= seq
            BY OpenType DEF Awaited, OpenInTime
        <3> QED
            BY <1>1, <3>1, <3>4, <3>5
    <2>4. CASE SameReturn(g, k, l)
        <3>1. k.retired[l] = g.retired[l]
            BY <2>4 DEF SameReturn
        <3>2. ~(h.retired[l] = k.retired[l])
            BY <1>5, <2>1, <3>1
        <3>3. PICK c \in Awaited(u) : Confirmed(k, h, c.req.seq)
            BY <1>2, <3>2
        <3>4. g.retired[l].seq <= c.req.seq
            BY <3>1, <3>2, <3>3 DEF Confirmed
        <3>5. [user |-> u, lease |-> l, run |-> g.retired[l].run, cs |-> g.retired[l].cs]
                 \in c.req.retired
            BY <1>5, <3>4 DEF Carried, Awaited
        <3> QED
            BY <3>5 DEF Awaited
    <2> QED
        BY <1>2, <2>2, <2>3, <2>4 DEF Turns
<1>6. ReturnOK(u, g, h)
    BY <1>5 DEF ReturnOK
<1> QED
    BY <1>4, <1>6

\* A critical section of the node without a new request keeps the invariant,
\* and drops only confirmed returns.
LEMMA SectionKeeps ==
    ASSUME GateTypeOK, OpenInTime, ReturnInv, Open' \subseteq Open,
           runs' = runs, run' \in {0, run}, ready' => run' # 0,
           answers' \subseteq answers,
           call' # None /\ call'.stage = "accept" => call'.req.run # 0,
           \A u \in Users : Section(u, gate[u], gate'[u])
    PROVE  ReturnInv' /\ \A u \in Users : ReturnOK(u, gate[u], gate'[u])
<1>1. ASSUME NEW u \in Users
      PROVE  Sane(gate'[u]) /\ Carried(u, gate'[u], Open) /\ ReturnOK(u, gate[u], gate'[u])
    BY ReturnParts, SectionOK
<1>2. run' \in {0, runs'}
    BY DEF ReturnInv
<1>3. \A a \in answers' : a.status # "lost" => a.req.run # 0
    BY DEF ReturnInv
<1>4. ASSUME NEW u \in Users
      PROVE  /\ \A l \in Leases : gate'[u].retired[l] # None =>
                  /\ gate'[u].retired[l].run <= runs'
                  /\ \A r \in Open' : gate'[u].retired[l].seq <= r.seq =>
                        [user |-> u, lease |-> l, run |-> gate'[u].retired[l].run,
                         cs |-> gate'[u].retired[l].cs] \in r.retired
             /\ gate'[u].src # None => /\ gate'[u].retired[gate'[u].src.lease] = None
                                       /\ gate'[u].src.run <= runs'
    <2>1. Sane(gate'[u]) /\ Carried(u, gate'[u], Open)
        BY <1>1
    <2> QED
        BY <2>1 DEF Sane, Carried
<1>5. ReturnInv'
    BY <1>2, <1>3, <1>4 DEF ReturnInv, Source
<1> QED
    BY <1>1, <1>5

\* A section that leaves the account alone, in what returns are about.
LEMMA AlikeSection ==
    ASSUME GateTypeOK, GateTypeOK', ReturnInv, NEW u \in Users, Alike(gate[u], gate'[u])
    PROVE  Section(u, gate[u], gate'[u])
<1>1. gate[u] \in UserGates /\ gate'[u] \in UserGates /\ Sane(gate[u])
    BY ReturnParts DEF GateTypeOK
<1> QED
    BY <1>1, AlikeTurns DEF Section

\* A section that confirms nothing.
LEMMA TurnsSection ==
    ASSUME GateTypeOK', NEW u \in Users, Turns(gate[u], gate'[u], seq + 1)
    PROVE  Section(u, gate[u], gate'[u])
BY DEF Section, GateTypeOK

\* Steps that leave the gate and the session alone.
LEMMA SameGateKeeps ==
    ASSUME GateTypeOK, GateTypeOK', OpenInTime, ReturnInv, Open' \subseteq Open,
           runs' = runs, run' = run, ready' = ready, answers' \subseteq answers,
           call' # None /\ call'.stage = "accept" => call'.req.run # 0,
           gate' = gate
    PROVE  ReturnInv' /\ \A u \in Users : ReturnOK(u, gate[u], gate'[u])
<1>1. \A u \in Users : Section(u, gate[u], gate'[u])
    BY AlikeSection DEF Alike
<1>2. ready' => run' # 0
    BY DEF ReturnInv
<1> QED
    BY <1>1, <1>2, SectionKeeps

\* What every step does: the invariant again, and no return lost.
ReturnsKept == ReturnInv' /\ \A u \in Users : ReturnOK(u, gate[u], gate'[u])

\* Only the source of one account changes, in what returns are not about.
LEMMA OneSource ==
    ASSUME NEW g \in UserGates, g.src # None, NEW s \in Sources,
           s.lease = g.src.lease, s.run = g.src.run
    PROVE  Alike(g, [g EXCEPT !.src = s])
BY NoneAssumption DEF Alike, UserGates

\* Permits are not about returns.
LEMMA PermitsAlike ==
    ASSUME GateTypeOK, NEW u \in Users, Source(u) # None, NEW cs \in SUBSET Conns,
           gate' = AddPermits(u, cs)
    PROVE  \A v \in Users : Alike(gate[v], gate'[v])
<1>1. gate[u] \in UserGates /\ gate[u].src \in Sources /\ gate[u].src # None
    BY DEF GateTypeOK, UserGates, Source
<1> DEFINE s == [gate[u].src EXCEPT !.permits = gate[u].src.permits \cup cs]
<1>2. gate' = [gate EXCEPT ![u] = [gate[u] EXCEPT !.src = s]]
    BY <1>1 DEF AddPermits, GateTypeOK, UserGates, Sources
<1>3. s \in Sources /\ s.lease = gate[u].src.lease /\ s.run = gate[u].src.run
    BY <1>1 DEF Sources
<1> HIDE DEF s
<1>4. Alike(gate[u], [gate[u] EXCEPT !.src = s])
    BY <1>1, <1>3, OneSource
<1>5. \A v \in Users : gate'[v] = IF v = u THEN [gate[u] EXCEPT !.src = s] ELSE gate[v]
    BY <1>2 DEF GateTypeOK
<1> QED
    BY <1>4, <1>5 DEF Alike

\* Numbers of the gate.
LEMMA GateNumbers ==
    ASSUME GateTypeOK, ReturnInv
    PROVE  /\ seq \in Nat /\ seq + 1 \in Nat /\ now \in Nat /\ run \in Nat /\ runs \in Nat
           /\ run <= runs /\ gate \in [Users -> UserGates]
BY DEF GateTypeOK, ReturnInv

\* A session begins with no request open; the returns of the last one wait.
LEMMA BeginReturns ==
    ASSUME GateTypeOK, GateTypeOK', ReturnInv, begin
    PROVE  ReturnsKept
<1>1. call' = None /\ flight' = flight /\ answers' = answers /\ seq' = seq
    BY DEF begin, netVars
<1>2. \A u \in Users : flight[u] = None /\ gate[u].src = None
    BY DEF begin, Busy, Source
<1>3. Open' = {}
    BY <1>1, <1>2 DEF Open, Busy
<1>4. runs' \in Nat /\ run' \in {0, runs'} /\ runs <= runs' /\ (ready' => run' # 0)
    <2>1. CASE run = 0
        BY <2>1 DEF begin, GateTypeOK
    <2>2. CASE run # 0
        BY <2>2 DEF begin, GateTypeOK, ReturnInv
    <2> QED
        BY <2>1, <2>2
<1>5. ASSUME NEW u \in Users
      PROVE  gate'[u].retired = gate[u].retired /\ gate'[u].src = None
    <2>1. gate[u] \in UserGates
        BY DEF GateTypeOK
    <2>2. gate'[u] = gate[u] \/ gate'[u] = [gate[u] EXCEPT !.barrier = 0]
        BY DEF begin
    <2> QED
        BY <1>2, <2>1, <2>2 DEF UserGates
<1>6. ASSUME NEW u \in Users, NEW l \in Leases, gate'[u].retired[l] # None
      PROVE  gate'[u].retired[l].run <= runs'
    <2>1. gate[u] \in UserGates /\ gate[u].retired[l] # None /\ gate[u].retired[l].run <= runs
        BY <1>5, <1>6 DEF GateTypeOK, ReturnInv
    <2>2. gate[u].retired[l].run \in Nat
        BY <2>1, ReturnFields
    <2> QED
        BY <1>4, <1>5, <2>1, <2>2 DEF GateTypeOK
<1>7. ReturnInv'
    BY <1>1, <1>3, <1>4, <1>5, <1>6 DEF ReturnInv, Source
<1>8. ASSUME NEW u \in Users PROVE ReturnOK(u, gate[u], gate'[u])
    <2>1. gate[u] \in UserGates
        BY DEF GateTypeOK
    <2> QED
        BY <1>5, <2>1, ReturnFields DEF ReturnOK
<1> QED
    BY <1>7, <1>8 DEF ReturnsKept

\* The gate stops: what is closed at once is returned.
LEMMA StopReturns ==
    ASSUME GateTypeOK, GateTypeOK', FenceInv, ReturnInv, Stop
    PROVE  ReturnsKept
<1>1. Open' \subseteq Open
    BY OpenShrinks DEF Stop
<1>2. runs' = runs /\ run' = run /\ ~ready' /\ answers' = answers /\ call' = call
    BY DEF Stop, netVars
<1>3. ASSUME NEW u \in Users PROVE Section(u, gate[u], gate'[u])
    <2>1. gate[u] \in UserGates /\ gate'[u] = Closed(gate[u], seq + 1) /\ Sane(gate[u])
        BY ReturnParts DEF GateTypeOK, Stop
    <2>2. Turns(gate[u], Closed(gate[u], seq + 1), seq + 1)
        BY <2>1, GateNumbers, ClosedTurns
    <2> QED
        BY <2>1, <2>2, TurnsSection
<1>4. call' # None /\ call'.stage = "accept" => call'.req.run # 0
    BY <1>2 DEF ReturnInv
<1> QED
    BY <1>1, <1>2, <1>3, <1>4, SectionKeeps DEF ReturnsKept, FenceInv

\* A connection asks for a permit.
LEMMA AcquireReturns ==
    ASSUME GateTypeOK, GateTypeOK', FenceInv, ReturnInv, NEW c \in Conns, NEW u \in Users,
           Acquire(c, u)
    PROVE  ReturnsKept
<1>1. Open' \subseteq Open
    BY AcquireOpen
<1>2. runs' = runs /\ run' = run /\ ready' = ready /\ answers' = answers /\ call' = call
    BY DEF Acquire, netVars
<1>3. Usable(Source(u)) => Source(u) # None
    BY DEF Usable, Live
<1>4. \A v \in Users : Alike(gate[v], gate'[v])
    <2>1. CASE Usable(Source(u))
        BY <1>3, <2>1, PermitsAlike DEF Acquire
    <2>2. CASE ~Usable(Source(u))
        BY <2>2 DEF Acquire, Alike
    <2> QED
        BY <2>1, <2>2
<1>5. \A v \in Users : Section(v, gate[v], gate'[v])
    BY <1>4, AlikeSection
<1>6. /\ call' # None /\ call'.stage = "accept" => call'.req.run # 0
      /\ ready' => run' # 0
    BY <1>2 DEF ReturnInv
<1> QED
    BY <1>1, <1>2, <1>5, <1>6, SectionKeeps DEF ReturnsKept, FenceInv

\* A waiting connection gives up.
LEMMA CancelWaitReturns ==
    ASSUME GateTypeOK, GateTypeOK', FenceInv, ReturnInv, NEW c \in Conns, NEW u \in Users,
           CancelWait(c, u)
    PROVE  ReturnsKept
<1>1. Open' \subseteq Open
    BY CancelWaitOpen
<1>2. /\ runs' = runs /\ run' = run /\ ready' = ready /\ answers' = answers /\ call' = call
      /\ gate' = gate
    BY DEF CancelWait, netVars
<1>3. call' # None /\ call'.stage = "accept" => call'.req.run # 0
    BY <1>2 DEF ReturnInv
<1> QED
    BY <1>1, <1>2, <1>3, SameGateKeeps DEF ReturnsKept, FenceInv

\* The last connection of a source that is given up returns its lease.
LEMMA ReleaseReturns ==
    ASSUME GateTypeOK, GateTypeOK', FenceInv, ReturnInv, NEW c \in Conns, NEW u \in Users,
           Release(c, u)
    PROVE  ReturnsKept
<1> DEFINE s == [gate[u].src EXCEPT !.permits = gate[u].src.permits \ {c}]
           g == [gate[u] EXCEPT !.src = s]
<1>1. Open' \subseteq Open
    BY OpenShrinks DEF Release
<1>2. runs' = runs /\ run' = run /\ ready' = ready /\ answers' = answers /\ call' = call
    BY DEF Release, netVars
<1>3. gate[u] \in UserGates /\ gate[u].src \in Sources /\ gate[u].src # None /\ Sane(gate[u])
    BY ReturnParts DEF Release, GateTypeOK, UserGates, Source
<1>4. s \in Sources /\ s.lease = gate[u].src.lease /\ s.run = gate[u].src.run
    BY <1>3 DEF Sources
<1>5. [gate[u] EXCEPT !.src.permits = @ \ {c}] = g
    BY <1>3 DEF UserGates, Sources
<1>6. \/ gate' = [gate EXCEPT ![u] = removeSourceLocked(g, seq + 1)]
      \/ gate' = [gate EXCEPT ![u] = g]
    BY <1>5 DEF Release
<1> HIDE DEF s
<1>7. g \in UserGates /\ g.src # None /\ Alike(gate[u], g)
    BY <1>3, <1>4, OneSource, NoneAssumption DEF UserGates
<1> HIDE DEF g
<1>8. Turns(gate[u], g, seq + 1) /\ Sane(g)
    BY <1>3, <1>7, AlikeTurns DEF Turns
<1>9. Turns(gate[u], removeSourceLocked(g, seq + 1), seq + 1)
    <2>1. removeSourceLocked(g, seq + 1) \in UserGates
        BY <1>7, GateNumbers, RemoveType
    <2>2. Turns(g, removeSourceLocked(g, seq + 1), seq + 1)
        BY <1>7, <1>8, GateNumbers, RemoveTurns
    <2> QED
        BY <1>3, <1>7, <2>1, <2>2, TurnsAfter
<1>10. ASSUME NEW v \in Users PROVE Section(v, gate[v], gate'[v])
    <2>1. CASE v = u
        <3>1. gate'[v] \in {g, removeSourceLocked(g, seq + 1)}
            BY <1>6, <2>1 DEF GateTypeOK
        <3> QED
            BY <1>8, <1>9, <2>1, <3>1, TurnsSection
    <2>2. CASE v # u
        <3>1. gate'[v] = gate[v]
            BY <1>6, <2>2 DEF GateTypeOK
        <3> QED
            BY <3>1, AlikeSection DEF Alike
    <2> QED
        BY <2>1, <2>2
<1>11. /\ call' # None /\ call'.stage = "accept" => call'.req.run # 0
       /\ ready' => run' # 0
    BY <1>2 DEF ReturnInv
<1> QED
    BY <1>1, <1>2, <1>10, <1>11, SectionKeeps DEF ReturnsKept, FenceInv

\* An expired source without connections is returned.
LEMMA ExpireReturns ==
    ASSUME GateTypeOK, GateTypeOK', FenceInv, ReturnInv, NEW u \in Users, expireSource(u)
    PROVE  ReturnsKept
<1>1. Open' \subseteq Open
    BY OpenShrinks DEF expireSource
<1>2. runs' = runs /\ run' = run /\ ready' = ready /\ answers' = answers /\ call' = call
    BY DEF expireSource, netVars
<1>3. gate[u] \in UserGates /\ gate[u].src # None /\ Sane(gate[u])
    BY ReturnParts DEF expireSource, GateTypeOK, Live, Source
<1>4. Turns(gate[u], removeSourceLocked(gate[u], seq + 1), seq + 1)
    BY <1>3, GateNumbers, RemoveTurns
<1>5. ASSUME NEW v \in Users PROVE Section(v, gate[v], gate'[v])
    <2>1. gate'[v] = IF v = u THEN removeSourceLocked(gate[u], seq + 1) ELSE gate[v]
        BY DEF expireSource, GateTypeOK
    <2>2. CASE v = u
        BY <1>4, <2>1, <2>2, TurnsSection
    <2>3. CASE v # u
        BY <2>1, <2>3, AlikeSection DEF Alike
    <2> QED
        BY <2>2, <2>3
<1>6. /\ call' # None /\ call'.stage = "accept" => call'.req.run # 0
      /\ ready' => run' # 0
    BY <1>2 DEF ReturnInv
<1> QED
    BY <1>1, <1>2, <1>5, <1>6, SectionKeeps DEF ReturnsKept, FenceInv

\* A new request carries every return.
LEMMA SendReturns ==
    ASSUME GateTypeOK, ReturnInv, NEW kind, NEW user,
           Open' \subseteq Open \cup {Snapshot(kind, user)},
           runs' = runs, run' = run, ready' = ready, answers' = answers, gate' = gate,
           call' # None /\ call'.stage = "accept" => call'.req.run # 0
    PROVE  ReturnsKept
<1> DEFINE req == Snapshot(kind, user)
<1>1. ASSUME NEW u \in Users, NEW l \in Leases, gate[u].retired[l] # None
      PROVE  [user |-> u, lease |-> l, run |-> gate[u].retired[l].run,
              cs |-> gate[u].retired[l].cs] \in req.retired
    <2>1. <<u, l>> \in {q \in Users \X Leases : gate[q[1]].retired[q[2]] # None}
        BY <1>1
    <2>2. req.retired =
            {[user |-> p[1], lease |-> p[2], run |-> gate[p[1]].retired[p[2]].run,
              cs |-> gate[p[1]].retired[p[2]].cs] :
                p \in {q \in Users \X Leases : gate[q[1]].retired[q[2]] # None}}
        BY DEF Snapshot
    <2> DEFINE p == <<u, l>>
    <2>3. p[1] = u /\ p[2] = l
        OBVIOUS
    <2>4. p \in {q \in Users \X Leases : gate[q[1]].retired[q[2]] # None}
        BY <2>1
    <2> HIDE DEF req, p
    <2>5. [user |-> p[1], lease |-> p[2], run |-> gate[p[1]].retired[p[2]].run,
           cs |-> gate[p[1]].retired[p[2]].cs] \in req.retired
        BY <2>2, <2>4
    <2> QED
        BY <2>3, <2>5
<1> HIDE DEF req
<1>2. \A u \in Users, l \in Leases : gate[u].retired[l] # None =>
        \A r \in Open' : gate[u].retired[l].seq <= r.seq =>
            [user |-> u, lease |-> l, run |-> gate[u].retired[l].run,
             cs |-> gate[u].retired[l].cs] \in r.retired
    BY <1>1 DEF ReturnInv, req
<1>3. ReturnInv'
    BY <1>2 DEF ReturnInv, Source
<1>4. ASSUME NEW u \in Users PROVE ReturnOK(u, gate[u], gate'[u])
    <2>1. gate[u] \in UserGates
        BY DEF GateTypeOK
    <2> QED
        BY <2>1, ReturnFields DEF ReturnOK
<1> QED
    BY <1>3, <1>4 DEF ReturnsKept

\* An admission is sent.
LEMMA AdmitSendReturns ==
    ASSUME GateTypeOK, GateTypeOK', ReturnInv, NEW u \in Users, AdmitSend(u)
    PROVE  ReturnsKept
<1>1. Open' \subseteq Open \cup {Snapshot("admit", u)}
    BY AdmitSendOpen
<1>2. /\ runs' = runs /\ run' = run /\ ready' = ready /\ answers' = answers /\ call' = call
      /\ gate' = gate
    BY DEF AdmitSend
<1>3. call' # None /\ call'.stage = "accept" => call'.req.run # 0
    BY <1>2 DEF ReturnInv
<1> QED
    BY <1>1, <1>2, <1>3, SendReturns

\* A synchronisation is sent.
LEMMA SyncSendReturns ==
    ASSUME GateTypeOK, GateTypeOK', ReturnInv, SyncSend
    PROVE  ReturnsKept
<1>1. Open' \subseteq Open \cup {Snapshot("sync", None)}
    BY SyncSendOpen
<1>2. /\ runs' = runs /\ run' = run /\ ready' = ready /\ answers' = answers
      /\ gate' = gate /\ call'.stage = "sent"
    BY DEF SyncSend
<1> QED
    BY <1>1, <1>2, SendReturns

\* An admission fails on the way.
LEMMA AdmitErrorReturns ==
    ASSUME GateTypeOK, GateTypeOK', FenceInv, ReturnInv, NEW u \in Users, AdmitError(u)
    PROVE  ReturnsKept
<1>1. Open' \subseteq Open
    BY OpenWithoutOne DEF AdmitError, AdmitFails, GateTypeOK
<1>2. runs' = runs /\ run' = run /\ ready' = ready /\ call' = call /\ gate' = gate
    BY DEF AdmitError
<1>3. answers' \subseteq answers
    BY GiveUpNet DEF AdmitError, netVars
<1>4. call' # None /\ call'.stage = "accept" => call'.req.run # 0
    BY <1>2 DEF ReturnInv
<1> QED
    BY <1>1, <1>2, <1>3, <1>4, SameGateKeeps DEF ReturnsKept, FenceInv

\* A synchronisation fails on the way.
LEMMA SyncErrorReturns ==
    ASSUME GateTypeOK, GateTypeOK', FenceInv, ReturnInv, SyncError
    PROVE  ReturnsKept
<1>1. Open' \subseteq Open
    BY OpenShrinks DEF SyncError
<1>2. runs' = runs /\ run' = run /\ ready' = ready /\ call' = None /\ gate' = gate
    BY DEF SyncError
<1>3. answers' \subseteq answers
    BY GiveUpNet DEF SyncError, netVars
<1> QED
    BY <1>1, <1>2, <1>3, SameGateKeeps DEF ReturnsKept, FenceInv

\* A granted admission serves who waits.
LEMMA AdmitGrantReturns ==
    ASSUME GateTypeOK, GateTypeOK', FenceInv, ReturnInv, NEW u \in Users, admit(u)
    PROVE  ReturnsKept
<1>1. Open' \subseteq Open
    BY OpenWithoutOne DEF admit, GateTypeOK
<1>2. runs' = runs /\ run' = run /\ ready' = ready /\ answers' = answers /\ call' = call
    BY DEF admit, netVars
<1>3. flight[u].waiters \in SUBSET Conns
    BY FlightType DEF admit
<1>4. Usable(Source(u)) => Source(u) # None
    BY DEF Usable, Live
<1>5. gate' = gate \/ (Source(u) # None /\ gate' = AddPermits(u, flight[u].waiters))
    BY <1>4 DEF admit
<1>6. \A v \in Users : Alike(gate[v], gate'[v])
    <2>1. CASE gate' = gate
        BY <2>1 DEF Alike
    <2>2. CASE Source(u) # None /\ gate' = AddPermits(u, flight[u].waiters)
        BY <1>3, <2>2, PermitsAlike
    <2> QED
        BY <1>5, <2>1, <2>2
<1>7. \A v \in Users : Section(v, gate[v], gate'[v])
    BY <1>6, AlikeSection
<1>8. /\ call' # None /\ call'.stage = "accept" => call'.req.run # 0
      /\ ready' => run' # 0
    BY <1>2 DEF ReturnInv
<1> QED
    BY <1>1, <1>2, <1>7, <1>8, SectionKeeps DEF ReturnsKept, FenceInv

\* A session the panel has lost: what is closed at once is returned.
LEMMA LoseSections ==
    ASSUME GateTypeOK, GateTypeOK', ReturnInv, NEW r, loseSession(r)
    PROVE  /\ run' \in {0, run} /\ (ready' => run' # 0)
           /\ \A u \in Users : Section(u, gate[u], gate'[u])
<1>a. CASE run = r
    <2>1. run' = 0 /\ ~ready' /\ gate' = [u \in Users |-> Closed(gate[u], seq + 1)]
        BY <1>a DEF loseSession
    <2>2. ASSUME NEW u \in Users PROVE Section(u, gate[u], gate'[u])
        <3>1. gate[u] \in UserGates /\ gate'[u] = Closed(gate[u], seq + 1) /\ Sane(gate[u])
            BY <2>1, ReturnParts DEF GateTypeOK
        <3>2. Turns(gate[u], Closed(gate[u], seq + 1), seq + 1)
            BY <3>1, GateNumbers, ClosedTurns
        <3> QED
            BY <3>1, <3>2, TurnsSection
    <2> QED
        BY <2>1, <2>2
<1>b. CASE run # r
    <2>1. run' = run /\ ready' = ready /\ gate' = gate
        BY <1>b DEF loseSession
    <2>2. \A u \in Users : Section(u, gate[u], gate'[u])
        BY <2>1, AlikeSection DEF Alike
    <2> QED
        BY <2>1, <2>2 DEF ReturnInv
<1> QED
    BY <1>a, <1>b

\* confirmSnapshot drops the returns that were numbered before the snapshot.
LEMMA SnapshotConfirms ==
    ASSUME NEW g \in [Users -> UserGates], NEW snapshot, NEW user, NEW u \in Users
    PROVE  Confirmed(g[u], confirmSnapshot(g, snapshot, user)[u], snapshot.seq)
<1> DEFINE h == [g[u] EXCEPT !.retired = [l \in Leases |->
                    IF g[u].retired[l] # None /\ g[u].retired[l].seq <= snapshot.seq
                    THEN None ELSE g[u].retired[l]]]
<1>1. confirmSnapshot(g, snapshot, user)[u] \in {g[u], h}
    BY DEF confirmSnapshot
<1>2. Confirmed(g[u], g[u], snapshot.seq)
    BY DEF Confirmed
<1>3. Confirmed(g[u], h, snapshot.seq)
    <2>1. g[u] \in UserGates
        OBVIOUS
    <2> QED
        BY <2>1 DEF Confirmed, UserGates
<1> QED
    BY <1>1, <1>2, <1>3

\* The answer to an admission.
LEMMA AdmitAnswerReturns ==
    ASSUME GateTypeOK, GateTypeOK', FenceInv, ReturnInv, NEW u \in Users, NEW a \in answers,
           AdmitAnswer(u, a)
    PROVE  ReturnsKept
<1> DEFINE g == IF run = a.req.run THEN Revoked(gate, a.revoked, a.req.seq, seq + 1) ELSE gate
<1>0. flight[u] \in Flights /\ flight[u] # None /\ flight[u].req = a.req /\ a.req \in Requests
    BY FlightType, AnswerParts DEF AdmitAnswer, Busy
<1>1. Open' \subseteq Open
    BY AdmitAnswerOpen
<1>2. runs' = runs /\ call' = call /\ answers' \subseteq answers
    BY DEF AdmitAnswer, Forget
<1>3. call' # None /\ call'.stage = "accept" => call'.req.run # 0
    BY <1>2 DEF ReturnInv
<1>4. run' \in {0, run} /\ (ready' => run' # 0) /\ \A v \in Users : Section(v, gate[v], gate'[v])
    <2>a. CASE a.status = "lost"
        BY <2>a, LoseSections DEF AdmitAnswer
    <2>b. CASE a.status # "lost"
        <3>1. gate' = confirmSnapshot(g, a.req, u) /\ run' = run /\ ready' = ready
            BY <2>b DEF AdmitAnswer
        <3>2. g \in [Users -> UserGates] /\ \A v \in Users : Turns(gate[v], g[v], seq + 1)
            <4>1. CASE run = a.req.run
                <5>1. g = Revoked(gate, a.revoked, a.req.seq, seq + 1)
                    BY <4>1
                <5>2. /\ a.revoked \in SUBSET [user : Users, lease : Leases]
                      /\ a.req.seq \in Nat
                    BY AnswerParts
                <5>3. g \in [Users -> UserGates]
                    BY <5>1, <5>2, GateNumbers, RevokedType
                <5>4. \A v \in Users : Turns(gate[v], g[v], seq + 1)
                    BY <5>1, <5>2, GateNumbers, ReturnParts, RevokedTurns
                <5> QED
                    BY <5>3, <5>4
            <4>2. CASE run # a.req.run
                <5>1. g = gate
                    BY <4>2
                <5>2. \A v \in Users : Turns(gate[v], gate[v], seq + 1)
                    BY GateNumbers, ReturnParts, AlikeTurns DEF Alike
                <5> QED
                    BY <5>1, <5>2, GateNumbers
            <4> QED
                BY <4>1, <4>2
        <3> HIDE DEF g
        <3>3. ASSUME NEW v \in Users PROVE Section(v, gate[v], gate'[v])
            <4>1. CASE v = u
                <5>1. Confirmed(g[u], gate'[u], a.req.seq)
                    BY <3>1, <3>2, SnapshotConfirms
                <5>2. a.req # None /\ a.req \in Open
                    BY <1>0, NoneAssumption DEF Open, Busy
                <5>3. flight[u] \in Awaited(u)
                    BY <1>0, <5>2 DEF Awaited
                <5> QED
                    BY <1>0, <3>2, <4>1, <5>1, <5>3 DEF Section
            <4>2. CASE v # u
                <5>0. u # None
                    BY NoneAssumption
                <5>1. gate'[v] = g[v]
                    BY <3>1, <4>2, <5>0 DEF confirmSnapshot
                <5> QED
                    BY <3>2, <5>1, TurnsSection
            <4> QED
                BY <4>1, <4>2
        <3> QED
            BY <3>1, <3>3 DEF ReturnInv
    <2> QED
        BY <2>a, <2>b
<1> QED
    BY <1>1, <1>2, <1>3, <1>4, SectionKeeps DEF ReturnsKept, FenceInv

\* The installation of an admitted lease.
LEMMA AdmissionTurns ==
    ASSUME NEW g \in UserGates, NEW item \in Grants, NEW s \in Nat, NEW n \in Nat,
           run \in Nat, runs \in Nat, run = runs, Sane(g)
    PROVE  Turns(g, Installed(g, item, s, n), n) /\ Turns(g, Admitted(g, item, s, n), n)
<1> DEFINE k == Installed(g, item, s, n)
           h == Admitted(g, item, s, n)
           x == [k.src EXCEPT !.omissionSequence = n]
<1>1. item.lease \in Leases /\ item.cs \in Nat /\ item.confirmedAt \in Nat /\ item.deadline \in Int
    BY DEF Grants
<1>2. k \in UserGates /\ k.src \in Sources
    BY <1>1, InstallType DEF Installed
<1>3. Turns(g, k, n)
    BY <1>1, InstallTurns DEF Installed
<1>4. h = [k EXCEPT !.src.omissionSequence = n]
    BY DEF Admitted
<1> HIDE DEF k, h
<1>5. x \in Sources /\ x.lease = k.src.lease /\ x.run = k.src.run
    BY <1>2 DEF Sources
<1>6. h = [k EXCEPT !.src = x]
    BY <1>2, <1>4 DEF UserGates, Sources
<1> HIDE DEF x
<1>7. k.src # None
    BY <1>2, NoneAssumption
<1>8. Alike(k, h) /\ h \in UserGates
    BY <1>2, <1>5, <1>6, <1>7, OneSource DEF UserGates
<1>9. Turns(g, h, n)
    BY <1>2, <1>3, <1>8, TurnsBefore
<1> QED
    BY <1>3, <1>9 DEF k, h

\* An admission installs its lease: a session is under way.
LEMMA AdmitInstallReturns ==
    ASSUME GateTypeOK, GateTypeOK', FenceInv, ReturnInv, NEW u \in Users, AdmitInstall(u)
    PROVE  ReturnsKept
<1> DEFINE f == flight[u]
           g == Installed(gate[u], f.item, f.req.seq, seq + 1)
           stored == run = f.run /\ ~Refused(u, gate[u], f.item, f.req.seq)
           h == Admitted(gate[u], f.item, f.req.seq, seq + 1)
<1>1. f.item \in Grants /\ f.req \in Requests
    BY FlightType DEF AdmitInstall
<1>2. gate[u] \in UserGates /\ f.req.seq \in Nat /\ Sane(gate[u])
    BY <1>1, ReturnParts DEF GateTypeOK, Requests
<1>3. \/ stored /\ gate' = [gate EXCEPT ![u] = h]
      \/ stored /\ gate' = [gate EXCEPT ![u] = g]
      \/ gate' = gate
    BY DEF AdmitInstall, Installed, Admitted
<1>4. Open' \subseteq Open
    BY AdmitInstallOpen
<1>5. runs' = runs /\ run' = run /\ ready' = ready /\ answers' = answers /\ call' = call
    BY DEF AdmitInstall, netVars
<1>6. stored => run = runs
    BY DEF Refused, ReturnInv
<1>7. stored => Turns(gate[u], g, seq + 1) /\ Turns(gate[u], h, seq + 1)
    <2> DEFINE s == f.req.seq
               i == f.item
               d == gate[u]
               n == seq + 1
    <2>1. d \in UserGates /\ i \in Grants /\ s \in Nat /\ n \in Nat /\ run \in Nat /\ runs \in Nat
          /\ Sane(d)
        BY <1>1, <1>2, GateNumbers
    <2> HIDE DEF s, i, d, n
    <2>2. run = runs => Turns(d, Installed(d, i, s, n), n) /\ Turns(d, Admitted(d, i, s, n), n)
        BY <2>1, AdmissionTurns
    <2> QED
        BY <1>6, <2>2 DEF s, i, d, n
<1> HIDE DEF g, h, stored
<1>8. ASSUME NEW v \in Users PROVE Section(v, gate[v], gate'[v])
    <2>1. gate'[v] = gate[v] \/ (stored /\ v = u /\ gate'[v] \in {g, h})
        BY <1>3, GateNumbers
    <2>2. CASE gate'[v] = gate[v]
        BY <2>2, AlikeSection DEF Alike
    <2>3. CASE stored /\ v = u /\ gate'[v] \in {g, h}
        BY <1>7, <2>3, TurnsSection
    <2> QED
        BY <2>1, <2>2, <2>3
<1>9. /\ call' # None /\ call'.stage = "accept" => call'.req.run # 0
      /\ ready' => run' # 0
    BY <1>5 DEF ReturnInv
<1> QED
    BY <1>4, <1>5, <1>8, <1>9, SectionKeeps DEF ReturnsKept, FenceInv

\* The answer to a synchronisation.
LEMMA SyncAnswerReturns ==
    ASSUME GateTypeOK, GateTypeOK', FenceInv, ReturnInv, NEW a \in answers, SyncAnswer(a)
    PROVE  ReturnsKept
<1>1. Open' \subseteq Open
    BY SyncAnswerOpen
<1>2. runs' = runs /\ answers' \subseteq answers
    BY DEF SyncAnswer, Forget
<1>3. call' # None /\ call'.stage = "accept" => call'.req.run # 0
    <2>1. CASE a.status = "lost"
        BY <2>1 DEF SyncAnswer
    <2>2. CASE a.status # "lost"
        <3>1. call \in Calls /\ call.req = a.req /\ a.req.run # 0
            BY <2>2, CallType DEF SyncAnswer, ReturnInv
        <3>2. call' = None \/ call' = [call EXCEPT !.stage = "accept", !.answer = a]
            BY <2>2 DEF SyncAnswer
        <3>3. [call EXCEPT !.stage = "accept", !.answer = a].req = call.req
            BY <3>1 DEF Calls
        <3> QED
            BY <3>1, <3>2, <3>3
    <2> QED
        BY <2>1, <2>2
<1>4. run' \in {0, run} /\ (ready' => run' # 0) /\ \A v \in Users : Section(v, gate[v], gate'[v])
    <2>a. CASE a.status = "lost"
        BY <2>a, LoseSections DEF SyncAnswer
    <2>b. CASE a.status # "lost" /\ run = a.req.run
        <3>1. /\ gate' = Revoked(gate, a.revoked, a.req.seq, seq + 1)
              /\ run' = run /\ ready' = ready
            BY <2>b DEF SyncAnswer
        <3>2. a.revoked \in SUBSET [user : Users, lease : Leases] /\ a.req.seq \in Nat
            BY AnswerParts
        <3>3. ASSUME NEW v \in Users PROVE Section(v, gate[v], gate'[v])
            <4>1. Turns(gate[v], gate'[v], seq + 1)
                BY <3>1, <3>2, GateNumbers, ReturnParts, RevokedTurns
            <4> QED
                BY <4>1, TurnsSection
        <3> QED
            BY <3>1, <3>3 DEF ReturnInv
    <2>c. CASE a.status # "lost" /\ run # a.req.run
        <3>1. gate' = gate /\ run' = run /\ ready' = ready
            BY <2>c DEF SyncAnswer
        <3>2. \A v \in Users : Section(v, gate[v], gate'[v])
            BY <3>1, AlikeSection DEF Alike
        <3> QED
            BY <3>1, <3>2 DEF ReturnInv
    <2> QED
        BY <2>a, <2>b, <2>c
<1> QED
    BY <1>1, <1>2, <1>3, <1>4, SectionKeeps DEF ReturnsKept, FenceInv

\* The leases of a synchronisation are accepted in their own session only.
LEMMA AcceptReturns ==
    ASSUME GateTypeOK, GateTypeOK', FenceInv, ReturnInv, acceptLeases
    PROVE  ReturnsKept
<1> DEFINE a == call.answer
<1>1. call # None /\ call \in Calls /\ a \in Answers /\ a.req = call.req
    BY CallType DEF acceptLeases
<1>2. Open' \subseteq Open
    BY AcceptOpen
<1>3. runs' = runs /\ run' = run /\ ready' = ready /\ answers' = answers
    BY DEF acceptLeases, netVars
<1>4. call' # None => call'.stage = "confirm"
    <2>1. call' = None \/ call' = [call EXCEPT !.stage = "confirm"]
        BY DEF acceptLeases
    <2> QED
        BY <1>1, <2>1 DEF Calls
<1>5. ASSUME NEW v \in Users PROVE Section(v, gate[v], gate'[v])
    <2>a. CASE run = a.req.run
        <3>1. gate'[v] = Accepted(v, gate[v], a, seq + 1)
            BY <2>a DEF acceptLeases
        <3>2. a.req.run # 0
            BY <1>1 DEF acceptLeases, ReturnInv
        <3>3. run = runs
            BY <2>a, <3>2 DEF ReturnInv
        <3> HIDE DEF a
        <3>4. Turns(gate[v], Accepted(v, gate[v], a, seq + 1), seq + 1)
            BY <1>1, <3>3, GateNumbers, ReturnParts, AcceptedTurns
        <3> QED
            BY <3>1, <3>4, TurnsSection
    <2>b. CASE run # a.req.run
        <3>1. gate' = gate
            BY <2>b DEF acceptLeases
        <3> QED
            BY <3>1, AlikeSection DEF Alike
    <2> QED
        BY <2>a, <2>b
<1>6. run' \in {0, run} /\ (ready' => run' # 0)
    BY <1>3 DEF ReturnInv
<1> QED
    BY <1>2, <1>3, <1>4, <1>5, <1>6, SectionKeeps DEF ReturnsKept, FenceInv

\* The returns of a synchronisation are confirmed.
LEMMA SyncConfirmReturns ==
    ASSUME GateTypeOK, GateTypeOK', FenceInv, ReturnInv, SyncConfirm
    PROVE  ReturnsKept
<1>1. Open' \subseteq Open
    BY OpenShrinks DEF SyncConfirm
<1>2. /\ runs' = runs /\ run' = run /\ ready' = ready /\ answers' = answers /\ call' = None
      /\ gate' = confirmSnapshot(gate, call.req, None)
    BY DEF SyncConfirm, netVars
<1>3. call # None /\ call.req \in Requests
    BY CallType DEF SyncConfirm
<1>4. call.req # None /\ call.req \in Open
    BY <1>3, NoneAssumption DEF Open
<1>5. ASSUME NEW v \in Users PROVE Section(v, gate[v], gate'[v])
    <2>1. Confirmed(gate[v], gate'[v], call.req.seq)
        BY <1>2, GateNumbers, SnapshotConfirms
    <2>2. call \in Awaited(v)
        BY <1>3, <1>4 DEF Awaited
    <2>3. Turns(gate[v], gate[v], seq + 1)
        BY GateNumbers, ReturnParts, AlikeTurns DEF Alike
    <2> QED
        BY <2>1, <2>2, <2>3, GateNumbers DEF Section
<1>6. ready' => run' # 0
    BY <1>2 DEF ReturnInv
<1> QED
    BY <1>1, <1>2, <1>5, <1>6, SectionKeeps DEF ReturnsKept, FenceInv

\* The list of users changes: the leases of removed users are returned.
LEMMA SetUsersReturns ==
    ASSUME GateTypeOK, GateTypeOK', FenceInv, ReturnInv, NEW allowed \in SUBSET Users,
           SetUsers(allowed)
    PROVE  ReturnsKept
<1> DEFINE fenced(u) == [gate[u] EXCEPT !.barrier = seq + 1]
           h(u) == IF Source(u) = None THEN Purge(fenced(u))
                   ELSE revokeLocked(fenced(u), Source(u).lease, NoIdentity, 0, seq + 1)
<1>1. /\ flight' = flight /\ call' = call /\ runs' = runs /\ run' = run /\ ready' = ready
      /\ answers' = answers
    BY DEF SetUsers, netVars
<1>2. Open' \subseteq Open
    BY <1>1, OpenShrinks
<1>3. ASSUME NEW u \in Users PROVE gate'[u] \in {Purge(gate[u]), h(u)}
    BY DEF SetUsers
<1>4. ASSUME NEW u \in Users PROVE Turns(gate[u], h(u), seq + 1)
    <2>1. gate[u] \in UserGates /\ Sane(gate[u])
        BY GateNumbers, ReturnParts
    <2> DEFINE g == fenced(u)
    <2>2. g \in UserGates /\ g.src = gate[u].src /\ g.retired = gate[u].retired
        BY <2>1, GateNumbers DEF UserGates
    <2>3. h(u) = IF Source(u) = None THEN Purge(g)
                 ELSE revokeLocked(g, Source(u).lease, NoIdentity, 0, seq + 1)
        OBVIOUS
    <2> HIDE DEF g, h
    <2>4. Alike(gate[u], g) /\ Sane(g)
        BY <2>1, <2>2 DEF Alike, Sane
    <2>5. CASE Source(u) = None
        <3>1. h(u) \in UserGates /\ Turns(g, h(u), seq + 1)
            BY <2>2, <2>3, <2>4, <2>5, PurgeType, PurgeAlike, AlikeTurns
        <3> QED
            BY <2>1, <2>2, <2>4, <3>1, TurnsAfter
    <2>6. CASE Source(u) # None
        <3>1. Source(u).lease \in Leases
            BY <2>1, <2>6 DEF UserGates, Sources, Source
        <3>2. NoIdentity.run = 0 /\ 0 \in Nat
            BY DEF NoIdentity
        <3>3. h(u) \in UserGates /\ Turns(g, h(u), seq + 1)
            BY <2>2, <2>3, <2>4, <2>6, <3>1, <3>2, GateNumbers, NoIdentityType, RevokeType,
               RevokeTurns
        <3> QED
            BY <2>1, <2>2, <2>4, <3>3, TurnsAfter
    <2> QED
        BY <2>5, <2>6
<1> HIDE DEF h
<1>5. ASSUME NEW u \in Users PROVE Section(u, gate[u], gate'[u])
    <2>1. CASE gate'[u] = Purge(gate[u])
        BY <2>1, GateNumbers, PurgeAlike, AlikeSection
    <2>2. CASE gate'[u] = h(u)
        BY <1>4, <2>2, TurnsSection
    <2> QED
        BY <1>3, <2>1, <2>2
<1>6. /\ call' # None /\ call'.stage = "accept" => call'.req.run # 0
      /\ ready' => run' # 0
    BY <1>1 DEF ReturnInv
<1> QED
    BY <1>1, <1>2, <1>5, <1>6, SectionKeeps DEF ReturnsKept, FenceInv

\* The panel answers requests of a session it knows, or that it is lost.
LEMMA ElsewhereReturns ==
    ASSUME GateTypeOK, ReturnInv, UNCHANGED <<run, runs, ready, gate, flight, call>>,
           \A a \in answers' : a \in answers \/ a.status = "lost" \/ a.req.run # 0
    PROVE  ReturnsKept
<1>1. Open' = Open
    BY DEF Open, Busy
<1>2. ReturnInv'
    BY <1>1 DEF ReturnInv, Source
<1>3. ASSUME NEW u \in Users PROVE ReturnOK(u, gate[u], gate'[u])
    <2>1. gate[u] \in UserGates
        BY DEF GateTypeOK
    <2> QED
        BY <2>1, ReturnFields DEF ReturnOK
<1> QED
    BY <1>2, <1>3 DEF ReturnsKept

\* One answer comes.
LEMMA AnswerReturns ==
    ASSUME GateTypeOK, ReturnInv, NEW req \in wire, NEW a, Answer(req, a),
           a.status = "lost" \/ a.req.run # 0
    PROVE  ReturnsKept
<1>1. UNCHANGED <<run, runs, ready, gate, flight, call>> /\ answers' \subseteq answers \cup {a}
    BY DEF Answer
<1> QED
    BY <1>1, ElsewhereReturns

\* The panel answers.
LEMMA PanelReturns ==
    ASSUME GateTypeOK, ReturnInv, NEW req \in wire,
           PanelLost(req) \/ PanelAdmit(req) \/ PanelSync(req)
    PROVE  ReturnsKept
<1>1. CASE PanelLost(req)
    <2> DEFINE a == NoAnswer(req, "lost")
    <2>1. Answer(req, a) /\ a.status = "lost"
        BY <1>1 DEF PanelLost, NoAnswer
    <2> HIDE DEF a
    <2> QED
        BY <2>1, AnswerReturns
<1>2. CASE PanelAdmit(req)
    <2> DEFINE h == AfterReturns(req)
               u == req.user
    <2>0. req.run # 0
        BY <1>2 DEF PanelAdmit
    <2> HIDE DEF h
    <2>1. ASSUME NEW status,
                 Answer(req, [NoAnswer(req, status) EXCEPT !.revoked = RevokedAt(h)])
          PROVE  ReturnsKept
        <3> DEFINE a == [NoAnswer(req, status) EXCEPT !.revoked = RevokedAt(h)]
        <3>1. Answer(req, a) /\ a.req = req
            BY <2>1 DEF NoAnswer
        <3> HIDE DEF a
        <3> QED
            BY <2>0, <3>1, AnswerReturns
    <2>2. ASSUME Answer(req, [NoAnswer(req, "allowed") EXCEPT
                                !.item = Item(u, hold'[u]), !.revoked = RevokedAt(hold')])
          PROVE  ReturnsKept
        <3> DEFINE a == [NoAnswer(req, "allowed") EXCEPT !.item = Item(u, hold'[u]),
                                                         !.revoked = RevokedAt(hold')]
        <3>1. Answer(req, a) /\ a.req = req
            BY <2>2 DEF NoAnswer
        <3> HIDE DEF a
        <3> QED
            BY <2>0, <3>1, AnswerReturns
    <2> QED
        BY <1>2, <2>1, <2>2 DEF PanelAdmit, h
<1>3. CASE PanelSync(req)
    <2> DEFINE h == AfterReturns(req)
               H == [u \in Users |-> IF h[u] # None /\ ~h[u].revoked /\ u \in req.active
                                     THEN Confirm(h[u], req) ELSE h[u]]
               leases == {Item(u, H[u]) : u \in {v \in Users : H[v] # None /\ ~H[v].revoked}}
               a == [NoAnswer(req, "ok") EXCEPT !.leases = leases, !.revoked = RevokedAt(H),
                         !.idle = {u \in Users : u \notin req.active \cup req.pending}]
    <2>1. Answer(req, a) /\ req.run # 0
        BY <1>3 DEF PanelSync
    <2>2. a.req = req
        BY DEF NoAnswer
    <2> HIDE DEF a
    <2> QED
        BY <2>1, <2>2, AnswerReturns
<1> QED
    BY <1>1, <1>2, <1>3

\* Nothing is returned at first.
LEMMA ReturnInit == GateInit => ReturnInv
BY DEF GateInit, ReturnInv, NoGate, Source, Open, Busy

\* Every step keeps the invariant and drops only confirmed returns.
LEMMA ReturnStep ==
    ASSUME GateTypeOK, GateTypeOK', FenceInv, ReturnInv, [GateNext]_gateVars
    PROVE  ReturnsKept
<1>1. CASE begin
    BY <1>1, BeginReturns
<1>2. CASE Stop
    BY <1>2, StopReturns
<1>3. CASE Tick
    BY <1>3, ElsewhereReturns DEF Tick, netVars
<1>4. CASE PanelForgets
    BY <1>4, ElsewhereReturns DEF PanelForgets, netVars
<1>5. CASE SyncSend \/ SyncError \/ acceptLeases \/ SyncConfirm
    BY <1>5, SyncSendReturns, SyncErrorReturns, AcceptReturns, SyncConfirmReturns
<1>6. ASSUME NEW a \in answers, SyncAnswer(a) PROVE ReturnsKept
    BY <1>6, SyncAnswerReturns
<1>7. ASSUME NEW u \in Users, NEW c \in Conns, Acquire(c, u) \/ CancelWait(c, u) \/ Release(c, u)
      PROVE  ReturnsKept
    BY <1>7, AcquireReturns, CancelWaitReturns, ReleaseReturns
<1>8. ASSUME NEW u \in Users, AdmitSend(u) \/ AdmitError(u) \/ AdmitInstall(u) \/ admit(u)
      PROVE  ReturnsKept
    BY <1>8, AdmitSendReturns, AdmitErrorReturns, AdmitInstallReturns, AdmitGrantReturns
<1>9. ASSUME NEW u \in Users, NEW a \in answers, AdmitAnswer(u, a) PROVE ReturnsKept
    BY <1>9, AdmitAnswerReturns
<1>10. ASSUME NEW u \in Users, expireSource(u) PROVE ReturnsKept
    BY <1>10, ExpireReturns
<1>11. ASSUME NEW u \in Users, PanelRevokes(u) PROVE ReturnsKept
    BY <1>11, ElsewhereReturns DEF PanelRevokes, netVars
<1>12. ASSUME NEW allowed \in SUBSET Users, SetUsers(allowed) PROVE ReturnsKept
    BY <1>12, SetUsersReturns
<1>13. ASSUME NEW req \in wire, PanelLost(req) \/ PanelAdmit(req) \/ PanelSync(req)
       PROVE  ReturnsKept
    BY <1>13, PanelReturns
<1>14. CASE UNCHANGED gateVars
    BY <1>14, ElsewhereReturns DEF gateVars
<1> QED
    BY <1>1, <1>2, <1>3, <1>4, <1>5, <1>6, <1>7, <1>8, <1>9, <1>10, <1>11, <1>12, <1>13, <1>14
       DEF GateNext

\* A request that waits for its answer carries every return older than it, and
\* a lease in use is not being returned.
THEOREM ReturnInvHolds == GateSpec => []ReturnInv
<1>1. GateTypeOK /\ GateTypeOK' /\ FenceInv /\ ReturnInv /\ [GateNext]_gateVars => ReturnInv'
    BY ReturnStep DEF ReturnsKept
<1> QED
    BY <1>1, ReturnInit, GateTypesCorrect, FenceInvHolds, PTL DEF GateSpec

\* The node announces a return until the panel has answered a request that
\* carried this very identity (confirmSnapshot), or until the lease is granted
\* again: calls that overlap, fail or are answered late drop no return that was
\* made while they were under way.
THEOREM ReturnsAreConfirmed == GateSpec => ReturnIsConfirmed
<1>1. GateTypeOK /\ GateTypeOK' /\ FenceInv /\ ReturnInv /\ [GateNext]_gateVars =>
        [\A u \in Users, l \in Leases :
          LET old == gate[u].retired[l]
              new == gate'[u].retired[l]
          IN (old # None /\ (new = None \/ new.run < old.run))
             => \/ gate'[u].src # None /\ gate'[u].src.lease = l
                \/ \E c \in {flight[u], call} \ {None} :
                      /\ c.req # None
                      /\ [user |-> u, lease |-> l, run |-> old.run, cs |-> old.cs] \in c.req.retired]_gateVars
    BY ReturnStep DEF ReturnsKept, ReturnOK
<1> QED
    BY <1>1, ReturnInvHolds, GateTypesCorrect, FenceInvHolds, PTL DEF GateSpec, ReturnIsConfirmed

=============================================================================
