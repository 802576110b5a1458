--------------------------- MODULE SingBoxTraffic ---------------------------
(***************************************************************************)
(* The traffic totals of the sing-box kernel (traffic.go, traffic_retire.go*)
(* and the counting ends of the connections in conntracker.go) under the   *)
(* sampling of the service (collectTraffic): connections add to a counter  *)
(* without a lock while the counter is sampled, given up, and registered   *)
(* anew, also over restarts of the box, which the totals outlive.          *)
(*                                                                         *)
(* One entry of one of the three tables is modelled: they differ in whose  *)
(* presence in the configuration keeps the entry, the user's, the landing  *)
(* node's or that of both.  A byte is what one call of Read, Write or a    *)
(* CountFunc counts.                                                       *)
(* The two loads of a snapshot are one step: the directions are summed     *)
(* apart, and retireCounter looks at both again.                           *)
(***************************************************************************)
EXTENDS TrafficTracker, Sequences

CONSTANTS
    SbConns,      \* connections of the user
    MaxSbBytes,   \* bound: bytes in both directions
    MaxCells      \* bound: counters the entry has had

ASSUME SbTrafficAssumption == {MaxSbBytes, MaxCells} \subseteq Nat

VARIABLES
        \* the table: trafficTotals.users, .relays or .relayUsers
    sbWanted,   \* the user (the landing node) is in users and nodeConfig
    cells,      \* every counter of the entry, oldest first: userTraffic
    registered, \* index of the one in the table, or 0
    sbConns,    \* the connections; tracked: connCount of the current tracker
    retiring,   \* the call of retireCounter that holds the locks
    loop,       \* collectTraffic: idle, sampled (with what) or processed
    sbTracker,  \* the service's tracker
    report,     \* retryReport: a batch being sent, or NoTotal
    delivered,  \* panel (external): what it has confirmed
    moved       \* history: the bytes that passed

sbVars == <<sbWanted, cells, registered, sbConns, retiring, loop, sbTracker,
            report, delivered, moved>>
serviceVars == <<loop, sbTracker, report, delivered>>

NewCell == [value |-> Zero, retired |-> FALSE]
NotRetiring == [at |-> "idle"]
Idle == [at |-> "idle"]

SbTrafficInit ==
    /\ sbWanted = FALSE /\ cells = <<>> /\ registered = 0
    /\ sbConns = [c \in SbConns |-> [at |-> "none", cell |-> 0, tracked |-> FALSE]]
    /\ retiring = NotRetiring
    /\ loop = Idle /\ sbTracker = NewTracker
    /\ report = NoTotal /\ delivered = Zero
    /\ moved = Zero

\* totals.mu is free.
Unlocked == retiring = NotRetiring

-----------------------------------------------------------------------------
\* user and relayCounters: the counter of the table, or a new one.
HasRoom == registered # 0 \/ Len(cells) < MaxCells
Register(cs) == IF registered # 0 THEN cs ELSE Append(cs, NewCell)
RegisteredIn(cs) == IF registered # 0 THEN registered ELSE Len(cs)

\* setNodeUsers with the user in the list.
WantUser ==
    /\ ~sbWanted /\ Unlocked /\ HasRoom
    /\ sbWanted' = TRUE
    /\ cells' = Register(cells) /\ registered' = RegisteredIn(cells')
    /\ UNCHANGED <<sbConns, retiring, serviceVars, moved>>

\* And without it: the counters stay.
DropUser ==
    /\ sbWanted /\ Unlocked
    /\ sbWanted' = FALSE
    /\ UNCHANGED <<cells, registered, sbConns, retiring, serviceVars, moved>>

\* resolveUser: the connection holds the counter it found.
ResolveCounter(c) ==
    /\ sbConns[c].at = "none" /\ sbWanted /\ Unlocked /\ HasRoom
    /\ cells' = Register(cells) /\ registered' = RegisteredIn(cells')
    /\ sbConns' = [sbConns EXCEPT ![c] = [at |-> "resolved", cell |-> registered',
                                          tracked |-> FALSE]]
    /\ UNCHANGED <<sbWanted, retiring, serviceVars, moved>>

\* Admission has counted it in the tracker.
Admit(c) ==
    /\ sbConns[c].at = "resolved"
    /\ sbConns' = [sbConns EXCEPT ![c].at = "open", ![c].tracked = TRUE]
    /\ UNCHANGED <<sbWanted, cells, registered, retiring, serviceVars, moved>>

\* removeConn, or a new box with a new tracker: the connection no longer
\* counts as busy, and may still move bytes.
Untrack(c) ==
    /\ sbConns[c].tracked
    /\ sbConns' = [sbConns EXCEPT ![c].tracked = FALSE]
    /\ UNCHANGED <<sbWanted, cells, registered, retiring, serviceVars, moved>>

\* Its last byte.
Gone(c) ==
    /\ sbConns[c].at = "open" /\ ~sbConns[c].tracked
    /\ sbConns' = [sbConns EXCEPT ![c] = [at |-> "none", cell |-> 0, tracked |-> FALSE]]
    /\ UNCHANGED <<sbWanted, cells, registered, retiring, serviceVars, moved>>

-----------------------------------------------------------------------------
\* trafficCounter.Add: the atomic addition,
AddValue(c, d) ==
    /\ sbConns[c].at = "open" /\ moved["up"] + moved["down"] < MaxSbBytes
    /\ cells' = [cells EXCEPT ![sbConns[c].cell].value[d] = @ + 1]
    /\ moved' = [moved EXCEPT ![d] = @ + 1]
    /\ sbConns' = [sbConns EXCEPT ![c].at = "added"]
    /\ UNCHANGED <<sbWanted, registered, retiring, serviceVars>>

\* then the look at retired.
LookRetired(c) ==
    /\ sbConns[c].at = "added"
    /\ sbConns' = [sbConns EXCEPT
                     ![c].at = IF cells[sbConns[c].cell].retired THEN "late" ELSE "open"]
    /\ UNCHANGED <<sbWanted, cells, registered, retiring, serviceVars, moved>>

\* Mutant: the value stays in the old counter as well.
ReactivateCopies(c) ==
    LET old == sbConns[c].cell
        cs == Register(cells)
        to == RegisteredIn(cs)
    IN /\ sbConns[c].at = "late" /\ Unlocked
       /\ IF ~cells[old].retired \/ cells[old].value = Zero
          THEN UNCHANGED <<cells, registered>>
          ELSE /\ HasRoom
               /\ registered' = to
               /\ cells' = [cs EXCEPT ![to].value = Plus(@, cells[old].value)]
       /\ sbConns' = [sbConns EXCEPT ![c].at = "open"]
       /\ UNCHANGED <<sbWanted, retiring, serviceVars, moved>>

\* reactivate: what came late goes to the counter of the table.
Reactivate(c) ==
    LET old == sbConns[c].cell
        cs == Register([cells EXCEPT ![old].value = Zero])
        to == RegisteredIn(cs)
    IN /\ sbConns[c].at = "late" /\ Unlocked
       /\ IF ~cells[old].retired \/ cells[old].value = Zero
          THEN UNCHANGED <<cells, registered>>
          ELSE /\ HasRoom
               /\ registered' = to
               /\ cells' = [cs EXCEPT ![to].value = Plus(@, cells[old].value)]
       /\ sbConns' = [sbConns EXCEPT ![c].at = "open"]
       /\ UNCHANGED <<sbWanted, retiring, serviceVars, moved>>

-----------------------------------------------------------------------------
\* snapshot, relaySnapshot, relayUserSnapshot.
TotalsSnapshot == IF registered = 0 \/ cells[registered].value = Zero THEN NoTotal
            ELSE cells[registered].value

\* collectTraffic: GetUserTraffic,
Sample ==
    /\ loop = Idle /\ Unlocked
    /\ loop' = [at |-> "sampled", cum |-> TotalsSnapshot]
    /\ UNCHANGED <<sbWanted, cells, registered, sbConns, retiring, sbTracker,
                   report, delivered, moved>>

\* Process; a failure to persist ends it.
ProcessSample ==
    /\ loop.at = "sampled"
    /\ sbTracker' = Process(sbTracker, loop.cum)
    /\ loop' \in {Idle, [at |-> "processed"]}
    /\ UNCHANGED <<sbWanted, cells, registered, sbConns, retiring, report,
                   delivered, moved>>

\* Nothing to give up.
NoneToRetire ==
    /\ loop.at = "processed" /\ Unlocked
    /\ loop' = Idle
    /\ UNCHANGED <<sbWanted, cells, registered, sbConns, retiring, sbTracker,
                   report, delivered, moved>>

\* Whether RetireTraffic keeps the entry.  Only the tracker of the current
\* box knows who is busy.
Kept == sbWanted \/ \E c \in SbConns : sbConns[c].tracked

\* RetireConfirmed and RetireTraffic up to retired.Store(true).
BeginRetire ==
    /\ loop.at = "processed" /\ Unlocked /\ report = NoTotal /\ Candidate(sbTracker)
    /\ ~Kept /\ registered # 0
    /\ cells' = [cells EXCEPT ![registered].retired = TRUE]
    /\ retiring' = [at |-> "up", up |-> 0]
    /\ UNCHANGED <<sbWanted, registered, sbConns, serviceVars, moved>>

SwapUp ==
    /\ retiring.at = "up"
    /\ retiring' = [at |-> "down", up |-> cells[registered].value["up"]]
    /\ cells' = [cells EXCEPT ![registered].value["up"] = 0]
    /\ UNCHANGED <<sbWanted, registered, sbConns, serviceVars, moved>>

SwapDown ==
    /\ retiring.at = "down"
    /\ retiring' = [at |-> "compare",
                    actual |-> [d \in Directions |-> IF d = "up" THEN retiring.up
                                                     ELSE cells[registered].value["down"]]]
    /\ cells' = [cells EXCEPT ![registered].value["down"] = 0]
    /\ UNCHANGED <<sbWanted, registered, sbConns, serviceVars, moved>>

\* The value is the one that was confirmed: the entry is deleted, and the
\* tracker forgets it.
Delete ==
    /\ retiring.at = "compare" /\ retiring.actual = sbTracker.lastSeen
    /\ registered' = 0 /\ sbTracker' = Forgotten(sbTracker)
    /\ retiring' = NotRetiring /\ loop' = Idle
    /\ UNCHANGED <<sbWanted, cells, sbConns, report, delivered, moved>>

\* It is not: the value is added back, then retired is cleared.
AddBack ==
    /\ retiring.at = "compare" /\ retiring.actual # sbTracker.lastSeen
    /\ cells' = [cells EXCEPT ![registered].value = Plus(@, retiring.actual)]
    /\ retiring' = [at |-> "restored"]
    /\ UNCHANGED <<sbWanted, registered, sbConns, serviceVars, moved>>

Unretire ==
    /\ retiring.at = "restored"
    /\ cells' = [cells EXCEPT ![registered].retired = FALSE]
    /\ retiring' = NotRetiring /\ loop' = Idle
    /\ UNCHANGED <<sbWanted, registered, sbConns, sbTracker, report, delivered, moved>>

\* The report leaves the tracker; a failed one stays in retryReport.
FlushReport ==
    /\ report = NoTotal /\ sbTracker.pending # NoTotal /\ Unlocked
    /\ report' = sbTracker.pending /\ sbTracker' = Flushed(sbTracker)
    /\ UNCHANGED <<sbWanted, cells, registered, sbConns, retiring, loop, delivered,
                   moved>>

ConfirmBatch ==
    /\ report # NoTotal /\ Unlocked
    /\ delivered' = Plus(delivered, report) /\ report' = NoTotal
    /\ UNCHANGED <<sbWanted, cells, registered, sbConns, retiring, loop, sbTracker,
                   moved>>

SbTrafficNext ==
    \/ WantUser \/ DropUser
    \/ \E c \in SbConns : \/ ResolveCounter(c) \/ Admit(c) \/ Untrack(c) \/ Gone(c)
                          \/ LookRetired(c) \/ Reactivate(c)
                          \/ \E d \in Directions : AddValue(c, d)
    \/ Sample \/ ProcessSample \/ NoneToRetire \/ FlushReport \/ ConfirmBatch
    \/ BeginRetire \/ SwapUp \/ SwapDown \/ Delete \/ AddBack \/ Unretire

-----------------------------------------------------------------------------
HeldTraffic(d) ==
    LET f[i \in 0 .. Len(cells)] == IF i = 0 THEN 0 ELSE f[i - 1] + cells[i].value[d]
    IN f[Len(cells)]

Told(d) == delivered[d] + OrZero(report)[d] + OrZero(sbTracker.pending)[d]

(***************************************************************************)
(* Every byte a connection moved is told to the panel once: it is in what  *)
(* was taken from the counters, or still in a counter, above what the      *)
(* tracker has seen of it; bytes in a counter that was given up belong to  *)
(* a call of Add that has still to hand them on, so that none is left      *)
(* behind when the connections are quiet.  This is about the lock-free     *)
(* additions of conntracker.go racing retireCounter and reactivate.        *)
(***************************************************************************)
SbTrafficConserved ==
    /\ \A d \in Directions : Told(d) <= moved[d]
    /\ Unlocked => \A d \in Directions :
                      moved[d] = Told(d) + HeldTraffic(d) - OrZero(sbTracker.lastSeen)[d]
    /\ Unlocked => \A i \in 1 .. Len(cells) :
                      i # registered /\ cells[i].value # Zero
                      => \E c \in SbConns : sbConns[c].cell = i
                                            /\ sbConns[c].at \in {"added", "late"}
=============================================================================
