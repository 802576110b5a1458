---------------------------- MODULE TrafficMeter ----------------------------
(***************************************************************************)
(* The traffic quota of a machine (internal/machinetraffic/meter.go, and   *)
(* initTraffic of internal/machine/traffic.go): the meter counts what the  *)
(* network interfaces of the host counted, over process deaths, reboots,   *)
(* failed writes and reads, changes of period and policy, and says whether *)
(* proxying is blocked.                                                    *)
(*                                                                         *)
(* One direction, one interface at a time and one accounting epoch are     *)
(* modelled; a new epoch is treated by Apply as the loss of the file is.   *)
(* In proxy mode the panel counts: its total is left out, as are Baseline  *)
(* and Active, which only add to the count or block.                       *)
(* A byte is what flows between two ticks.  The machine uses a verdict at  *)
(* once; that it may be late there is in module Machine.                   *)
(***************************************************************************)
EXTENDS Naturals

CONSTANTS
    Quota,        \* Policy.Limit
    MaxBytes,     \* where additions saturate
    MaxTraffic,   \* bound: bytes since the counters started
    MaxGaps,      \* bound: reboots, resets and changes of the interface
    MaxRevision,  \* bound: revisions of the policy
    MaxPeriod,    \* bound: accounting periods
    NoFileYet, Damaged, NoReading

ASSUME MeterAssumption ==
    /\ Quota \in Nat \ {0} /\ MaxBytes \in Nat /\ MaxBytes >= Quota
    /\ {MaxTraffic, MaxGaps, MaxRevision, MaxPeriod} \subseteq Nat

VARIABLES
    calendar,    \* the period the clock is in
    net, boot,   \* host: counter of the interface, and its identity
    panelSide,   \* panel (external): its policy and what it was told
    exchange,    \* the panel's answer to a sample, on its way
    disk,        \* the state file
    meter,       \* Meter; stage is that of the process
    verdict_,    \* trafficBlocked
    due,         \* history: bytes proxied in this period
    flowed,      \* history: a byte was proxied since the last tick
    gaps,        \* history: bytes may have escaped the interface's counters
    forgot       \* history: a process that knew its state lost has died

quotaVars == <<due, flowed, gaps, forgot>>
meterWorld == <<calendar, net, boot, panelSide, exchange, disk, meter, verdict_, due,
                flowed, gaps, forgot>>

add(a, b) == IF a + b > MaxBytes THEN MaxBytes ELSE a + b
Larger(a, b) == IF a > b THEN a ELSE b
NewSample(p) == [tx |-> 0, period |-> p, init |-> FALSE, err |-> "none"]
FirstPolicy == [rev |-> 1, mode |-> "nic", ifc |-> 1, period |-> 1, tx |-> 0,
                init |-> FALSE]
Dead == [stage |-> "dead", loaded |-> FALSE, lost |-> FALSE, writeFailed |-> FALSE,
         confirmed |-> FALSE, policy |-> FirstPolicy, sample |-> NewSample(1),
         prev |-> NoReading]

MeterInit ==
    /\ calendar = 1 /\ net = 0 /\ boot = 1
    /\ panelSide = FirstPolicy /\ exchange = [at |-> "none"]
    /\ disk = NoFileYet /\ meter = Dead
    /\ verdict_ = TRUE
    /\ due = 0 /\ flowed = FALSE /\ gaps = 0 /\ forgot = FALSE

-----------------------------------------------------------------------------
\* New.
Loaded ==
    IF disk \in {NoFileYet, Damaged} THEN [Dead EXCEPT !.lost = disk = Damaged]
    ELSE [Dead EXCEPT !.loaded = TRUE, !.lost = disk.sample.err = "lost",
                      !.policy = disk.policy, !.sample = disk.sample, !.prev = disk.prev]

\* The totals the panel sends are used once.
Kept(p) == [p EXCEPT !.tx = 0, !.init = FALSE]

\* Apply to a meter of the same epoch: an older period of the panel does not
\* replace a newer one, totals never go down.
Adopt(m, p) ==
    LET old == m.policy
        newer == p.period > old.period
        q == IF p.period < old.period THEN [p EXCEPT !.period = old.period, !.tx = 0] ELSE p
        sample == IF newer THEN NewSample(p.period) ELSE m.sample
        switched == (p.mode = "proxy") # (old.mode = "proxy")
    IN [m EXCEPT
          !.policy = Kept(q),
          !.lost = m.lost /\ ~newer,
          !.prev = IF (newer /\ m.lost) \/ p.ifc # old.ifc THEN NoReading ELSE m.prev,
          !.sample = [sample EXCEPT
             !.init = sample.init /\ ~switched,
             !.err = IF switched THEN "none" ELSE sample.err,
             !.tx = IF sample.period = q.period THEN Larger(sample.tx, q.tx) ELSE sample.tx]]

\* Mutant: the panel's total is where the count begins.
AdoptedTotal(m, p) ==
    [m EXCEPT !.loaded = TRUE, !.lost = FALSE, !.policy = Kept(p), !.prev = NoReading,
              !.sample = [NewSample(p.period) EXCEPT !.tx = p.tx]]

\* Apply to a meter that has no state: what the panel was told before must
\* not be replaced by a new beginning.
Adopted(m, p) ==
    [m EXCEPT !.loaded = TRUE, !.lost = p.init, !.policy = Kept(p), !.prev = NoReading,
              !.sample = [NewSample(p.period) EXCEPT !.tx = p.tx]]

\* saveLocked, which may fail; a tick then notes the error.
Save(m, err) ==
    \/ /\ disk' = [policy |-> m.policy, sample |-> m.sample, prev |-> m.prev]
       /\ meter' = [m EXCEPT !.writeFailed = FALSE]
    \/ /\ disk' = disk
       /\ meter' = [m EXCEPT !.writeFailed = TRUE, !.sample.err = err]

Apply(m, p) ==
    LET n == IF m.loaded THEN Adopt(m, p) ELSE Adopted(m, p)
    IN IF m.loaded /\ p.rev < m.policy.rev THEN meter' = m /\ disk' = disk
       ELSE Save([n EXCEPT !.confirmed = p.mode = "proxy"], n.sample.err)

\* blockedLocked.
Blocks(m) ==
    \/ ~m.loaded \/ m.writeFailed \/ ~m.sample.init \/ m.sample.err # "none"
    \/ m.policy.mode = "proxy" /\ ~m.confirmed
    \/ m.policy.mode = "nic" /\ (m.lost \/ m.sample.tx >= Quota)

-----------------------------------------------------------------------------
\* delta: a new boot or interface, or a counter that went back, counts in full.
delta(prev) == IF prev.boot # boot \/ net < prev.at THEN net ELSE net - prev.at

\* The new period, if the clock has reached it.
InPeriod(m) ==
    IF calendar <= m.policy.period THEN m
    ELSE [m EXCEPT !.policy.period = calendar,
                   !.sample = NewSample(calendar), !.lost = FALSE,
                   !.prev = IF m.lost THEN NoReading ELSE m.prev]

\* The count of a tick.
Counted(m, readable) ==
    IF m.policy.mode = "proxy" THEN [m EXCEPT !.sample.err = "none", !.sample.init = TRUE]
    ELSE IF m.lost THEN [m EXCEPT !.sample.err = "lost", !.sample.init = FALSE]
    ELSE IF ~readable THEN [m EXCEPT !.sample.err = "read"]
    ELSE [m EXCEPT !.prev = [boot |-> boot, at |-> net],
                   !.sample.err = "none", !.sample.init = TRUE,
                   !.sample.tx = add(@, IF m.prev = NoReading THEN 0 ELSE delta(m.prev))]

Tick ==
    /\ meter.stage \in {"started", "ticked"} /\ meter.loaded
    /\ \E readable \in BOOLEAN :
         Save([Counted(InPeriod(meter), readable) EXCEPT !.stage = "ticked"], "write")
    /\ verdict_' = Blocks(meter')
    /\ flowed' = FALSE
    /\ UNCHANGED <<calendar, net, boot, panelSide, exchange, due, gaps, forgot>>

\* New and the first Apply of initTraffic; the panel may send no policy.
\* A state that cannot be written leaves the proxies protected.
StartMeter ==
    /\ meter.stage = "dead"
    /\ \/ Apply([Loaded EXCEPT !.stage = "started"], panelSide)
       \/ Loaded.loaded /\ meter' = [Loaded EXCEPT !.stage = "started"] /\ disk' = disk
    /\ exchange' = [at |-> "none"]
    /\ verdict_' = TRUE
    /\ UNCHANGED <<calendar, net, boot, panelSide, quotaVars>>

-----------------------------------------------------------------------------
\* The reporter: the panel takes the sample of the last tick (a later policy
\* only raises it to what the panel has) and answers with its policy.
ExchangeMachineTraffic ==
    /\ meter.stage = "ticked" /\ exchange.at = "none"
    /\ LET s == meter.sample
           p == IF s.period > panelSide.period
                THEN [panelSide EXCEPT !.period = s.period, !.tx = 0] ELSE panelSide
           q == IF s.period = p.period /\ s.init
                THEN [p EXCEPT !.tx = Larger(@, s.tx), !.init = TRUE] ELSE p
       IN panelSide' = q /\ exchange' = [at |-> "answer", policy |-> q]
    /\ UNCHANGED <<calendar, net, boot, disk, meter, verdict_, quotaVars>>

AnswerLost ==
    /\ exchange.at # "none"
    /\ exchange' = [at |-> "none"]
    /\ UNCHANGED <<calendar, net, boot, panelSide, disk, meter, verdict_, quotaVars>>

ApplyAnswer ==
    /\ exchange.at = "answer"
    /\ Apply(meter, exchange.policy)
    /\ exchange' = [at |-> "none"]
    /\ verdict_' = (meter'.writeFailed \/ Blocks(meter'))
    /\ UNCHANGED <<calendar, net, boot, panelSide, quotaVars>>

\* The last confirmation is three minutes old.
ConfirmationEnds ==
    /\ meter.confirmed
    /\ meter' = [meter EXCEPT !.confirmed = FALSE]
    /\ UNCHANGED <<calendar, net, boot, panelSide, exchange, disk, verdict_, quotaVars>>

-----------------------------------------------------------------------------
(***************************************************************************)
(* The host, the clock and the panel's operator.                           *)
(***************************************************************************)
Proxying == meter.stage = "ticked" /\ ~verdict_

\* At most one byte between two ticks.  In proxy mode the panel counts.
Traffic ==
    /\ Proxying /\ ~flowed /\ net < MaxTraffic
    /\ net' = net + 1 /\ flowed' = TRUE
    /\ due' = IF meter.policy.mode = "nic" THEN due + 1 ELSE due
    /\ UNCHANGED <<calendar, boot, panelSide, exchange, disk, meter, verdict_, gaps, forgot>>

Die ==
    /\ meter' = Dead /\ exchange' = [at |-> "none"] /\ verdict_' = TRUE
    /\ forgot' = (forgot \/ (meter.lost /\ disk \notin {NoFileYet, Damaged}
                             /\ disk.sample.err # "lost"))

ProcessDies ==
    /\ meter.stage # "dead" /\ Die
    /\ UNCHANGED <<calendar, net, boot, panelSide, disk, due, flowed, gaps>>

\* A reboot, or an interface that is made anew under the running process.
CountersRestart ==
    /\ gaps < MaxGaps /\ gaps' = gaps + 1
    /\ net' = 0 /\ boot' = boot + 1
    /\ (Die \/ UNCHANGED <<meter, exchange, verdict_, forgot>>)
    /\ UNCHANGED <<calendar, panelSide, disk, due, flowed>>

\* What nobody has been told is lost with the file.
FileLost ==
    /\ meter.stage = "dead" /\ disk \notin {NoFileYet, Damaged}
    /\ disk' \in {NoFileYet, Damaged}
    /\ due' = IF panelSide.init /\ panelSide.period = calendar THEN due ELSE 0
    /\ UNCHANGED <<calendar, net, boot, panelSide, exchange, meter, verdict_, flowed, gaps,
                   forgot>>

PeriodEnds ==
    /\ calendar < MaxPeriod
    /\ calendar' = calendar + 1 /\ due' = 0
    /\ UNCHANGED <<net, boot, panelSide, exchange, disk, meter, verdict_, flowed, gaps, forgot>>

PanelEdits ==
    /\ panelSide.rev < MaxRevision
    /\ \/ /\ panelSide' = [panelSide EXCEPT !.rev = @ + 1,
                              !.mode = IF @ = "nic" THEN "proxy" ELSE "nic"]
          /\ UNCHANGED gaps
       \/ /\ gaps < MaxGaps /\ gaps' = gaps + 1
          /\ panelSide' = [panelSide EXCEPT !.rev = @ + 1, !.ifc = @ + 1]
    /\ UNCHANGED <<calendar, net, boot, exchange, disk, meter, verdict_, due, flowed, forgot>>

PanelTurnsPeriod ==
    /\ panelSide.period < calendar
    /\ panelSide' = [panelSide EXCEPT !.period = calendar, !.tx = 0]
    /\ UNCHANGED <<calendar, net, boot, exchange, disk, meter, verdict_, quotaVars>>

MeterNext ==
    \/ StartMeter \/ Tick \/ ExchangeMachineTraffic \/ AnswerLost \/ ApplyAnswer
    \/ ConfirmationEnds \/ Traffic \/ ProcessDies \/ CountersRestart \/ FileLost
    \/ PeriodEnds \/ PanelEdits \/ PanelTurnsPeriod

MeterSpec == MeterInit /\ [][MeterNext]_meterWorld

-----------------------------------------------------------------------------
\* In a period no more is proxied than the quota, but for what flowed before
\* the tick that noticed, and before each restart of the host's counters or
\* change of the interface: neither a process that dies, a failed write or
\* read, a lost file, a late answer of the panel nor a change of mode or
\* period gives the machine a new beginning (Apply).
QuotaHolds == ~forgot => due <= Quota + gaps

-----------------------------------------------------------------------------
(***************************************************************************)
(* The inductive invariant.                                                *)
(***************************************************************************)
Policies == [rev : Nat, mode : {"nic", "proxy"}, ifc : Nat \ {0}, period : Nat, tx : Nat,
             init : BOOLEAN]
Samples == [tx : Nat, period : Nat, init : BOOLEAN, err : {"none", "read", "write", "lost"}]
Readings == [boot : Nat, at : Nat]
Files == [policy : Policies, sample : Samples, prev : Readings \cup {NoReading}]
Meters ==
    [stage : {"dead", "started", "ticked"}, loaded : BOOLEAN, lost : BOOLEAN,
     writeFailed : BOOLEAN, confirmed : BOOLEAN, policy : Policies, sample : Samples,
     prev : Readings \cup {NoReading}]

ASSUME FilesAssumption ==
    /\ NoFileYet \notin Files /\ Damaged \notin Files
    /\ NoReading \notin Readings

Absent == disk \in {NoFileYet, Damaged}

MeterTypeOK ==
    /\ calendar \in Nat /\ net \in Nat /\ boot \in Nat /\ due \in Nat /\ gaps \in Nat
    /\ panelSide \in Policies
    /\ exchange \in [at : {"none"}] \cup [at : {"answer"}, policy : Policies]
    /\ disk \in Files \cup {NoFileYet, Damaged}
    /\ meter \in Meters
    /\ verdict_ \in BOOLEAN /\ flowed \in BOOLEAN /\ forgot \in BOOLEAN

\* The bytes that a meter, or a file, has counted in this period, and whether
\* the next reading will add to them.
Count(x) == IF x.sample.period = calendar THEN x.sample.tx ELSE 0
Behind(x) == IF x.prev # NoReading /\ delta(x.prev) > 0 THEN 1 ELSE 0

\* The panel names interfaces one after another.
Follows(p, q) == p.rev <= q.rev /\ p.ifc <= q.ifc

\* A state agrees with the panel's past and with the counters of the host.
Agrees(x) ==
    /\ x.policy.period = x.sample.period /\ x.sample.period <= calendar
    /\ Follows(x.policy, panelSide)
    /\ x.prev # NoReading => /\ x.prev.boot <= boot
                             /\ x.prev.boot = boot => x.prev.at <= net

\* All that is due is in a state's count, but for a byte that the next reading
\* shows and what escaped at the gaps; of the changes of interface only those
\* that the state has seen are gaps for it.
Covers(x) == due + panelSide.ifc <= Count(x) + Behind(x) + gaps + x.policy.ifc
WithinQuota(x) == due + panelSide.ifc <= Quota + gaps + x.policy.ifc

\* A state may be relied on, lost says not for this period, known that it is
\* what the process goes on with.
Sound(x, lost, known) ==
    /\ Agrees(x)
    /\ lost /\ x.sample.period < calendar => due = 0
    /\ ~forgot => WithinQuota(x)
    /\ ~forgot /\ known => Covers(x)

\* A meter that counts.
Counting(m) ==
    /\ m.stage = "ticked" /\ m.policy.mode = "nic"
    /\ m.sample.init /\ m.sample.err = "none" /\ ~m.lost

\* While it counts, only the byte since the last tick is missing, and there is
\* room for that one already if there is no reading to compare with.
Accounts(m, recent) ==
    Counting(m) =>
        /\ ~forgot => due + panelSide.ifc
                        <= Count(m) + gaps + m.policy.ifc + (IF recent THEN 1 ELSE 0)
        /\ m.prev = NoReading =>
             /\ m.policy.ifc >= 2
             /\ ~forgot => due + panelSide.ifc + (IF recent THEN 0 ELSE 1)
                             <= Count(m) + gaps + m.policy.ifc

WorldInv ==
    /\ panelSide.ifc <= gaps + 1 /\ panelSide.period <= calendar
    /\ ~forgot => due <= Quota + gaps
    /\ exchange.at = "answer" =>
         /\ meter.stage = "ticked"
         /\ Follows(exchange.policy, panelSide) /\ exchange.policy.period <= calendar
         /\ exchange.policy.rev >= meter.policy.rev => exchange.policy.ifc >= meter.policy.ifc

MemoryInv ==
    /\ meter.stage = "dead" => meter = Dead
    /\ meter.stage # "dead" =>
         /\ meter.loaded
         /\ Sound(meter, meter.lost, ~meter.lost)
         /\ meter.sample.err = "lost" => meter.lost
         /\ ~meter.writeFailed =>
              disk = [policy |-> meter.policy, sample |-> meter.sample, prev |-> meter.prev]
    /\ Accounts(meter, flowed)
    /\ Proxying /\ meter.policy.mode = "nic" =>
         Counting(meter) /\ meter.sample.tx < Quota /\ ~meter.writeFailed

FileInv ==
    /\ Absent => due = 0 \/ (panelSide.init /\ panelSide.period = calendar)
    /\ ~Absent => Sound(disk, disk.sample.err = "lost", ~meter.lost /\ disk.sample.err # "lost")

MeterInv == MeterTypeOK /\ WorldInv /\ MemoryInv /\ FileInv
=============================================================================
