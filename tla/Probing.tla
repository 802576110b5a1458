------------------------------ MODULE Probing ------------------------------
(***************************************************************************)
(* The monitor of internal/scheduling: it dials the landing ports the      *)
(* panel names and keeps, for each, whether it is healthy.  Update         *)
(* replaces the targets while a round of probes is under way; record       *)
(* takes a measurement and debounces it.                                   *)
(* The round trip time and the limits on the form of a target are left     *)
(* out; a list with more than 256 targets is the empty one.                *)
(***************************************************************************)
EXTENDS Naturals, Sequences

CONSTANTS
    ProbeNodes,   \* node ids
    Places,       \* what a target is besides its id: address, port and token
    NoPlace,      \* no target for the node
    MaxOutcomes,  \* bound: measurements recorded for one target
    MaxSeconds    \* bound: the clock, in the seconds CheckedAt counts

VARIABLES
    places,     \* Monitor.targets
    results,    \* Monitor.results
    wake,       \* a value waits in Monitor.wake
    signalling, \* Update changed the targets and has not signalled yet
    round,      \* the copy of the targets a round works on, NoPlace when done
    seconds,    \* wall clock
    outcomes,   \* history: what was recorded for the current target
    unprobed    \* history: targets changed since the last round took its copy

probingVars == <<places, results, wake, signalling, round, seconds, outcomes, unprobed>>

NoResult == [place |-> NoPlace, healthy |-> FALSE, checked |-> 0, good |-> 0, bad |-> 0]
Idle == [n \in ProbeNodes |-> NoPlace]

ProbingInit ==
    /\ places = Idle /\ round = Idle
    /\ results = [n \in ProbeNodes |-> NoResult]
    /\ wake = FALSE /\ signalling = FALSE
    /\ seconds = 1
    /\ outcomes = [n \in ProbeNodes |-> <<>>]
    /\ unprobed = {}

\* Monitor.Update under the lock: a changed or absent target loses its result.
UpdatePlaces(next) ==
    LET changed == {n \in ProbeNodes : places[n] # next[n]}
    IN  /\ ~signalling /\ changed # {}
        /\ places' = next
        /\ results' = [n \in ProbeNodes |-> IF n \in changed THEN NoResult ELSE results[n]]
        /\ outcomes' = [n \in ProbeNodes |-> IF n \in changed THEN <<>> ELSE outcomes[n]]
        /\ unprobed' = {n \in unprobed \cup changed : next[n] # NoPlace}
        /\ signalling' = TRUE
        /\ UNCHANGED <<wake, round, seconds>>

\* The channel holds one value; another signal is dropped.
SignalChange ==
    /\ signalling
    /\ signalling' = FALSE /\ wake' = TRUE
    /\ UNCHANGED <<places, results, round, seconds, outcomes, unprobed>>

\* Monitor.probe copies the targets; Run starts it on a tick or a signal.
StartRound(tick) ==
    /\ round = Idle /\ (tick \/ wake)
    /\ wake' = (wake /\ tick)
    /\ round' = places
    /\ unprobed' = {}
    /\ UNCHANGED <<places, results, signalling, seconds, outcomes>>

\* Monitor.record on what was there before.
Recorded(previous, place, ok) ==
    LET good == IF ok THEN previous.good + 1 ELSE 0
        bad  == IF ok THEN 0 ELSE previous.bad + 1
    IN  [place |-> place, checked |-> seconds,
         good |-> IF good >= 2 THEN 2 ELSE good,
         bad |-> IF bad >= 2 THEN 2 ELSE bad,
         healthy |-> IF previous = NoResult THEN ok
                     ELSE IF good >= 2 THEN TRUE
                     ELSE IF bad >= 2 THEN FALSE
                     ELSE previous.healthy]

\* Mutant: a measurement is taken for whatever target the node has now.
AnyTarget(n) == places[n] # NoPlace

\* The measured target is still the node's.
StillTarget(n) == places[n] = round[n]

\* A dial of the round ends and is recorded.
RecordProbe(n, ok) ==
    /\ round[n] # NoPlace /\ Len(outcomes[n]) < MaxOutcomes
    /\ round' = [round EXCEPT ![n] = NoPlace]
    /\ IF StillTarget(n) /\ results[n].checked < seconds
       THEN /\ results' = [results EXCEPT ![n] = Recorded(@, round[n], ok)]
            /\ outcomes' = [outcomes EXCEPT ![n] = Append(@, ok)]
       ELSE UNCHANGED <<results, outcomes>>
    /\ UNCHANGED <<places, wake, signalling, seconds, unprobed>>

SecondPasses ==
    /\ seconds < MaxSeconds
    /\ seconds' = seconds + 1
    /\ UNCHANGED <<places, results, wake, signalling, round, outcomes, unprobed>>

ProbingNext ==
    \/ \E next \in [ProbeNodes -> Places \cup {NoPlace}] : UpdatePlaces(next)
    \/ SignalChange \/ SecondPasses
    \/ \E tick \in BOOLEAN : StartRound(tick)
    \/ \E n \in ProbeNodes, ok \in BOOLEAN : RecordProbe(n, ok)

ProbingSpec == ProbingInit /\ [][ProbingNext]_probingVars

-----------------------------------------------------------------------------
\* Where a measurement repeats the one before it.
Twice(s) == {i \in 2..Len(s) : s[i] = s[i - 1]}

\* What two equal measurements in a row last said, or else the first one.
Debounced(s) ==
    IF Twice(s) = {} THEN s[1] ELSE s[CHOOSE i \in Twice(s) : \A j \in Twice(s) : j <= i]

\* Monitor.record (scheduling/probe.go): a result is about the target the node
\* has now, and its health is what its own measurements say after debouncing.
ResultsAreMeasured ==
    \A n \in ProbeNodes :
        IF outcomes[n] = <<>> THEN results[n] = NoResult
        ELSE results[n].place = places[n] /\ results[n].healthy = Debounced(outcomes[n])

\* Monitor.Update: a changed target that no round has seen has a signal waiting.
ChangeIsSignalled == unprobed # {} => wake \/ signalling

ProbingHolds == ResultsAreMeasured /\ ChangeIsSignalled

-----------------------------------------------------------------------------
(***************************************************************************)
(* The inductive invariant.                                                *)
(***************************************************************************)
Targets == Places \cup {NoPlace}
Results == [place : Targets, healthy : BOOLEAN, checked : Nat, good : 0..2, bad : 0..2]

ProbingTypeOK ==
    /\ places \in [ProbeNodes -> Targets] /\ round \in [ProbeNodes -> Targets]
    /\ results \in [ProbeNodes -> Results]
    /\ outcomes \in [ProbeNodes -> Seq(BOOLEAN)]
    /\ wake \in BOOLEAN /\ signalling \in BOOLEAN
    /\ seconds \in Nat /\ unprobed \subseteq ProbeNodes

\* How many of the last measurements agree, up to two.
Agreeing(s) == IF Len(s) \in Twice(s) THEN 2 ELSE 1

\* The counters of a result are about its last measurements, and its health
\* is theirs.
Measured(r, s) ==
    /\ r.good = (IF s[Len(s)] THEN Agreeing(s) ELSE 0)
    /\ r.bad = (IF s[Len(s)] THEN 0 ELSE Agreeing(s))
    /\ r.healthy = Debounced(s)
    /\ Twice(s) # {} => \E i \in Twice(s) : \A j \in Twice(s) : j <= i

ProbingInv ==
    /\ ProbingTypeOK
    /\ ChangeIsSignalled
    /\ \A n \in ProbeNodes :
          IF outcomes[n] = <<>> THEN results[n] = NoResult
          ELSE /\ places[n] # NoPlace /\ results[n].place = places[n]
               /\ Measured(results[n], outcomes[n])
=============================================================================
