--------------------------- MODULE TrafficTracker ---------------------------
(***************************************************************************)
(* The tracker of a node service (internal/tracker): it turns the totals a *)
(* kernel counts into what is reported, and forgets a total that the panel *)
(* has confirmed and the kernel has given up.                              *)
(*                                                                         *)
(* A total is the pair of upload and download.  The totals of users, of    *)
(* landing nodes and of users on landing nodes are kept by the same code   *)
(* three times over; an operator here is about one entry of one of them.   *)
(***************************************************************************)
EXTENDS Integers

CONSTANT NoTotal   \* the entry is missing

Directions == {"up", "down"}
Zero == [d \in Directions |-> 0]
Plus(a, b) == [d \in Directions |-> a[d] + b[d]]
OrZero(total) == IF total = NoTotal THEN Zero ELSE total

NewTracker == [lastSeen |-> NoTotal, pending |-> NoTotal]

\* A counter that went back was reset and counts in full.
Delta(cum, prev) ==
    [d \in Directions |-> IF cum[d] < prev[d] THEN cum[d] ELSE cum[d] - prev[d]]

\* Process, ProcessRelay and ProcessRelayUser: cum is missing where it is 0.
Process(t, cum) ==
    LET delta == Delta(cum, OrZero(t.lastSeen))
    IN IF cum = NoTotal THEN t
       ELSE [lastSeen |-> cum,
             pending |-> IF delta = Zero THEN t.pending
                         ELSE Plus(OrZero(t.pending), delta)]

\* Flush.
Flushed(t) == [t EXCEPT !.pending = NoTotal]

\* RetireConfirmed: which entries the kernel may give up, and what is
\* forgotten when it did.
Candidate(t) == t.lastSeen # NoTotal /\ t.pending = NoTotal
Forgotten(t) == [t EXCEPT !.lastSeen = NoTotal]
=============================================================================
