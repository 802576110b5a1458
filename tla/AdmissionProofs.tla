---------------------------- MODULE AdmissionProofs ----------------------------
(***************************************************************************)
(* Theorems about the admission of connections by the sing-box kernel      *)
(* (SingBoxAdmission) and of requests by the xray kernel (XrayAdmission):  *)
(* counts, slots and references are those of the connections and requests  *)
(* under way, the limits hold, and who is no longer allowed is closed.     *)
(*                                                                         *)
(* A connection is followed by its record: ConnSound says what the record  *)
(* of a connection is like in each of its steps; a step of one connection  *)
(* keeps the invariant when it keeps that record sound and the books of    *)
(* its userStats and of its source in balance.  XSound and XMove do the    *)
(* same for a request of the xray kernel.                                  *)
(***************************************************************************)
EXTENDS SingBoxAdmission, XrayAdmission, FiniteSetTheorems, SequenceTheorems, TLAPS

-----------------------------------------------------------------------------
(***************************************************************************)
(* Sets of connections, when one connection takes a step.                  *)
(***************************************************************************)
Bit(b) == IF b THEN 1 ELSE 0

\* Two finite sets that differ at most in c.
LEMMA CardinalityOfChange ==
    ASSUME NEW S, NEW T, NEW c, IsFiniteSet(S), IsFiniteSet(T), S \ {c} = T \ {c}
    PROVE  /\ Cardinality(S) \in Nat /\ Cardinality(T) \in Nat
           /\ Cardinality(T) = Cardinality(S) - Bit(c \in S) + Bit(c \in T)
<1>1. /\ Cardinality(S) \in Nat /\ Cardinality(T) \in Nat
      /\ Cardinality(S \ {c}) \in Nat
    BY FS_CardinalityType, FS_RemoveElement
<1>2. Cardinality(S \ {c}) = IF c \in S THEN Cardinality(S) - 1 ELSE Cardinality(S)
    BY FS_RemoveElement
<1>3. Cardinality(T \ {c}) = IF c \in T THEN Cardinality(T) - 1 ELSE Cardinality(T)
    BY FS_RemoveElement
<1>4. Cardinality(S \ {c}) = Cardinality(T \ {c})
    OBVIOUS
<1> QED
    BY <1>1, <1>2, <1>3, <1>4 DEF Bit

-----------------------------------------------------------------------------
(***************************************************************************)
(* sing-box.  What is counted, as operators of the connections C.          *)
(***************************************************************************)
Counts(r) == r.at = "counted" \/ r.life \in {"open", "closing"}
Waits(r) == r.at \in {"acquiring", "granted", "valid", "denied"}
Refers(r) == r.life \in {"open", "closing", "uncounted"}

CountedOf(C, i) == {c \in AdConns : C[c].us = i /\ Counts(C[c])}
WaitingOf(C, i) == {c \in AdConns : C[c].us = i /\ Waits(C[c])}
FromOf(C, i, s) == {c \in AdConns : C[c].us = i /\ Counts(C[c]) /\ C[c].source = s}
ReferringTo(C, s) == {c \in AdConns : Refers(C[c]) /\ C[c].source = s}

BooksOf(st, i, C) ==
    /\ st[i].connCount = Cardinality(CountedOf(C, i))
    /\ st[i].pending = Cardinality(WaitingOf(C, i))
    /\ \A s \in AdSources : st[i].ips[s] = Cardinality(FromOf(C, i, s))
Books(st, C) == \A i \in 1..Len(st) : BooksOf(st, i, C)
References(src, C) ==
    \A s \in AdSources : src[s] = IF ~relayEntry THEN 0 ELSE Cardinality(ReferringTo(C, s))
InLimits(st) == \A i \in 1..Len(st) : st[i].connCount + st[i].pending <= connLimit
DevicesFit(st, v) ==
    ~gated => \A i \in 1..Len(st) : Cardinality(Keys(st[i]) \ v) <= DeviceLimit
PermitsHeld ==
    \A c \in AdConns : gated /\ conns[c].at = "open" /\ conns[c].life = "open"
                          => conns[c].permit = "held"
UserInLimit == gated => Cardinality({c \in AdConns : InStats(c)}) <= connLimit
LineClosed ==
    relayEntry /\ updater = NoUpdate /\ ~allowed =>
          \A c \in AdConns : ~(conns[c].at \in {"registered", "open"} /\ conns[c].life = "open")

\* The parts of SbAdmissionHolds.
LEMMA HoldsParts ==
    ASSUME stats \in Seq(UserStats)
    PROVE  SbAdmissionHolds <=>
              /\ Books(stats, conns) /\ InLimits(stats) /\ DevicesFit(stats, vouched)
              /\ References(sources, conns) /\ PermitsHeld /\ UserInLimit /\ LineClosed
<1>1. DOMAIN stats = 1..Len(stats)
    OBVIOUS
<1>2. ASSUME NEW i
      PROVE  /\ {c \in {c \in AdConns : conns[c].us = i} : InStats(c)} = CountedOf(conns, i)
             /\ {c \in {c \in AdConns : conns[c].us = i} : Waiting(c)} = WaitingOf(conns, i)
             /\ \A s \in AdSources :
                   {c \in {c \in AdConns : conns[c].us = i} : InStats(c) /\ conns[c].source = s}
                      = FromOf(conns, i, s)
    BY DEF CountedOf, WaitingOf, FromOf, InStats, Waiting, Counts, Waits
<1>3. \A s \in AdSources :
         {c \in AdConns : conns[c].life \in {"open", "closing", "uncounted"} /\ conns[c].source = s}
            = ReferringTo(conns, s)
    BY DEF ReferringTo, Refers
<1>4. /\ Books(stats, conns) <=> \A i \in DOMAIN stats : BooksOf(stats, i, conns)
      /\ InLimits(stats) <=>
            \A i \in DOMAIN stats : stats[i].connCount + stats[i].pending <= connLimit
      /\ DevicesFit(stats, vouched) <=>
            \A i \in DOMAIN stats : ~gated => Cardinality(Keys(stats[i]) \ vouched) <= DeviceLimit
    BY <1>1 DEF Books, InLimits, DevicesFit
<1>5. References(sources, conns) <=>
         \A s \in AdSources : sources[s] = IF ~relayEntry THEN 0 ELSE Cardinality(
          {c \in AdConns : conns[c].life \in {"open", "closing", "uncounted"}
                           /\ conns[c].source = s})
    BY <1>3 DEF References
<1>6. ASSUME NEW i
      PROVE  BooksOf(stats, i, conns) <=>
          LET mine == {c \in AdConns : conns[c].us = i} IN
          /\ stats[i].connCount = Cardinality({c \in mine : InStats(c)})
          /\ stats[i].pending = Cardinality({c \in mine : Waiting(c)})
          /\ \A s \in AdSources : stats[i].ips[s] =
                Cardinality({c \in mine : InStats(c) /\ conns[c].source = s})
    BY <1>2 DEF BooksOf
<1> HIDE DEF BooksOf
<1> DEFINE Five(i) ==
          LET mine == {c \in AdConns : conns[c].us = i} IN
          /\ stats[i].connCount = Cardinality({c \in mine : InStats(c)})
          /\ stats[i].pending = Cardinality({c \in mine : Waiting(c)})
          /\ stats[i].connCount + stats[i].pending <= connLimit
          /\ \A s \in AdSources : stats[i].ips[s] =
                Cardinality({c \in mine : InStats(c) /\ conns[c].source = s})
          /\ ~gated => Cardinality(Keys(stats[i]) \ vouched) <= DeviceLimit
<1>7. ASSUME NEW i
      PROVE  Five(i) <=> /\ BooksOf(stats, i, conns)
                         /\ stats[i].connCount + stats[i].pending <= connLimit
                         /\ ~gated => Cardinality(Keys(stats[i]) \ vouched) <= DeviceLimit
    BY <1>6
<1>8. SbAdmissionHolds <=>
         /\ \A i \in DOMAIN stats : Five(i)
         /\ References(sources, conns) /\ PermitsHeld /\ UserInLimit /\ LineClosed
    BY <1>5 DEF SbAdmissionHolds, PermitsHeld, UserInLimit, LineClosed
<1> HIDE DEF Five
<1>9. (\A i \in DOMAIN stats : Five(i))
      <=> Books(stats, conns) /\ InLimits(stats) /\ DevicesFit(stats, vouched)
    BY <1>4, <1>7
<1> HIDE DEF Books, InLimits, DevicesFit, References
<1> QED
    BY <1>8, <1>9

\* A step of one connection changes each set at most by this connection.
SameBut(C, D, c) == \A d \in AdConns \ {c} : D[d] = C[d]

\* A step of c moves only c into or out of a set that records decide.
LEMMA OthersStay ==
    ASSUME NEW C, NEW D, NEW c \in AdConns, SameBut(C, D, c), NEW S \in SUBSET AdConns, NEW T \in SUBSET AdConns,
           \A d \in AdConns : D[d] = C[d] => (d \in S <=> d \in T)
    PROVE  /\ Cardinality(S) \in Nat
           /\ Cardinality(T) = Cardinality(S) - Bit(c \in S) + Bit(c \in T)
<1>1. IsFiniteSet(S) /\ IsFiniteSet(T)
    BY SbAdmissionAssumption, FS_Subset
<1>2. S \ {c} = T \ {c}
    BY DEF SameBut
<1> QED
    BY <1>1, <1>2, CardinalityOfChange

\* What a userStats counts, after a step of one connection.
LEMMA CountsOfStep ==
    ASSUME NEW C, NEW D, NEW c \in AdConns, SameBut(C, D, c), NEW i
    PROVE  /\ Cardinality(CountedOf(C, i)) \in Nat /\ Cardinality(WaitingOf(C, i)) \in Nat
           /\ Cardinality(CountedOf(D, i)) = Cardinality(CountedOf(C, i))
                 - (IF C[c].us = i /\ Counts(C[c]) THEN 1 ELSE 0)
                 + (IF D[c].us = i /\ Counts(D[c]) THEN 1 ELSE 0)
           /\ Cardinality(WaitingOf(D, i)) = Cardinality(WaitingOf(C, i))
                 - (IF C[c].us = i /\ Waits(C[c]) THEN 1 ELSE 0)
                 + (IF D[c].us = i /\ Waits(D[c]) THEN 1 ELSE 0)
<1>1. /\ c \in CountedOf(C, i) <=> C[c].us = i /\ Counts(C[c])
      /\ c \in CountedOf(D, i) <=> D[c].us = i /\ Counts(D[c])
      /\ c \in WaitingOf(C, i) <=> C[c].us = i /\ Waits(C[c])
      /\ c \in WaitingOf(D, i) <=> D[c].us = i /\ Waits(D[c])
    BY DEF CountedOf, WaitingOf
<1>2. /\ CountedOf(C, i) \in SUBSET AdConns /\ CountedOf(D, i) \in SUBSET AdConns
      /\ WaitingOf(C, i) \in SUBSET AdConns /\ WaitingOf(D, i) \in SUBSET AdConns
      /\ \A d \in AdConns : D[d] = C[d] =>
             /\ d \in CountedOf(C, i) <=> d \in CountedOf(D, i)
             /\ d \in WaitingOf(C, i) <=> d \in WaitingOf(D, i)
    BY DEF CountedOf, WaitingOf
<1>3. /\ Cardinality(CountedOf(C, i)) \in Nat
      /\ Cardinality(CountedOf(D, i)) = Cardinality(CountedOf(C, i))
            - Bit(c \in CountedOf(C, i)) + Bit(c \in CountedOf(D, i))
    BY <1>2, OthersStay
<1>4. /\ Cardinality(WaitingOf(C, i)) \in Nat
      /\ Cardinality(WaitingOf(D, i)) = Cardinality(WaitingOf(C, i))
            - Bit(c \in WaitingOf(C, i)) + Bit(c \in WaitingOf(D, i))
    BY <1>2, OthersStay
<1> QED
    BY <1>1, <1>3, <1>4 DEF Bit

\* What it counts per source.
LEMMA SourcesOfStep ==
    ASSUME NEW C, NEW D, NEW c \in AdConns, SameBut(C, D, c), NEW i, NEW s
    PROVE  /\ Cardinality(FromOf(C, i, s)) \in Nat
           /\ Cardinality(FromOf(D, i, s)) = Cardinality(FromOf(C, i, s))
                 - (IF C[c].us = i /\ Counts(C[c]) /\ C[c].source = s THEN 1 ELSE 0)
                 + (IF D[c].us = i /\ Counts(D[c]) /\ D[c].source = s THEN 1 ELSE 0)
<1>1. /\ c \in FromOf(C, i, s) <=> C[c].us = i /\ Counts(C[c]) /\ C[c].source = s
      /\ c \in FromOf(D, i, s) <=> D[c].us = i /\ Counts(D[c]) /\ D[c].source = s
    BY DEF FromOf
<1>2. /\ FromOf(C, i, s) \in SUBSET AdConns /\ FromOf(D, i, s) \in SUBSET AdConns
      /\ \A d \in AdConns : D[d] = C[d] => (d \in FromOf(C, i, s) <=> d \in FromOf(D, i, s))
    BY DEF FromOf
<1>3. /\ Cardinality(FromOf(C, i, s)) \in Nat
      /\ Cardinality(FromOf(D, i, s)) = Cardinality(FromOf(C, i, s))
            - Bit(c \in FromOf(C, i, s)) + Bit(c \in FromOf(D, i, s))
    BY <1>2, OthersStay
<1> QED
    BY <1>1, <1>3 DEF Bit

\* What refers to a source.
LEMMA ReferencesOfStep ==
    ASSUME NEW C, NEW D, NEW c \in AdConns, SameBut(C, D, c), NEW s
    PROVE  /\ Cardinality(ReferringTo(C, s)) \in Nat
           /\ Cardinality(ReferringTo(D, s)) = Cardinality(ReferringTo(C, s))
                 - (IF Refers(C[c]) /\ C[c].source = s THEN 1 ELSE 0)
                 + (IF Refers(D[c]) /\ D[c].source = s THEN 1 ELSE 0)
<1>1. /\ c \in ReferringTo(C, s) <=> Refers(C[c]) /\ C[c].source = s
      /\ c \in ReferringTo(D, s) <=> Refers(D[c]) /\ D[c].source = s
    BY DEF ReferringTo
<1>2. /\ ReferringTo(C, s) \in SUBSET AdConns /\ ReferringTo(D, s) \in SUBSET AdConns
      /\ \A d \in AdConns : D[d] = C[d] => (d \in ReferringTo(C, s) <=> d \in ReferringTo(D, s))
    BY DEF ReferringTo
<1>3. /\ Cardinality(ReferringTo(C, s)) \in Nat
      /\ Cardinality(ReferringTo(D, s)) = Cardinality(ReferringTo(C, s))
            - Bit(c \in ReferringTo(C, s)) + Bit(c \in ReferringTo(D, s))
    BY <1>2, OthersStay
<1> QED
    BY <1>1, <1>3 DEF Bit

-----------------------------------------------------------------------------
(***************************************************************************)
(* sing-box: the books, when one connection moves.                         *)
(***************************************************************************)
\* The record r of a connection differs from o in nothing that is counted.
CountsAlike(o, r) ==
    /\ Counts(r) <=> Counts(o)
    /\ Waits(r) <=> Waits(o)
    /\ Refers(r) <=> Refers(o)
    /\ Counts(r) \/ Waits(r) \/ Refers(r) => r.us = o.us /\ r.source = o.source

\* A step that nobody counts leaves the books right.
LEMMA UncountedStep ==
    ASSUME NEW C \in [AdConns -> TrackedConns], NEW c \in AdConns, NEW r \in TrackedConns,
           NEW st, NEW src, Books(st, C), References(src, C), CountsAlike(C[c], r)
    PROVE  Books(st, [C EXCEPT ![c] = r]) /\ References(src, [C EXCEPT ![c] = r])
<1> DEFINE D == [C EXCEPT ![c] = r]
<1>1. \A d \in AdConns :
         /\ Counts(D[d]) <=> Counts(C[d])
         /\ Waits(D[d]) <=> Waits(C[d])
         /\ Refers(D[d]) <=> Refers(C[d])
         /\ Counts(D[d]) \/ Waits(D[d]) \/ Refers(D[d])
               => D[d].us = C[d].us /\ D[d].source = C[d].source
    BY DEF CountsAlike
<1> HIDE DEF D
<1>2. \A i : /\ CountedOf(D, i) = CountedOf(C, i)
             /\ WaitingOf(D, i) = WaitingOf(C, i)
             /\ \A s : FromOf(D, i, s) = FromOf(C, i, s) /\ ReferringTo(D, s) = ReferringTo(C, s)
    BY <1>1 DEF CountedOf, WaitingOf, FromOf, ReferringTo
<1>3. Books(st, D)
    BY <1>2 DEF Books, BooksOf
<1>4. References(src, D)
    BY <1>2 DEF References
<1> QED
    BY <1>3, <1>4 DEF D

\* What replaces a userStats at place i.
LEMMA StatsReplaced ==
    ASSUME NEW st \in Seq(UserStats), NEW i \in 1..Len(st), NEW u \in UserStats
    PROVE  /\ [st EXCEPT ![i] = u] \in Seq(UserStats)
           /\ Len([st EXCEPT ![i] = u]) = Len(st)
           /\ [st EXCEPT ![i] = u][i] = u
           /\ \A j \in 1..Len(st) : j # i => [st EXCEPT ![i] = u][j] = st[j]
BY ExceptSeq

\* A userStats that follows its connection keeps the books right.
LEMMA CountedStep ==
    ASSUME NEW st \in Seq(UserStats), NEW i \in 1..Len(st), NEW u \in UserStats,
           NEW C \in [AdConns -> TrackedConns], NEW c \in AdConns, NEW r \in TrackedConns,
           Books(st, C), C[c].us = i,
           Counts(r) \/ Waits(r) => r.us = i /\ r.source = C[c].source,
           u.connCount = st[i].connCount - (IF Counts(C[c]) THEN 1 ELSE 0)
                                         + (IF Counts(r) THEN 1 ELSE 0),
           u.pending = st[i].pending - (IF Waits(C[c]) THEN 1 ELSE 0)
                                     + (IF Waits(r) THEN 1 ELSE 0),
           \A s \in AdSources : u.ips[s] = st[i].ips[s]
               - (IF Counts(C[c]) /\ C[c].source = s THEN 1 ELSE 0)
               + (IF Counts(r) /\ C[c].source = s THEN 1 ELSE 0)
    PROVE  Books([st EXCEPT ![i] = u], [C EXCEPT ![c] = r])
<1> DEFINE D == [C EXCEPT ![c] = r]
           t == [st EXCEPT ![i] = u]
<1>1. /\ Len(t) = Len(st) /\ t[i] = u
      /\ \A j \in 1..Len(st) : j # i => t[j] = st[j]
    BY StatsReplaced
<1> SUFFICES ASSUME NEW j \in 1..Len(st) PROVE BooksOf(t, j, D)
    BY <1>1 DEF Books
<1>2. BooksOf(st, j, C)
    BY DEF Books
<1>0. SameBut(C, D, c) /\ D[c] = r
    BY DEF SameBut
<1> HIDE DEF D, t
<1>3. /\ Cardinality(CountedOf(D, j)) = Cardinality(CountedOf(C, j))
            - (IF C[c].us = j /\ Counts(C[c]) THEN 1 ELSE 0)
            + (IF r.us = j /\ Counts(r) THEN 1 ELSE 0)
      /\ Cardinality(WaitingOf(D, j)) = Cardinality(WaitingOf(C, j))
            - (IF C[c].us = j /\ Waits(C[c]) THEN 1 ELSE 0)
            + (IF r.us = j /\ Waits(r) THEN 1 ELSE 0)
      /\ Cardinality(CountedOf(C, j)) \in Nat /\ Cardinality(WaitingOf(C, j)) \in Nat
    BY <1>0, CountsOfStep
<1>4. ASSUME NEW s \in AdSources
      PROVE  /\ Cardinality(FromOf(D, j, s)) = Cardinality(FromOf(C, j, s))
                   - (IF C[c].us = j /\ Counts(C[c]) /\ C[c].source = s THEN 1 ELSE 0)
                   + (IF r.us = j /\ Counts(r) /\ r.source = s THEN 1 ELSE 0)
             /\ Cardinality(FromOf(C, j, s)) \in Nat
    BY <1>0, SourcesOfStep
<1>5. CASE j = i
  <2>1. t[j].connCount = Cardinality(CountedOf(D, j))
      BY <1>1, <1>2, <1>3, <1>5 DEF BooksOf
  <2>2. t[j].pending = Cardinality(WaitingOf(D, j))
      BY <1>1, <1>2, <1>3, <1>5 DEF BooksOf
  <2>3. ASSUME NEW s \in AdSources PROVE t[j].ips[s] = Cardinality(FromOf(D, j, s))
    <3>1. t[j].ips[s] = Cardinality(FromOf(C, j, s))
             - (IF Counts(C[c]) /\ C[c].source = s THEN 1 ELSE 0)
             + (IF Counts(r) /\ C[c].source = s THEN 1 ELSE 0)
        BY <1>1, <1>2, <1>5 DEF BooksOf
    <3> QED
        BY <3>1, <1>4, <1>5
  <2> QED
      BY <2>1, <2>2, <2>3 DEF BooksOf
<1>6. CASE j # i
  <2>1. /\ Cardinality(CountedOf(D, j)) = Cardinality(CountedOf(C, j))
        /\ Cardinality(WaitingOf(D, j)) = Cardinality(WaitingOf(C, j))
      BY <1>3, <1>6
  <2>2. \A s \in AdSources : Cardinality(FromOf(D, j, s)) = Cardinality(FromOf(C, j, s))
      BY <1>4, <1>6
  <2> QED
      BY <1>1, <1>2, <1>6, <2>1, <2>2 DEF BooksOf
<1> QED
    BY <1>5, <1>6

\* References to sources do not depend on what is counted otherwise.
LEMMA UnreferencedStep ==
    ASSUME NEW C \in [AdConns -> TrackedConns], NEW c \in AdConns, NEW r \in TrackedConns,
           NEW src, References(src, C), Refers(r) <=> Refers(C[c]),
           Refers(r) => r.source = C[c].source
    PROVE  References(src, [C EXCEPT ![c] = r])
<1> DEFINE D == [C EXCEPT ![c] = r]
<1>1. \A s : ReferringTo(D, s) = ReferringTo(C, s)
    BY DEF ReferringTo
<1> QED
    BY <1>1 DEF References

\* A source counter that follows its connection.
LEMMA ReferencedStep ==
    ASSUME NEW C \in [AdConns -> TrackedConns], NEW c \in AdConns, NEW r \in TrackedConns,
           NEW src \in [AdSources -> Int], NEW new \in [AdSources -> Int],
           References(src, C), r.source = C[c].source,
           \A s \in AdSources : new[s] = IF relayEntry
               THEN src[s] - (IF Refers(C[c]) /\ C[c].source = s THEN 1 ELSE 0)
                           + (IF Refers(r) /\ C[c].source = s THEN 1 ELSE 0)
               ELSE src[s]
    PROVE  References(new, [C EXCEPT ![c] = r])
<1> DEFINE D == [C EXCEPT ![c] = r]
<1> SUFFICES ASSUME NEW s \in AdSources
             PROVE  new[s] = IF ~relayEntry THEN 0
                             ELSE Cardinality(ReferringTo(D, s))
    BY DEF References
<1>0. SameBut(C, D, c) /\ D[c] = r
    BY DEF SameBut
<1> HIDE DEF D
<1>1. Cardinality(ReferringTo(D, s)) = Cardinality(ReferringTo(C, s))
                 - (IF Refers(C[c]) /\ C[c].source = s THEN 1 ELSE 0)
                 + (IF Refers(r) /\ r.source = s THEN 1 ELSE 0)
    BY <1>0, ReferencesOfStep
<1>2. src[s] = IF ~relayEntry THEN 0 ELSE Cardinality(ReferringTo(C, s))
    BY DEF References
<1> QED
    BY <1>1, <1>2

\* The counts of a userStats are natural numbers.
LEMMA CountsAreNatural ==
    ASSUME NEW st, NEW i \in 1..Len(st), NEW C, Books(st, C)
    PROVE  /\ st[i].connCount \in Nat /\ st[i].pending \in Nat
           /\ \A s \in AdSources : st[i].ips[s] \in Nat
<1>1. ASSUME NEW S \in SUBSET AdConns PROVE Cardinality(S) \in Nat
    BY SbAdmissionAssumption, FS_Subset, FS_CardinalityType
<1>2. \A s : /\ CountedOf(C, i) \in SUBSET AdConns /\ WaitingOf(C, i) \in SUBSET AdConns
             /\ FromOf(C, i, s) \in SUBSET AdConns
    BY DEF CountedOf, WaitingOf, FromOf
<1> QED
    BY <1>1, <1>2 DEF Books, BooksOf

-----------------------------------------------------------------------------
(***************************************************************************)
(* sing-box: the invariant, one connection at a time.                      *)
(***************************************************************************)
\* The parts that a step preserves; the others follow.
SbParts ==
    /\ ConnPhases /\ PermitsHeld /\ CountedInEntry /\ ListedInUse /\ OneCheck
    /\ Books(stats, conns) /\ InLimits(stats) /\ References(sources, conns)
    /\ DevicesFit(stats, vouched) /\ RoomIsKept /\ ClosersKnow
SbCore == SbAdmissionTypeOK /\ SbParts
ConnSteps == BeforeCounted \cup {"counted", "tracked"} \cup Listened
Lives == {"none", "open", "closing", "uncounted", "unreferenced"}
Permits == {"none", "held", "revoked"}
fixed == <<gated, relayEntry, connLimit>>

\* What the invariant says of the record r of a connection, when there are n
\* userStats and e is the one in use.
ConnSound(r, n, e) ==
    /\ r.at # "none" => r.us \in 1..n
    /\ r.at \in BeforeCounted \cup {"counted"} <=> r.life = "none"
    /\ r.at = "tracked" => r.life = "open"
    /\ Waits(r) => gated
    /\ gated /\ r.at \in {"granted", "valid", "counted", "tracked", "registered"}
          => r.permit # "none"
    /\ r.at \in {"none", "resolved", "checked", "acquiring"} => r.permit = "none"
    /\ gated /\ r.at = "open" /\ r.life = "open" => r.permit = "held"
    /\ gated /\ (Counts(r) \/ r.at = "valid") => r.us = e

\* The records of all connections are sound when the parts of the invariant hold.
LEMMA SoundParts ==
    /\ ConnPhases /\ PermitsHeld /\ CountedInEntry
          <=> \A c \in AdConns : ConnSound(conns[c], Len(stats), entry)
    /\ gated' = gated =>
          ((ConnPhases /\ PermitsHeld /\ CountedInEntry)'
              <=> \A c \in AdConns : ConnSound(conns'[c], Len(stats'), entry'))
<1>1. ConnPhases /\ PermitsHeld /\ CountedInEntry
          <=> \A c \in AdConns : ConnSound(conns[c], Len(stats), entry)
    BY DEF ConnPhases, PermitsHeld, CountedInEntry, ConnSound, Waiting, InStats, Waits, Counts
<1>2. ASSUME gated' = gated
      PROVE  (ConnPhases /\ PermitsHeld /\ CountedInEntry)'
                <=> \A c \in AdConns : ConnSound(conns'[c], Len(stats'), entry')
    BY <1>2 DEF ConnPhases, PermitsHeld, CountedInEntry, ConnSound, Waiting, InStats, Waits, Counts
<1> QED
    BY <1>1, <1>2

\* What Become makes of a connection.
LEMMA BecomeIs ==
    ASSUME SbAdmissionTypeOK, NEW c \in AdConns, NEW at \in ConnSteps, NEW life \in Lives,
           NEW permit \in Permits, Become(c, at, life, permit)
    PROVE  /\ conns' = [conns EXCEPT ![c] = conns'[c]]
           /\ conns'[c] \in TrackedConns
           /\ conns'[c].at = at /\ conns'[c].life = life /\ conns'[c].permit = permit
           /\ conns'[c].source = conns[c].source /\ conns'[c].us = conns[c].us
<1> DEFINE r == [at |-> at, life |-> life, source |-> conns[c].source, us |-> conns[c].us,
                 permit |-> permit]
<1>1. conns[c] \in TrackedConns
    BY DEF SbAdmissionTypeOK
<1>2. r \in TrackedConns
    BY <1>1 DEF TrackedConns, ConnSteps, Lives, Permits
<1>3. conns' = [conns EXCEPT ![c] = r]
    BY DEF Become
<1>4. conns'[c] = r
    BY <1>3 DEF SbAdmissionTypeOK
<1>5. /\ conns'[c].at = at /\ conns'[c].life = life /\ conns'[c].permit = permit
      /\ conns'[c].source = conns[c].source /\ conns'[c].us = conns[c].us
    BY <1>4
<1> HIDE DEF r
<1> QED
    BY <1>2, <1>3, <1>4, <1>5

\* A new record of a goroutine that has ended.
LEMMA RefusedIs ==
    ASSUME SbAdmissionTypeOK, NEW c \in AdConns, Refused(c)
    PROVE  /\ conns' = [conns EXCEPT ![c] = conns'[c]]
           /\ conns'[c] \in TrackedConns
           /\ conns'[c].at = "none" /\ conns'[c].life = "none" /\ conns'[c].permit = "none"
<1>1. NewConn \in TrackedConns
    BY SbAdmissionAssumption DEF NewConn, TrackedConns, BeforeCounted
<1>2. conns' = [conns EXCEPT ![c] = NewConn]
    BY DEF Refused
<1>3. conns'[c] = NewConn
    BY <1>2 DEF SbAdmissionTypeOK
<1>4. conns'[c].at = "none" /\ conns'[c].life = "none" /\ conns'[c].permit = "none"
    BY <1>3 DEF NewConn
<1> QED
    BY <1>1, <1>2, <1>3, <1>4

\* Nobody else is in the section of admissionMu.
SoleCheck(c, r) ==
    r.at = "checked" => \A d \in AdConns \ {c} : conns[d].at = "checked" => conns[d].us # r.us

\* A connection that moves to a record that is sound leaves all of them sound.
LEMMA MoveIsSound ==
    ASSUME SbCore, NEW c \in AdConns, conns' = [conns EXCEPT ![c] = conns'[c]],
           conns'[c] \in TrackedConns, UNCHANGED <<fixed, entry>>, Len(stats') = Len(stats),
           ConnSound(conns'[c], Len(stats), entry), SoleCheck(c, conns'[c])
    PROVE  /\ conns' \in [AdConns -> TrackedConns]
           /\ (ConnPhases /\ PermitsHeld /\ CountedInEntry)' /\ OneCheck'
<1>1. conns \in [AdConns -> TrackedConns] /\ stats \in Seq(UserStats)
    BY DEF SbCore, SbAdmissionTypeOK
<1>2. \A d \in AdConns : d # c => conns'[d] = conns[d]
    BY <1>1
<1>3. conns' \in [AdConns -> TrackedConns]
    BY <1>1
<1>4. ConnPhases /\ PermitsHeld /\ CountedInEntry /\ OneCheck
    BY DEF SbCore, SbParts
<1>5. \A d \in AdConns : ConnSound(conns[d], Len(stats), entry)
    BY <1>4, SoundParts
<1>6. \A d \in AdConns : ConnSound(conns'[d], Len(stats'), entry')
    BY <1>2, <1>5 DEF fixed
<1>7. (ConnPhases /\ PermitsHeld /\ CountedInEntry)'
    BY <1>6, SoundParts DEF fixed
<1>8. OneCheck'
    BY <1>2, <1>4 DEF OneCheck, SoleCheck
<1> QED
    BY <1>3, <1>7, <1>8

\* The sources of a userStats are finitely many.
LEMMA FewerFit ==
    ASSUME NEW u, NEW w, NEW s \in Countable, NEW v, NEW x, Keys(w) \subseteq Keys(u),
           v \subseteq x
    PROVE  /\ Cardinality(Keys(u) \ v) <= DeviceLimit => Cardinality(Keys(w) \ x) <= DeviceLimit
           /\ Cardinality((Keys(u) \cup {s}) \ v) <= DeviceLimit =>
                 /\ Cardinality((Keys(w) \cup {s}) \ x) <= DeviceLimit
                 /\ Cardinality(Keys(w) \ x) <= DeviceLimit
<1>1. /\ IsFiniteSet(Keys(u) \ v) /\ IsFiniteSet((Keys(u) \cup {s}) \ v)
  <2>1. Keys(u) \ v \in SUBSET Countable /\ (Keys(u) \cup {s}) \ v \in SUBSET Countable
      BY DEF Keys
  <2> QED
      BY <2>1, SbAdmissionAssumption, FS_Subset
<1>2. /\ Keys(w) \ x \in SUBSET (Keys(u) \ v)
      /\ (Keys(w) \cup {s}) \ x \in SUBSET ((Keys(u) \cup {s}) \ v)
      /\ Keys(w) \ x \in SUBSET ((Keys(u) \cup {s}) \ v)
    OBVIOUS
<1>3. /\ Cardinality(Keys(w) \ x) <= Cardinality(Keys(u) \ v)
      /\ Cardinality((Keys(w) \cup {s}) \ x) <= Cardinality((Keys(u) \cup {s}) \ v)
      /\ Cardinality(Keys(w) \ x) <= Cardinality((Keys(u) \cup {s}) \ v)
    BY <1>1, <1>2, FS_Subset
<1>4. /\ Cardinality(Keys(u) \ v) \in Nat /\ Cardinality((Keys(u) \cup {s}) \ v) \in Nat
      /\ Cardinality(Keys(w) \ x) \in Nat /\ Cardinality((Keys(w) \cup {s}) \ x) \in Nat
    BY <1>1, <1>2, FS_Subset, FS_CardinalityType
<1>5. DeviceLimit \in Nat
    BY SbAdmissionAssumption
<1> QED
    BY <1>3, <1>4, <1>5

\* The same with the new source.
LEMMA FewerFitWith ==
    ASSUME NEW u, NEW w, NEW s \in Countable, NEW v, NEW x, Keys(w) \subseteq Keys(u),
           v \subseteq x, Cardinality((Keys(u) \cup {s}) \ v) <= DeviceLimit
    PROVE  /\ Cardinality((Keys(w) \cup {s}) \ x) <= DeviceLimit
           /\ Cardinality(Keys(w) \ x) <= DeviceLimit
BY FewerFit

\* The same for the userStats alone.
LEMMA FewerFitAlone ==
    ASSUME NEW u, NEW w, NEW v, NEW x, Keys(w) \subseteq Keys(u), v \subseteq x,
           Cardinality(Keys(u) \ v) <= DeviceLimit
    PROVE  Cardinality(Keys(w) \ x) <= DeviceLimit
<1>1. CASE Countable = {}
  <2>1. Keys(w) \ x = Keys(u) \ v
      BY <1>1 DEF Keys
  <2> QED
      BY <2>1
<1>2. CASE Countable # {}
    BY <1>2, FewerFit
<1> QED
    BY <1>1, <1>2

\* Without a new source the device limit stays kept.
LEMMA DevicesStay ==
    ASSUME SbCore, NEW c \in AdConns, conns' = [conns EXCEPT ![c] = conns'[c]],
           UNCHANGED <<fixed, entry>>, Len(stats') = Len(stats), vouched \subseteq vouched',
           ~gated => \A i \in 1..Len(stats) : Keys(stats'[i]) \subseteq Keys(stats[i]),
           ~gated /\ conns'[c].at = "checked" /\ conns'[c].source \in Countable =>
              Cardinality((Keys(stats'[conns'[c].us]) \cup {conns'[c].source}) \ vouched')
                 <= DeviceLimit
    PROVE  DevicesFit(stats', vouched') /\ RoomIsKept'
<1>1. conns \in [AdConns -> TrackedConns] /\ gated' = gated
    BY DEF SbCore, SbAdmissionTypeOK, fixed
<1>2. DevicesFit(stats', vouched')
  <2> SUFFICES ASSUME ~gated, NEW i \in 1..Len(stats)
               PROVE  Cardinality(Keys(stats'[i]) \ vouched') <= DeviceLimit
      BY <1>1 DEF DevicesFit
  <2>1. Cardinality(Keys(stats[i]) \ vouched) <= DeviceLimit
      BY DEF SbCore, SbParts, DevicesFit
  <2> QED
      BY <2>1, FewerFitAlone
<1>3. ASSUME ~gated, NEW d \in AdConns, conns'[d].at = "checked", conns'[d].source \in Countable
      PROVE  Cardinality((Keys(stats'[conns'[d].us]) \cup {conns'[d].source}) \ vouched')
                 <= DeviceLimit
  <2>1. CASE d = c
      BY <1>3, <2>1
  <2>2. CASE d # c
    <3>1. conns'[d] = conns[d]
        BY <1>1, <2>2
    <3>2. conns[d].us \in 1..Len(stats)
        BY <1>3, <3>1 DEF SbCore, SbParts, ConnPhases
    <3>3. Cardinality((Keys(stats[conns[d].us]) \cup {conns[d].source}) \ vouched) <= DeviceLimit
        BY <1>3, <3>1 DEF SbCore, SbParts, RoomIsKept, UsOf
    <3>4. Keys(stats'[conns[d].us]) \subseteq Keys(stats[conns[d].us])
        BY <1>3, <3>2
    <3>5. conns[d].source \in Countable
        BY <1>3, <3>1
    <3>6. Cardinality((Keys(stats'[conns[d].us]) \cup {conns[d].source}) \ vouched')
             <= DeviceLimit
      <4> DEFINE u == stats[conns[d].us]
                 w == stats'[conns[d].us]
                 s == conns[d].source
      <4>1. /\ Keys(w) \subseteq Keys(u) /\ s \in Countable
            /\ Cardinality((Keys(u) \cup {s}) \ vouched) <= DeviceLimit
          BY <3>3, <3>4, <3>5
      <4> HIDE DEF u, w, s
      <4>2. Cardinality((Keys(w) \cup {s}) \ vouched') <= DeviceLimit
          BY <4>1, FewerFitWith
      <4> QED
          BY <4>2 DEF w, s
    <3> QED
        BY <3>1, <3>6
  <2> QED
      BY <2>1, <2>2
<1>4. RoomIsKept'
    BY <1>1, <1>3 DEF RoomIsKept, UsOf
<1> QED
    BY <1>2, <1>4

\* A step of one connection that nobody counts.
LEMMA QuietStep ==
    ASSUME SbCore, NEW c \in AdConns, conns' = [conns EXCEPT ![c] = conns'[c]],
           conns'[c] \in TrackedConns, UNCHANGED <<fixed, listed, entry, stats, sources>>,
           vouched \subseteq vouched',
           ConnSound(conns'[c], Len(stats), entry), SoleCheck(c, conns'[c]),
           CountsAlike(conns[c], conns'[c]),
           ~gated /\ conns'[c].at = "checked" /\ conns'[c].source \in Countable =>
              Cardinality((Keys(stats[conns'[c].us]) \cup {conns'[c].source}) \ vouched')
                 <= DeviceLimit,
           ClosersKnow'
    PROVE  conns' \in [AdConns -> TrackedConns] /\ SbParts'
<1>1. conns \in [AdConns -> TrackedConns]
    BY DEF SbCore, SbAdmissionTypeOK
<1>2. /\ conns' \in [AdConns -> TrackedConns]
      /\ (ConnPhases /\ PermitsHeld /\ CountedInEntry)' /\ OneCheck'
    BY MoveIsSound
<1>3. Books(stats, [conns EXCEPT ![c] = conns'[c]])
      /\ References(sources, [conns EXCEPT ![c] = conns'[c]])
    BY <1>1, UncountedStep DEF SbCore, SbParts
<1>4. Books(stats', conns') /\ References(sources', conns')
    BY <1>3
<1>5. DevicesFit(stats', vouched') /\ RoomIsKept'
    BY DevicesStay
<1>6. Books(stats, conns)' /\ References(sources, conns)' /\ DevicesFit(stats, vouched)'
    BY <1>4, <1>5 DEF References, DevicesFit, fixed
<1>7. InLimits(stats)' /\ ListedInUse'
    BY DEF SbCore, SbParts, InLimits, ListedInUse, fixed
<1> QED
    BY <1>2, <1>5, <1>6, <1>7 DEF SbParts

\* A connection as the invariant knows it.
LEMMA SoundConn ==
    ASSUME SbCore, NEW c \in AdConns
    PROVE  /\ conns[c] \in TrackedConns /\ ConnSound(conns[c], Len(stats), entry)
           /\ conns[c].at \in ConnSteps /\ conns[c].life \in Lives
           /\ conns[c].permit \in Permits /\ conns[c].source \in AdSources
<1>1. conns[c] \in TrackedConns
    BY DEF SbCore, SbAdmissionTypeOK
<1>2. ConnSound(conns[c], Len(stats), entry)
    BY SoundParts DEF SbCore, SbParts
<1> QED
    BY <1>1, <1>2 DEF TrackedConns, ConnSteps, Lives, Permits

\* The types of what a step of a connection leaves alone.
LEMMA TypesStay ==
    ASSUME SbCore, UNCHANGED <<fixed, listed, entry, global, allowed, updater>>,
           conns' \in [AdConns -> TrackedConns], stats' \in Seq(UserStats),
           Len(stats') = Len(stats), sources' \in [AdSources -> Int],
           accesses' \subseteq AdConns, vouched' \subseteq AdSources
    PROVE  SbAdmissionTypeOK'
BY DEF SbCore, SbAdmissionTypeOK, fixed

\* A quiet step that touches nothing but its connection.
LEMMA PlainStep ==
    ASSUME SbCore, NEW c \in AdConns, conns' = [conns EXCEPT ![c] = conns'[c]],
           conns'[c] \in TrackedConns, UNCHANGED <<trackerVars, allowed, accesses, updater, vouched>>,
           ConnSound(conns'[c], Len(stats), entry), conns'[c].at # "checked",
           CountsAlike(conns[c], conns'[c]), ClosersKnow'
    PROVE  SbCore'
<1>1. UNCHANGED <<fixed, entry, stats, sources, listed, global, allowed, accesses, updater, vouched>>
    BY DEF trackerVars, fixed
<1>2. SoleCheck(c, conns'[c])
    BY DEF SoleCheck
<1>3. conns' \in [AdConns -> TrackedConns] /\ SbParts'
    BY <1>1, <1>2, QuietStep
<1>4. SbAdmissionTypeOK'
    BY <1>1, <1>3 DEF SbCore, SbAdmissionTypeOK, fixed
<1> QED
    BY <1>3, <1>4 DEF SbCore

\* While the tables stay, ClosersKnow is about the connection that moves.
LEMMA ClosersStay ==
    ASSUME SbCore, NEW c \in AdConns, conns' = [conns EXCEPT ![c] = conns'[c]],
           UNCHANGED <<relayEntry, allowed, accesses, updater, listed>>,
           c \in accesses => conns'[c].at \in Listened /\ conns'[c].life # "unreferenced",
           c \in updater.close => conns'[c].at \in Listened \cup {"none"},
           conns'[c].at \in Listened /\ conns'[c].life = "open" =>
               conns[c].at \in Listened /\ conns[c].life = "open"
    PROVE  ClosersKnow'
<1>1. conns \in [AdConns -> TrackedConns] /\ ClosersKnow
    BY DEF SbCore, SbParts, SbAdmissionTypeOK
<1>2. \A d \in AdConns : d # c => conns'[d] = conns[d]
    BY <1>1
<1>3. accesses \subseteq AdConns /\ updater.close \subseteq AdConns
    BY DEF SbCore, SbAdmissionTypeOK
<1>4. \A d \in accesses : conns'[d].at \in Listened /\ conns'[d].life # "unreferenced"
    BY <1>1, <1>2, <1>3 DEF ClosersKnow
<1>5. \A d \in updater.close : conns'[d].at \in Listened \cup {"none"}
    BY <1>1, <1>2, <1>3 DEF ClosersKnow
<1>6. relayEntry => \A d \in AdConns :
          conns'[d].at \in Listened /\ conns'[d].life = "open" => d \in accesses \cup updater.close
    BY <1>1, <1>2 DEF ClosersKnow
<1> QED
    BY <1>1, <1>4, <1>5, <1>6 DEF ClosersKnow

\* resolveUser.
LEMMA ResolveStep ==
    ASSUME SbCore, NEW c \in AdConns, ResolveUserName(c)
    PROVE  SbCore'
<1>1. PICK s \in AdSources :
         conns' = [conns EXCEPT ![c] = [at |-> "resolved", life |-> "none", source |-> s,
                                        us |-> entry, permit |-> "none"]]
    BY DEF ResolveUserName
<1>2. /\ UNCHANGED <<trackerVars, allowed, accesses, updater, vouched>>
      /\ conns[c].at = "none" /\ listed
    BY DEF ResolveUserName
<1> DEFINE r == [at |-> "resolved", life |-> "none", source |-> s, us |-> entry, permit |-> "none"]
<1>3. conns' = [conns EXCEPT ![c] = r] /\ conns'[c] = r
    BY <1>1 DEF SbCore, SbAdmissionTypeOK
<1>4. entry \in 0..Len(stats) /\ entry # 0 /\ r \in TrackedConns /\ Len(stats) \in Nat
    BY <1>2 DEF SbCore, SbParts, ListedInUse, SbAdmissionTypeOK, TrackedConns, BeforeCounted
<1>5. conns[c].life = "none" /\ ~Counts(conns[c]) /\ ~Waits(conns[c]) /\ ~Refers(conns[c])
    BY <1>2, SoundConn DEF ConnSound, BeforeCounted, Counts, Waits, Refers
<1>6. ConnSound(r, Len(stats), entry)
    BY <1>4 DEF ConnSound, BeforeCounted, Counts, Waits
<1>7. CountsAlike(conns[c], r)
    BY <1>5 DEF CountsAlike, Counts, Waits, Refers
<1>8. c \notin accesses /\ c \notin updater.close
    BY <1>2 DEF SbCore, SbParts, ClosersKnow, Listened
<1>9. r.at = "resolved"
    OBVIOUS
<1> HIDE DEF r
<1>10. ClosersKnow'
    BY <1>2, <1>3, <1>8, <1>9, ClosersStay DEF trackerVars, Listened
<1> QED
    BY <1>2, <1>3, <1>4, <1>6, <1>7, <1>9, <1>10, PlainStep

\* A step that only moves its connection, and uncounted.
LEMMA PlainMove ==
    ASSUME SbCore, NEW c \in AdConns, NEW at \in ConnSteps, NEW life \in Lives,
           NEW permit \in Permits, Become(c, at, life, permit),
           UNCHANGED <<trackerVars, allowed, accesses, updater, vouched>>,
           at # "checked", at = "tracked" => life = "open",
           at \in BeforeCounted \cup {"counted"} <=> life = "none",
           conns[c].at # "none",
           at \in {"acquiring", "granted", "valid", "denied"} <=> Waits(conns[c]),
           at = "counted" \/ life \in {"open", "closing"} <=> Counts(conns[c]),
           life \in {"open", "closing", "uncounted"} <=> Refers(conns[c]),
           gated /\ at = "valid" => conns[c].us = entry,
           gated /\ at \in {"granted", "valid", "counted", "tracked", "registered"}
               => permit # "none",
           at \in {"none", "resolved", "checked", "acquiring"} => permit = "none",
           gated /\ at = "open" /\ life = "open" => permit = "held",
           conns[c].at \in Listened => at \in Listened,
           at \in Listened /\ life = "open" => conns[c].at \in Listened /\ conns[c].life = "open",
           c \in accesses => life # "unreferenced"
    PROVE  SbCore'
<1>0. SbAdmissionTypeOK
    BY DEF SbCore
<1>1. /\ conns' = [conns EXCEPT ![c] = conns'[c]]
      /\ conns'[c] \in TrackedConns
      /\ conns'[c].at = at /\ conns'[c].life = life /\ conns'[c].permit = permit
      /\ conns'[c].source = conns[c].source /\ conns'[c].us = conns[c].us
    BY <1>0, BecomeIs
<1>2. ConnSound(conns[c], Len(stats), entry)
    BY SoundConn
<1>3. /\ Counts(conns'[c]) <=> Counts(conns[c])
      /\ Waits(conns'[c]) <=> Waits(conns[c])
      /\ Refers(conns'[c]) <=> Refers(conns[c])
    BY <1>1 DEF Counts, Waits, Refers
<1>4. ConnSound(conns'[c], Len(stats), entry)
    BY <1>1, <1>2, <1>3 DEF ConnSound
<1>5. CountsAlike(conns[c], conns'[c])
    BY <1>1, <1>3 DEF CountsAlike
<1>6. /\ c \in accesses => conns[c].at \in Listened
      /\ c \in updater.close => conns[c].at \in Listened
    BY DEF SbCore, SbParts, ClosersKnow
<1>7. UNCHANGED <<relayEntry, allowed, accesses, updater, listed>>
    BY DEF trackerVars
<1>8. ClosersKnow'
    BY <1>1, <1>6, <1>7, ClosersStay
<1> QED
    BY <1>1, <1>4, <1>5, <1>8, PlainStep

\* The answer of the gate and what may come after it.
LEMMA GateSteps ==
    ASSUME SbCore, NEW c \in AdConns, GateAcquire(c) \/ GateRevoke(c) \/ Revalidate(c)
    PROVE  SbCore'
<1>1. /\ conns[c].at \in ConnSteps /\ conns[c].life \in Lives /\ conns[c].permit \in Permits
      /\ ConnSound(conns[c], Len(stats), entry)
    BY SoundConn
<1>2. c \in accesses => conns[c].at \in Listened /\ conns[c].life # "unreferenced"
    BY DEF SbCore, SbParts, ClosersKnow
<1>3. UNCHANGED <<trackerVars, allowed, accesses, updater, vouched>>
    BY DEF GateAcquire, GateRevoke, Revalidate
<1>4. CASE GateAcquire(c)
  <2>1. CASE Become(c, "granted", conns[c].life, "held")
    <3>1. "granted" \in ConnSteps /\ "held" \in Permits
        BY DEF ConnSteps, BeforeCounted, Permits
    <3> QED
        BY <1>1, <1>2, <1>3, <1>4, <2>1, <3>1, PlainMove
           DEF GateAcquire, ConnSound, Counts, Waits, Refers, BeforeCounted, Listened
  <2>2. CASE Step(c, "denied")
    <3>1. "denied" \in ConnSteps
        BY DEF ConnSteps, BeforeCounted
    <3>2. Become(c, "denied", conns[c].life, conns[c].permit)
        BY <2>2 DEF Step
    <3> QED
        BY <1>1, <1>2, <1>3, <1>4, <3>1, <3>2, PlainMove
           DEF GateAcquire, ConnSound, Counts, Waits, Refers, BeforeCounted, Listened
  <2> QED
      BY <1>4, <2>1, <2>2 DEF GateAcquire
<1>5. CASE Revalidate(c)
  <2>1. CASE entry = conns[c].us
    <3>1. "valid" \in ConnSteps
        BY DEF ConnSteps, BeforeCounted
    <3>2. Become(c, "valid", conns[c].life, conns[c].permit)
        BY <1>5, <2>1 DEF Revalidate, Step
    <3> QED
        BY <1>1, <1>2, <1>3, <1>5, <2>1, <3>1, <3>2, PlainMove
           DEF Revalidate, ConnSound, Counts, Waits, Refers, BeforeCounted, Listened
  <2>2. CASE entry # conns[c].us
    <3>1. "denied" \in ConnSteps /\ "none" \in Permits
        BY DEF ConnSteps, BeforeCounted, Permits
    <3>2. Become(c, "denied", conns[c].life, "none")
        BY <1>5, <2>2 DEF Revalidate
    <3> QED
        BY <1>1, <1>2, <1>3, <1>5, <3>1, <3>2, PlainMove
           DEF Revalidate, ConnSound, Counts, Waits, Refers, BeforeCounted, Listened
  <2> QED
      BY <2>1, <2>2
<1>6. CASE GateRevoke(c)
  <2>1. conns[c].at \notin {"none", "resolved", "checked", "acquiring"}
      BY <1>1, <1>6 DEF GateRevoke, ConnSound
  <2>2. "open" \in ConnSteps /\ "closing" \in Lives /\ "revoked" \in Permits
      BY DEF ConnSteps, Listened, Lives, Permits
  <2>3. CASE conns[c].at = "open" /\ conns[c].life = "open"
    <3>1. Become(c, "open", "closing", "revoked")
        BY <1>6, <2>3 DEF GateRevoke
    <3> QED
        BY <1>1, <1>2, <1>3, <2>2, <2>3, <3>1, PlainMove
           DEF ConnSound, Counts, Waits, Refers, BeforeCounted, Listened
  <2>4. CASE ~(conns[c].at = "open" /\ conns[c].life = "open")
    <3>1. Become(c, conns[c].at, conns[c].life, "revoked")
        BY <1>6, <2>4 DEF GateRevoke
    <3> QED
        BY <1>1, <1>2, <1>3, <2>1, <2>2, <2>4, <3>1, PlainMove
           DEF ConnSound, Counts, Waits, Refers, BeforeCounted, Listened
  <2> QED
      BY <2>3, <2>4
<1> QED
    BY <1>4, <1>5, <1>6

\* permit.Bind and the core that closes a connection.
LEMMA BindSteps ==
    ASSUME SbCore, NEW c \in AdConns, BindPermit(c) \/ CoreCloses(c)
    PROVE  SbCore'
<1>1. /\ conns[c].at \in ConnSteps /\ conns[c].life \in Lives /\ conns[c].permit \in Permits
      /\ ConnSound(conns[c], Len(stats), entry)
    BY SoundConn
<1>2. c \in accesses => conns[c].at \in Listened /\ conns[c].life # "unreferenced"
    BY DEF SbCore, SbParts, ClosersKnow
<1>3. UNCHANGED <<trackerVars, allowed, accesses, updater, vouched>>
    BY DEF BindPermit, CoreCloses
<1>4. "open" \in ConnSteps /\ "closing" \in Lives /\ "revoked" \in Permits
    BY DEF ConnSteps, Listened, Lives, Permits
<1>5. CASE BindPermit(c)
  <2>1. conns[c].at = "registered"
      BY <1>5 DEF BindPermit
  <2>2. CASE conns[c].life = "open" /\ conns[c].permit = "revoked"
    <3>1. Become(c, "open", "closing", "revoked")
        BY <1>5, <2>2 DEF BindPermit
    <3> QED
        BY <1>1, <1>2, <1>3, <1>4, <2>1, <2>2, <3>1, PlainMove
           DEF ConnSound, Counts, Waits, Refers, BeforeCounted, Listened
  <2>3. CASE ~(conns[c].life = "open" /\ conns[c].permit = "revoked")
    <3>1. Become(c, "open", conns[c].life, conns[c].permit)
        BY <1>5, <2>3 DEF BindPermit, Step
    <3>2. gated /\ conns[c].life = "open" => conns[c].permit = "held"
        BY <1>1, <2>1, <2>3 DEF ConnSound, Permits
    <3> QED
        BY <1>1, <1>2, <1>3, <1>4, <2>1, <3>1, <3>2, PlainMove
           DEF ConnSound, Counts, Waits, Refers, BeforeCounted, Listened
  <2> QED
      BY <2>2, <2>3
<1>6. CASE CoreCloses(c)
  <2>1. Become(c, conns[c].at, "closing", conns[c].permit)
        /\ conns[c].at = "open" /\ conns[c].life = "open"
      BY <1>6 DEF CoreCloses, Die
  <2> QED
      BY <1>1, <1>2, <1>3, <1>4, <2>1, PlainMove
         DEF ConnSound, Counts, Waits, Refers, BeforeCounted, Listened
<1> QED
    BY <1>5, <1>6

\* The goroutine of a connection that is closed is done.
LEMMA CloseStep ==
    ASSUME SbCore, NEW c \in AdConns, CloseConn(c)
    PROVE  SbCore'
<1>0. SbAdmissionTypeOK
    BY DEF SbCore
<1>1. /\ conns[c].life = "unreferenced" /\ conns[c].at = "open" /\ Refused(c)
      /\ UNCHANGED <<trackerVars, allowed, accesses, updater, vouched>>
    BY DEF CloseConn
<1>2. /\ conns' = [conns EXCEPT ![c] = conns'[c]] /\ conns'[c] \in TrackedConns
      /\ conns'[c].at = "none" /\ conns'[c].life = "none" /\ conns'[c].permit = "none"
    BY <1>0, <1>1, RefusedIs
<1>3. /\ ConnSound(conns'[c], Len(stats), entry)
      /\ ~Counts(conns'[c]) /\ ~Waits(conns'[c]) /\ ~Refers(conns'[c])
    BY <1>2 DEF ConnSound, BeforeCounted, Counts, Waits, Refers
<1>4. CountsAlike(conns[c], conns'[c])
    BY <1>1, <1>3 DEF CountsAlike, Counts, Waits, Refers
<1>5. c \notin accesses
    BY <1>1 DEF SbCore, SbParts, ClosersKnow
<1>6. ClosersKnow'
    BY <1>1, <1>2, <1>5, ClosersStay DEF trackerVars, Listened
<1> QED
    BY <1>1, <1>2, <1>3, <1>4, <1>6, PlainStep

\* RelayAccess.Register: whoever is let in is in the table.
LEMMA RegisterStep ==
    ASSUME SbCore, NEW c \in AdConns, RegisterAccess(c)
    PROVE  SbCore'
<1>0. SbAdmissionTypeOK
    BY DEF SbCore
<1>1. /\ conns[c].at = "tracked" /\ UNCHANGED <<trackerVars, allowed, updater, vouched>>
      /\ accesses' = IF relayEntry /\ allowed THEN accesses \cup {c} ELSE accesses
    BY DEF RegisterAccess
<1>2. /\ conns[c].at \in ConnSteps /\ conns[c].permit \in Permits
      /\ ConnSound(conns[c], Len(stats), entry) /\ conns[c].life = "open"
    BY <1>1, SoundConn DEF ConnSound
<1> DEFINE life == IF relayEntry /\ ~allowed THEN "closing" ELSE "open"
<1>3. life \in Lives /\ "registered" \in ConnSteps /\ life \in {"open", "closing"}
    BY DEF Lives, ConnSteps, Listened
<1>4. Become(c, "registered", life, conns[c].permit)
    BY <1>2 DEF RegisterAccess, Step
<1>5. relayEntry /\ life = "open" => allowed
    OBVIOUS
<1> HIDE DEF life
<1>6. /\ conns' = [conns EXCEPT ![c] = conns'[c]] /\ conns'[c] \in TrackedConns
      /\ conns'[c].at = "registered" /\ conns'[c].life = life
      /\ conns'[c].permit = conns[c].permit
      /\ conns'[c].source = conns[c].source /\ conns'[c].us = conns[c].us
    BY <1>0, <1>2, <1>3, <1>4, BecomeIs
<1>7. /\ ConnSound(conns'[c], Len(stats), entry)
      /\ CountsAlike(conns[c], conns'[c]) /\ SoleCheck(c, conns'[c])
    BY <1>1, <1>2, <1>3, <1>6
       DEF ConnSound, BeforeCounted, Counts, Waits, Refers, CountsAlike, SoleCheck
<1>8. ClosersKnow /\ accesses \subseteq AdConns /\ updater.close \subseteq AdConns
    BY DEF SbCore, SbParts, SbAdmissionTypeOK
<1>9. conns \in [AdConns -> TrackedConns]
    BY DEF SbCore, SbAdmissionTypeOK
<1>10. \A d \in AdConns : d # c => conns'[d] = conns[d]
    BY <1>6, <1>9
<1>11. UNCHANGED <<fixed, entry, stats, sources, listed, global, allowed, updater, vouched>>
    BY <1>1 DEF trackerVars, fixed
<1>12. ClosersKnow'
  <2>1. ~allowed' => accesses' = {}
      BY <1>1, <1>8 DEF ClosersKnow
  <2>2. /\ updater'.at # "close" => updater'.close = {}
        /\ updater'.close # {} => ~listed'
      BY <1>8, <1>11 DEF ClosersKnow
  <2>3. \A d \in accesses' : conns'[d].at \in Listened /\ conns'[d].life # "unreferenced"
      BY <1>1, <1>3, <1>6, <1>8, <1>10 DEF ClosersKnow, Listened
  <2>4. \A d \in updater'.close : conns'[d].at \in Listened \cup {"none"}
      BY <1>6, <1>8, <1>10, <1>11 DEF ClosersKnow, Listened
  <2>5. ASSUME relayEntry', NEW d \in AdConns, conns'[d].at \in Listened, conns'[d].life = "open"
        PROVE  d \in accesses' \cup updater'.close
    <3>1. CASE d = c
        BY <1>1, <1>5, <1>6, <1>11, <2>5, <3>1 DEF fixed
    <3>2. CASE d # c
        BY <1>1, <1>8, <1>10, <1>11, <2>5, <3>2 DEF ClosersKnow, fixed
    <3> QED
        BY <3>1, <3>2
  <2> QED
      BY <2>1, <2>2, <2>3, <2>4, <2>5 DEF ClosersKnow
<1>13. conns'[c].at # "checked" /\ vouched \subseteq vouched'
    BY <1>6, <1>11
<1>14. conns' \in [AdConns -> TrackedConns] /\ SbParts'
    BY <1>6, <1>7, <1>11, <1>12, <1>13, QuietStep
<1>15. SbAdmissionTypeOK'
    BY <1>1, <1>8, <1>11, <1>14 DEF SbCore, SbAdmissionTypeOK, fixed
<1> QED
    BY <1>14, <1>15 DEF SbCore

\* What the device check says of the source it lets in.
LEMMA DeviceSlotFits ==
    ASSUME SbCore, NEW c \in AdConns, conns[c].at = "resolved", ~gated,
           ~NoDeviceSlot(UsOf(c), conns[c].source), conns[c].source \in Countable, NEW v,
           v = IF global # NoSnapshot /\ conns[c].source \in global
                        THEN vouched \cup {conns[c].source} ELSE vouched
    PROVE  Cardinality((Keys(UsOf(c)) \cup {conns[c].source}) \ v) <= DeviceLimit
<1> DEFINE u == UsOf(c)
           s == conns[c].source
<1>1. conns[c].us \in 1..Len(stats)
    BY SoundConn DEF ConnSound
<1>2. Cardinality(Keys(u) \ vouched) <= DeviceLimit
    BY <1>1 DEF SbCore, SbParts, DevicesFit, UsOf
<1>3. vouched \subseteq v /\ DeviceLimit \in Nat
    BY SbAdmissionAssumption
<1>4. IsFiniteSet(Keys(u)) /\ IsFiniteSet(Keys(u) \cup {s})
  <2>1. Keys(u) \in SUBSET Countable /\ Keys(u) \cup {s} \in SUBSET Countable
      BY DEF Keys
  <2> QED
      BY <2>1, SbAdmissionAssumption, FS_Subset
<1>5. s \in Countable /\ ~NoDeviceSlot(u, s)
    OBVIOUS
<1>6. s \in v <=> s \in vouched \/ (global # NoSnapshot /\ s \in global)
    OBVIOUS
<1> HIDE DEF u, s
<1>7. CASE s \in Keys(u) \/ s \in v
  <2>1. (Keys(u) \cup {s}) \ v \in SUBSET (Keys(u) \ vouched)
      BY <1>3, <1>7
  <2>2. IsFiniteSet(Keys(u) \ vouched)
      BY <1>4, FS_Subset
  <2>3. /\ Cardinality((Keys(u) \cup {s}) \ v) <= Cardinality(Keys(u) \ vouched)
        /\ Cardinality((Keys(u) \cup {s}) \ v) \in Nat /\ Cardinality(Keys(u) \ vouched) \in Nat
      BY <2>1, <2>2, FS_Subset, FS_CardinalityType
  <2> QED
      BY <1>2, <1>3, <2>3 DEF u, s
<1>8. CASE s \notin Keys(u) /\ s \notin v
  <2>1. Cardinality(Keys(u)) < DeviceLimit
    <3>1. CASE global = NoSnapshot
        BY <1>3, <1>4, <1>5, <1>8, <3>1, FS_CardinalityType DEF NoDeviceSlot
    <3>2. CASE global # NoSnapshot
      <4>1. s \notin global
          BY <1>6, <1>8, <3>2
      <4>2. global \in SUBSET Countable
          BY <3>2, SbAdmissionAssumption DEF SbCore, SbAdmissionTypeOK
      <4>3. IsFiniteSet(Keys(u) \cup global)
        <5>1. Keys(u) \cup global \in SUBSET Countable
            BY <4>2 DEF Keys
        <5> QED
            BY <5>1, SbAdmissionAssumption, FS_Subset
      <4>4. /\ Cardinality(Keys(u)) <= Cardinality(Keys(u) \cup global)
            /\ Cardinality(Keys(u)) \in Nat /\ Cardinality(Keys(u) \cup global) \in Nat
        <5>1. Keys(u) \in SUBSET (Keys(u) \cup global)
            OBVIOUS
        <5> QED
            BY <5>1, <1>4, <4>3, FS_Subset, FS_CardinalityType
      <4>5. ~(Cardinality(Keys(u) \cup global) >= DeviceLimit)
          BY <1>5, <1>8, <3>2, <4>1 DEF NoDeviceSlot
      <4> QED
          BY <1>3, <4>4, <4>5
    <3> QED
        BY <3>1, <3>2
  <2>2. /\ Cardinality(Keys(u) \cup {s}) = Cardinality(Keys(u)) + 1
        /\ Cardinality(Keys(u)) \in Nat
      BY <1>4, <1>8, FS_AddElement, FS_CardinalityType
  <2>3. /\ Cardinality((Keys(u) \cup {s}) \ v) <= Cardinality(Keys(u) \cup {s})
        /\ Cardinality((Keys(u) \cup {s}) \ v) \in Nat
    <3>1. (Keys(u) \cup {s}) \ v \in SUBSET (Keys(u) \cup {s})
        OBVIOUS
    <3> QED
        BY <3>1, <1>4, FS_Subset, FS_CardinalityType
  <2> QED
      BY <1>3, <2>1, <2>2, <2>3 DEF u, s
<1> QED
    BY <1>7, <1>8 DEF u, s

\* checkDeviceGate.
LEMMA DeviceCheckStep ==
    ASSUME SbCore, NEW c \in AdConns, CheckDeviceGate(c)
    PROVE  SbCore'
<1>0. SbAdmissionTypeOK
    BY DEF SbCore
<1>1. /\ conns[c].at = "resolved" /\ UNCHANGED <<trackerVars, allowed, accesses, updater>>
      /\ AdmissionFree(c)
    BY DEF CheckDeviceGate, CheckDeviceUnlocked
<1>2. /\ conns[c].at \in ConnSteps /\ conns[c].life = "none" /\ conns[c].permit = "none"
      /\ ConnSound(conns[c], Len(stats), entry) /\ conns[c].source \in AdSources
      /\ ~Counts(conns[c]) /\ ~Waits(conns[c]) /\ ~Refers(conns[c])
    BY <1>1, SoundConn DEF ConnSound, BeforeCounted, Counts, Waits, Refers
<1>3. c \notin accesses /\ c \notin updater.close
    BY <1>1 DEF SbCore, SbParts, ClosersKnow, Listened
<1>4. CASE Refused(c) /\ UNCHANGED vouched
  <2>1. /\ conns' = [conns EXCEPT ![c] = conns'[c]] /\ conns'[c] \in TrackedConns
        /\ conns'[c].at = "none" /\ conns'[c].life = "none" /\ conns'[c].permit = "none"
      BY <1>0, <1>4, RefusedIs
  <2>2. /\ ConnSound(conns'[c], Len(stats), entry)
        /\ ~Counts(conns'[c]) /\ ~Waits(conns'[c]) /\ ~Refers(conns'[c])
      BY <2>1 DEF ConnSound, BeforeCounted, Counts, Waits, Refers
  <2>3. CountsAlike(conns[c], conns'[c])
      BY <1>2, <2>2 DEF CountsAlike
  <2>4. ClosersKnow'
      BY <1>1, <1>3, <2>1, ClosersStay DEF trackerVars, Listened
  <2> QED
      BY <1>1, <1>4, <2>1, <2>2, <2>3, <2>4, PlainStep
<1>5. CASE /\ ~NoDeviceSlot(UsOf(c), conns[c].source) /\ Step(c, "checked")
           /\ vouched' = IF global # NoSnapshot /\ conns[c].source \in global
                         THEN vouched \cup {conns[c].source} ELSE vouched
  <2>1. Become(c, "checked", "none", "none")
      BY <1>2, <1>5 DEF Step
  <2>2. "checked" \in ConnSteps /\ "none" \in Lives /\ "none" \in Permits
      BY DEF ConnSteps, BeforeCounted, Lives, Permits
  <2>3. /\ conns' = [conns EXCEPT ![c] = conns'[c]] /\ conns'[c] \in TrackedConns
        /\ conns'[c].at = "checked" /\ conns'[c].life = "none" /\ conns'[c].permit = "none"
        /\ conns'[c].source = conns[c].source /\ conns'[c].us = conns[c].us
      BY <1>0, <2>1, <2>2, BecomeIs
  <2>4. /\ ConnSound(conns'[c], Len(stats), entry)
        /\ ~Counts(conns'[c]) /\ ~Waits(conns'[c]) /\ ~Refers(conns'[c])
      BY <1>1, <1>2, <2>3 DEF ConnSound, BeforeCounted, Counts, Waits, Refers
  <2>5. CountsAlike(conns[c], conns'[c])
      BY <1>2, <2>4 DEF CountsAlike
  <2>6. SoleCheck(c, conns'[c])
      BY <1>1, <2>3 DEF SoleCheck, AdmissionFree
  <2>7. ClosersKnow'
      BY <1>1, <1>3, <2>3, ClosersStay DEF trackerVars, Listened
  <2>8. UNCHANGED <<fixed, listed, entry, stats, sources, global, allowed, accesses, updater>>
      BY <1>1 DEF trackerVars, fixed
  <2>9. vouched \subseteq vouched'
      BY <1>5
  <2>10. ~gated /\ conns'[c].at = "checked" /\ conns'[c].source \in Countable =>
              Cardinality((Keys(stats[conns'[c].us]) \cup {conns'[c].source}) \ vouched')
                 <= DeviceLimit
      BY <1>1, <1>5, <2>3, DeviceSlotFits DEF UsOf
  <2>11. conns' \in [AdConns -> TrackedConns] /\ SbParts'
      BY <2>3, <2>4, <2>5, <2>6, <2>7, <2>8, <2>9, <2>10, QuietStep
  <2>12. vouched' \subseteq AdSources
      BY <1>0, <1>2, <1>5 DEF SbAdmissionTypeOK
  <2>13. SbAdmissionTypeOK'
      BY <1>0, <2>8, <2>11, <2>12 DEF SbAdmissionTypeOK, fixed
  <2> QED
      BY <2>11, <2>13 DEF SbCore
<1> QED
    BY <1>4, <1>5 DEF CheckDeviceGate, CheckDeviceUnlocked

\* A step that changes what is counted for its connection.
LEMMA CountingStep ==
    ASSUME SbCore, NEW c \in AdConns, conns' = [conns EXCEPT ![c] = conns'[c]],
           conns'[c] \in TrackedConns, NEW u \in UserStats, NEW i \in 1..Len(stats),
           i = conns[c].us, stats' = [stats EXCEPT ![i] = u],
           UNCHANGED <<fixed, listed, entry, global, sources, allowed, accesses, updater, vouched>>,
           ConnSound(conns'[c], Len(stats), entry), conns'[c].at # "checked",
           Counts(conns'[c]) \/ Waits(conns'[c]) =>
              conns'[c].us = i /\ conns'[c].source = conns[c].source,
           Refers(conns'[c]) <=> Refers(conns[c]),
           Refers(conns'[c]) => conns'[c].source = conns[c].source,
           u.connCount = stats[i].connCount - (IF Counts(conns[c]) THEN 1 ELSE 0)
                                         + (IF Counts(conns'[c]) THEN 1 ELSE 0),
           u.pending = stats[i].pending - (IF Waits(conns[c]) THEN 1 ELSE 0)
                                     + (IF Waits(conns'[c]) THEN 1 ELSE 0),
           \A s \in AdSources : u.ips[s] = stats[i].ips[s]
               - (IF Counts(conns[c]) /\ conns[c].source = s THEN 1 ELSE 0)
               + (IF Counts(conns'[c]) /\ conns[c].source = s THEN 1 ELSE 0),
           u.connCount + u.pending <= connLimit,
           ~gated => \/ Keys(u) \subseteq Keys(stats[i])
                     \/ /\ conns[c].at = "checked"
                        /\ Cardinality(Keys(u) \ vouched) <= DeviceLimit,
           ClosersKnow'
    PROVE  SbCore'
<1>1. /\ SbAdmissionTypeOK /\ conns \in [AdConns -> TrackedConns] /\ stats \in Seq(UserStats)
      /\ gated' = gated /\ relayEntry' = relayEntry /\ connLimit' = connLimit
    BY DEF SbCore, SbAdmissionTypeOK, fixed
<1>2. /\ stats' \in Seq(UserStats) /\ Len(stats') = Len(stats) /\ stats'[i] = u
      /\ \A j \in 1..Len(stats) : j # i => stats'[j] = stats[j]
    BY <1>1, StatsReplaced
<1>3. SoleCheck(c, conns'[c])
    BY DEF SoleCheck
<1>4. /\ conns' \in [AdConns -> TrackedConns]
      /\ (ConnPhases /\ PermitsHeld /\ CountedInEntry)' /\ OneCheck'
    BY <1>2, <1>3, MoveIsSound
<1>5. Books(stats, conns) /\ References(sources, conns) /\ InLimits(stats)
      /\ DevicesFit(stats, vouched) /\ RoomIsKept /\ OneCheck /\ ListedInUse
    BY DEF SbCore, SbParts
<1>6. Books(stats', conns')
  <2> DEFINE r == conns'[c]
  <2>1. r \in TrackedConns /\ conns' = [conns EXCEPT ![c] = r]
      OBVIOUS
  <2>2. /\ Counts(r) \/ Waits(r) => r.us = i /\ r.source = conns[c].source
        /\ u.connCount = stats[i].connCount - (IF Counts(conns[c]) THEN 1 ELSE 0)
                                            + (IF Counts(r) THEN 1 ELSE 0)
        /\ u.pending = stats[i].pending - (IF Waits(conns[c]) THEN 1 ELSE 0)
                                        + (IF Waits(r) THEN 1 ELSE 0)
        /\ \A s \in AdSources : u.ips[s] = stats[i].ips[s]
               - (IF Counts(conns[c]) /\ conns[c].source = s THEN 1 ELSE 0)
               + (IF Counts(r) /\ conns[c].source = s THEN 1 ELSE 0)
      OBVIOUS
  <2> HIDE DEF r
  <2>3. Books([stats EXCEPT ![i] = u], [conns EXCEPT ![c] = r])
      BY <1>1, <1>5, <2>1, <2>2, CountedStep
  <2> QED
      BY <2>1, <2>3
<1>7. References(sources', conns')
  <2>1. References(sources, [conns EXCEPT ![c] = conns'[c]])
      BY <1>1, <1>5, UnreferencedStep
  <2> QED
      BY <2>1
<1>8. Books(stats, conns)' /\ References(sources, conns)'
    BY <1>1, <1>6, <1>7 DEF References
<1>9. InLimits(stats)' /\ ListedInUse'
    BY <1>1, <1>2, <1>5 DEF InLimits, ListedInUse
<1>10. ASSUME ~gated, NEW j \in 1..Len(stats)
       PROVE  Cardinality(Keys(stats'[j]) \ vouched) <= DeviceLimit
  <2>1. Cardinality(Keys(stats[j]) \ vouched) <= DeviceLimit
      BY <1>5, <1>10 DEF DevicesFit
  <2>2. CASE j # i
      BY <1>2, <2>1, <2>2
  <2>3. CASE j = i /\ Keys(u) \subseteq Keys(stats[i])
      BY <1>2, <2>1, <2>3, FewerFitAlone
  <2>4. CASE j = i /\ Cardinality(Keys(u) \ vouched) <= DeviceLimit
      BY <1>2, <2>4
  <2> QED
      BY <1>10, <2>2, <2>3, <2>4
<1>11. DevicesFit(stats, vouched)'
    BY <1>1, <1>2, <1>10 DEF DevicesFit
<1>12. ASSUME ~gated, NEW d \in AdConns, conns'[d].at = "checked", conns'[d].source \in Countable
       PROVE  Cardinality((Keys(stats'[conns'[d].us]) \cup {conns'[d].source}) \ vouched)
                 <= DeviceLimit
  <2>1. d # c /\ conns'[d] = conns[d]
      BY <1>1, <1>12
  <2>2. conns[d].us \in 1..Len(stats)
      BY <1>12, <2>1 DEF SbCore, SbParts, ConnPhases
  <2>3. Cardinality((Keys(stats[conns[d].us]) \cup {conns[d].source}) \ vouched) <= DeviceLimit
      BY <1>5, <1>12, <2>1 DEF RoomIsKept, UsOf
  <2>4. CASE conns[d].us # i
      BY <1>2, <2>1, <2>2, <2>3, <2>4
  <2>5. CASE conns[d].us = i
    <3>1. Keys(u) \subseteq Keys(stats[i])
        BY <1>5, <1>12, <2>1, <2>5 DEF OneCheck
    <3>2. conns[d].source \in Countable
        BY <1>12, <2>1
    <3>3. Cardinality((Keys(stats[i]) \cup {conns[d].source}) \ vouched) <= DeviceLimit
        BY <2>3, <2>5
    <3>4. Cardinality((Keys(u) \cup {conns[d].source}) \ vouched) <= DeviceLimit
        BY <3>1, <3>2, <3>3, FewerFitWith
    <3> QED
        BY <1>2, <2>1, <2>5, <3>4
  <2> QED
      BY <2>4, <2>5
<1>13. RoomIsKept'
    BY <1>1, <1>12 DEF RoomIsKept, UsOf
<1>14. SbAdmissionTypeOK'
    BY <1>1, <1>2, <1>4 DEF SbAdmissionTypeOK, fixed
<1> QED
    BY <1>4, <1>8, <1>9, <1>11, <1>13, <1>14 DEF SbCore, SbParts

\* Bags of sources.
LEMMA BagsOfSources ==
    ASSUME NEW bag \in [AdSources -> Int], NEW s \in AdSources
    PROVE  /\ Add(bag, s) \in [AdSources -> Int] /\ Drop(bag, s) \in [AdSources -> Int]
           /\ \A t \in AdSources :
                 /\ Add(bag, s)[t] = bag[t] + (IF s = t THEN 1 ELSE 0)
                 /\ bag[s] > 0 => Drop(bag, s)[t] = bag[t] - (IF s = t THEN 1 ELSE 0)
                 /\ bag[s] >= 0 => Drop(bag, s)[t] <= bag[t]
<1>1. /\ Add(bag, s) \in [AdSources -> Int]
      /\ \A t \in AdSources : Add(bag, s)[t] = bag[t] + (IF s = t THEN 1 ELSE 0)
    BY DEF Add
<1>2. \A t \in AdSources :
         Drop(bag, s)[t] = IF s = t THEN (IF bag[s] > 0 THEN bag[s] - 1 ELSE 0) ELSE bag[t]
    BY DEF Drop
<1>3. Drop(bag, s) \in [AdSources -> Int]
    BY DEF Drop
<1> QED
    BY <1>1, <1>2, <1>3

\* What is known of the userStats of a connection.
LEMMA StatsOfConn ==
    ASSUME SbCore, NEW c \in AdConns, conns[c].at # "none"
    PROVE  /\ conns[c].us \in 1..Len(stats) /\ UsOf(c) = stats[conns[c].us]
           /\ UsOf(c) \in UserStats
           /\ UsOf(c).connCount \in Nat /\ UsOf(c).pending \in Nat
           /\ UsOf(c).ips \in [AdSources -> Int]
           /\ \A s \in AdSources : UsOf(c).ips[s] \in Nat
           /\ UsOf(c).connCount + UsOf(c).pending <= connLimit
           /\ conns[c].source \in AdSources /\ connLimit \in Nat
<1>1. conns[c].us \in 1..Len(stats) /\ conns[c].source \in AdSources
    BY SoundConn DEF ConnSound
<1>2. stats \in Seq(UserStats) /\ Books(stats, conns) /\ InLimits(stats) /\ connLimit \in Nat
    BY SbAdmissionAssumption DEF SbCore, SbParts, SbAdmissionTypeOK
<1>3. stats[conns[c].us] \in UserStats
    BY <1>1, <1>2
<1>4. /\ stats[conns[c].us].connCount \in Nat /\ stats[conns[c].us].pending \in Nat
      /\ \A s \in AdSources : stats[conns[c].us].ips[s] \in Nat
    BY <1>1, <1>2, CountsAreNatural
<1>5. stats[conns[c].us].connCount + stats[conns[c].us].pending <= connLimit
    BY <1>1, <1>2 DEF InLimits
<1> QED
    BY <1>1, <1>2, <1>3, <1>4, <1>5 DEF UsOf, UserStats

\* Whatever is counted is one of those counted.
LEMMA CountedIsPositive ==
    ASSUME SbCore, NEW c \in AdConns
    PROVE  /\ Counts(conns[c]) =>
                 UsOf(c).connCount > 0 /\ UsOf(c).ips[conns[c].source] > 0
           /\ Waits(conns[c]) => UsOf(c).pending > 0
           /\ relayEntry /\ Refers(conns[c]) => sources[conns[c].source] > 0
<1>1. ASSUME NEW S \in SUBSET AdConns, c \in S PROVE Cardinality(S) > 0
    BY <1>1, SbAdmissionAssumption, FS_Subset, FS_EmptySet, FS_CardinalityType
<1>2. ASSUME Counts(conns[c]) \/ Waits(conns[c])
      PROVE  /\ conns[c].us \in 1..Len(stats) /\ conns[c].source \in AdSources
             /\ BooksOf(stats, conns[c].us, conns)
  <2>1. conns[c].us \in 1..Len(stats)
      BY <1>2, SoundConn DEF ConnSound, Counts, Waits, BeforeCounted
  <2> QED
      BY <2>1, SoundConn DEF SbCore, SbParts, Books
<1>3. ASSUME Counts(conns[c])
      PROVE  UsOf(c).connCount > 0 /\ UsOf(c).ips[conns[c].source] > 0
  <2>1. /\ CountedOf(conns, conns[c].us) \in SUBSET AdConns
        /\ FromOf(conns, conns[c].us, conns[c].source) \in SUBSET AdConns
        /\ c \in CountedOf(conns, conns[c].us)
        /\ c \in FromOf(conns, conns[c].us, conns[c].source)
      BY <1>3 DEF CountedOf, FromOf
  <2>2. /\ Cardinality(CountedOf(conns, conns[c].us)) > 0
        /\ Cardinality(FromOf(conns, conns[c].us, conns[c].source)) > 0
      BY <1>1, <2>1
  <2> QED
      BY <1>2, <1>3, <2>2 DEF BooksOf, UsOf
<1>4. ASSUME Waits(conns[c]) PROVE UsOf(c).pending > 0
  <2>1. WaitingOf(conns, conns[c].us) \in SUBSET AdConns /\ c \in WaitingOf(conns, conns[c].us)
      BY <1>4 DEF WaitingOf
  <2>2. Cardinality(WaitingOf(conns, conns[c].us)) > 0
      BY <1>1, <2>1
  <2> QED
      BY <1>2, <1>4, <2>2 DEF BooksOf, UsOf
<1>5. ASSUME relayEntry, Refers(conns[c]) PROVE sources[conns[c].source] > 0
  <2>1. /\ ReferringTo(conns, conns[c].source) \in SUBSET AdConns
        /\ c \in ReferringTo(conns, conns[c].source)
      BY <1>5 DEF ReferringTo
  <2>2. Cardinality(ReferringTo(conns, conns[c].source)) > 0
      BY <1>1, <2>1
  <2> QED
      BY <1>5, <2>2, SoundConn DEF SbCore, SbParts, References
<1> QED
    BY <1>3, <1>4, <1>5

\* checkConnGate: refused.
LEMMA ConnRefused ==
    ASSUME SbCore, NEW c \in AdConns, conns[c].at = "checked", Refused(c),
           UNCHANGED <<trackerVars, allowed, accesses, updater, vouched>>
    PROVE  SbCore'
<1>0. SbAdmissionTypeOK
    BY DEF SbCore
<1>1. ~Counts(conns[c]) /\ ~Waits(conns[c]) /\ ~Refers(conns[c])
    BY SoundConn DEF ConnSound, BeforeCounted, Counts, Waits, Refers
<1>2. c \notin accesses /\ c \notin updater.close
    BY DEF SbCore, SbParts, ClosersKnow, Listened
<1>3. /\ conns' = [conns EXCEPT ![c] = conns'[c]] /\ conns'[c] \in TrackedConns
      /\ conns'[c].at = "none" /\ conns'[c].life = "none" /\ conns'[c].permit = "none"
    BY <1>0, RefusedIs
<1>4. /\ ConnSound(conns'[c], Len(stats), entry)
      /\ ~Counts(conns'[c]) /\ ~Waits(conns'[c]) /\ ~Refers(conns'[c])
    BY <1>3 DEF ConnSound, BeforeCounted, Counts, Waits, Refers
<1>5. CountsAlike(conns[c], conns'[c])
    BY <1>1, <1>4 DEF CountsAlike
<1>6. ClosersKnow'
    BY <1>2, <1>3, ClosersStay DEF trackerVars, Listened
<1> QED
    BY <1>3, <1>4, <1>5, <1>6, PlainStep

\* checkConnGate: a place to wait in for the gate, or at once a counted one.
LEMMA ConnCheckStep ==
    ASSUME SbCore, NEW c \in AdConns, CheckConnGate(c)
    PROVE  SbCore'
<1>0. SbAdmissionTypeOK
    BY DEF SbCore
<1> DEFINE i == conns[c].us
<1>1. /\ conns[c].at = "checked"
      /\ UNCHANGED <<fixed, listed, entry, global, sources, allowed, accesses, updater, vouched>>
    BY DEF CheckConnGate, fixed
<1>2. /\ conns[c].life = "none" /\ conns[c].permit = "none"
      /\ ConnSound(conns[c], Len(stats), entry)
      /\ ~Counts(conns[c]) /\ ~Waits(conns[c]) /\ ~Refers(conns[c])
    BY <1>1, SoundConn DEF ConnSound, BeforeCounted, Counts, Waits, Refers
<1>3. /\ i \in 1..Len(stats) /\ UsOf(c) = stats[i] /\ UsOf(c) \in UserStats
      /\ UsOf(c).connCount \in Nat /\ UsOf(c).pending \in Nat
      /\ UsOf(c).ips \in [AdSources -> Int] /\ \A s \in AdSources : UsOf(c).ips[s] \in Nat
      /\ conns[c].source \in AdSources /\ connLimit \in Nat
    BY <1>1, StatsOfConn
<1>4. "none" \in Lives /\ "none" \in Permits /\ {"acquiring", "counted"} \subseteq ConnSteps
    BY DEF Lives, Permits, ConnSteps, BeforeCounted
<1>5. c \notin accesses /\ c \notin updater.close
    BY <1>1 DEF SbCore, SbParts, ClosersKnow, Listened
<1>6. CASE Refused(c) /\ UNCHANGED stats
    BY <1>1, <1>6, ConnRefused DEF trackerVars, fixed
<1>7. CASE /\ gated /\ UsOf(c).connCount + UsOf(c).pending < connLimit
           /\ Recount(i, UsOf(c).ips, UsOf(c).connCount, UsOf(c).pending + 1)
           /\ Step(c, "acquiring")
  <2>1. Become(c, "acquiring", "none", "none")
      BY <1>2, <1>7 DEF Step
  <2>2. /\ conns' = [conns EXCEPT ![c] = conns'[c]] /\ conns'[c] \in TrackedConns
        /\ conns'[c].at = "acquiring" /\ conns'[c].life = "none" /\ conns'[c].permit = "none"
        /\ conns'[c].source = conns[c].source /\ conns'[c].us = i
      BY <1>0, <1>4, <2>1, BecomeIs
  <2>3. /\ ConnSound(conns'[c], Len(stats), entry)
        /\ ~Counts(conns'[c]) /\ Waits(conns'[c]) /\ ~Refers(conns'[c])
      BY <1>2, <1>3, <1>7, <2>2 DEF ConnSound, BeforeCounted, Counts, Waits, Refers
  <2>4. ClosersKnow'
      BY <1>1, <1>5, <2>2, ClosersStay DEF fixed, Listened
  <2> DEFINE u == [ips |-> UsOf(c).ips, connCount |-> UsOf(c).connCount,
                   pending |-> UsOf(c).pending + 1]
  <2>5. u \in UserStats /\ stats' = [stats EXCEPT ![i] = u]
      BY <1>3, <1>7 DEF UserStats, Recount
  <2>6. /\ u.connCount = stats[i].connCount /\ u.pending = stats[i].pending + 1
        /\ u.ips = stats[i].ips
      BY <1>3
  <2>7. u.connCount + u.pending <= connLimit
      BY <1>3, <1>7
  <2> HIDE DEF u
  <2>8. /\ u.connCount = stats[i].connCount - (IF Counts(conns[c]) THEN 1 ELSE 0)
                                         + (IF Counts(conns'[c]) THEN 1 ELSE 0)
        /\ u.pending = stats[i].pending - (IF Waits(conns[c]) THEN 1 ELSE 0)
                                     + (IF Waits(conns'[c]) THEN 1 ELSE 0)
        /\ \A s \in AdSources : u.ips[s] = stats[i].ips[s]
               - (IF Counts(conns[c]) /\ conns[c].source = s THEN 1 ELSE 0)
               + (IF Counts(conns'[c]) /\ conns[c].source = s THEN 1 ELSE 0)
      BY <1>2, <1>3, <2>3, <2>6
  <2>9. /\ Counts(conns'[c]) \/ Waits(conns'[c]) =>
              conns'[c].us = i /\ conns'[c].source = conns[c].source
        /\ Refers(conns'[c]) <=> Refers(conns[c])
        /\ Refers(conns'[c]) => conns'[c].source = conns[c].source
        /\ conns'[c].at # "checked"
      BY <1>2, <2>2, <2>3
  <2>10. ~gated => \/ Keys(u) \subseteq Keys(stats[i])
                   \/ /\ conns[c].at = "checked"
                      /\ Cardinality(Keys(u) \ vouched) <= DeviceLimit
      BY <1>7
  <2> QED
      BY <1>1, <1>3, <2>2, <2>3, <2>4, <2>5, <2>7, <2>8, <2>9, <2>10, CountingStep
<1>8. CASE /\ ~gated /\ UsOf(c).connCount + UsOf(c).pending < connLimit
           /\ Recount(i, Add(UsOf(c).ips, conns[c].source), UsOf(c).connCount + 1,
                      UsOf(c).pending)
           /\ Step(c, "counted")
  <2>1. Become(c, "counted", "none", "none")
      BY <1>2, <1>8 DEF Step
  <2>2. /\ conns' = [conns EXCEPT ![c] = conns'[c]] /\ conns'[c] \in TrackedConns
        /\ conns'[c].at = "counted" /\ conns'[c].life = "none" /\ conns'[c].permit = "none"
        /\ conns'[c].source = conns[c].source /\ conns'[c].us = i
      BY <1>0, <1>4, <2>1, BecomeIs
  <2>3. /\ ConnSound(conns'[c], Len(stats), entry)
        /\ Counts(conns'[c]) /\ ~Waits(conns'[c]) /\ ~Refers(conns'[c])
      BY <1>2, <1>3, <1>8, <2>2 DEF ConnSound, BeforeCounted, Counts, Waits, Refers
  <2>4. ClosersKnow'
      BY <1>1, <1>5, <2>2, ClosersStay DEF fixed, Listened
  <2> DEFINE u == [ips |-> Add(UsOf(c).ips, conns[c].source),
                   connCount |-> UsOf(c).connCount + 1, pending |-> UsOf(c).pending]
  <2>50. Add(UsOf(c).ips, conns[c].source) \in [AdSources -> Int]
      BY <1>3, BagsOfSources
  <2>5. u \in UserStats /\ stats' = [stats EXCEPT ![i] = u]
      BY <1>3, <1>8, <2>50 DEF UserStats, Recount
  <2>6. /\ u.connCount = stats[i].connCount + 1 /\ u.pending = stats[i].pending
        /\ u.ips = Add(stats[i].ips, conns[c].source)
      BY <1>3
  <2>7. u.connCount + u.pending <= connLimit
      BY <1>3, <1>8
  <2> HIDE DEF u
  <2>8. \A s \in AdSources :
           u.ips[s] = stats[i].ips[s] + (IF conns[c].source = s THEN 1 ELSE 0)
    <3>1. \A s \in AdSources : Add(UsOf(c).ips, conns[c].source)[s]
                = UsOf(c).ips[s] + (IF conns[c].source = s THEN 1 ELSE 0)
      <4> DEFINE bag == UsOf(c).ips
                 src == conns[c].source
      <4>1. bag \in [AdSources -> Int] /\ src \in AdSources
          BY <1>3
      <4> HIDE DEF bag, src
      <4>2. \A s \in AdSources : Add(bag, src)[s] = bag[s] + (IF src = s THEN 1 ELSE 0)
          BY <4>1, BagsOfSources
      <4> QED
          BY <4>2 DEF bag, src
    <3> QED
        BY <1>3, <2>6, <3>1
  <2>9. /\ u.connCount = stats[i].connCount - (IF Counts(conns[c]) THEN 1 ELSE 0)
                                         + (IF Counts(conns'[c]) THEN 1 ELSE 0)
        /\ u.pending = stats[i].pending - (IF Waits(conns[c]) THEN 1 ELSE 0)
                                     + (IF Waits(conns'[c]) THEN 1 ELSE 0)
        /\ \A s \in AdSources : u.ips[s] = stats[i].ips[s]
               - (IF Counts(conns[c]) /\ conns[c].source = s THEN 1 ELSE 0)
               + (IF Counts(conns'[c]) /\ conns[c].source = s THEN 1 ELSE 0)
      BY <1>2, <1>3, <2>3, <2>6, <2>8
  <2>10. /\ Counts(conns'[c]) \/ Waits(conns'[c]) =>
              conns'[c].us = i /\ conns'[c].source = conns[c].source
         /\ Refers(conns'[c]) <=> Refers(conns[c])
         /\ Refers(conns'[c]) => conns'[c].source = conns[c].source
         /\ conns'[c].at # "checked"
      BY <1>2, <2>2, <2>3
  <2>11. Keys(u) = Keys(stats[i]) \cup ({conns[c].source} \cap Countable)
      BY <1>3, <2>8, SbAdmissionAssumption, SMTT(20) DEF Keys
  <2>12. \/ Keys(u) \subseteq Keys(stats[i])
         \/ Cardinality(Keys(u) \ vouched) <= DeviceLimit
    <3>1. CASE conns[c].source \in Countable
      <4>1. Cardinality((Keys(stats[i]) \cup {conns[c].source}) \ vouched) <= DeviceLimit
          BY <1>1, <1>8, <3>1 DEF SbCore, SbParts, RoomIsKept, UsOf
      <4>2. Keys(u) = Keys(stats[i]) \cup {conns[c].source}
          BY <2>11, <3>1
      <4> QED
          BY <4>1, <4>2
    <3>2. CASE conns[c].source \notin Countable
        BY <2>11, <3>2
    <3> QED
        BY <3>1, <3>2
  <2> QED
      BY <1>1, <1>3, <2>2, <2>3, <2>4, <2>5, <2>7, <2>9, <2>10, <2>12, CountingStep
<1> QED
    BY <1>6, <1>7, <1>8 DEF CheckConnGate

\* The rest of acquireDevice.
LEMMA SettleStep ==
    ASSUME SbCore, NEW c \in AdConns, Settle(c)
    PROVE  SbCore'
<1>0. SbAdmissionTypeOK
    BY DEF SbCore
<1> DEFINE i == conns[c].us
<1>1. /\ conns[c].at \in {"valid", "denied"}
      /\ UNCHANGED <<fixed, listed, entry, global, sources, allowed, accesses, updater, vouched>>
    BY DEF Settle, fixed
<1>2. /\ conns[c].life = "none" /\ conns[c].permit \in Permits /\ gated
      /\ ConnSound(conns[c], Len(stats), entry)
      /\ ~Counts(conns[c]) /\ Waits(conns[c]) /\ ~Refers(conns[c])
    BY <1>1, SoundConn DEF ConnSound, BeforeCounted, Counts, Waits, Refers
<1>3. /\ i \in 1..Len(stats) /\ UsOf(c) = stats[i] /\ UsOf(c) \in UserStats
      /\ UsOf(c).connCount \in Nat /\ UsOf(c).pending \in Nat
      /\ UsOf(c).ips \in [AdSources -> Int]
      /\ conns[c].source \in AdSources /\ connLimit \in Nat
      /\ UsOf(c).connCount + UsOf(c).pending <= connLimit
    BY <1>1, StatsOfConn
<1>4. "none" \in Lives /\ "counted" \in ConnSteps
    BY DEF Lives, ConnSteps
<1>5. c \notin accesses /\ c \notin updater.close
    BY <1>1 DEF SbCore, SbParts, ClosersKnow, Listened
<1>6. CASE /\ conns[c].at = "valid"
           /\ Recount(i, Add(UsOf(c).ips, conns[c].source), UsOf(c).connCount + 1,
                      UsOf(c).pending - 1)
           /\ Step(c, "counted")
  <2>1. Become(c, "counted", "none", conns[c].permit)
      BY <1>2, <1>6 DEF Step
  <2>2. /\ conns' = [conns EXCEPT ![c] = conns'[c]] /\ conns'[c] \in TrackedConns
        /\ conns'[c].at = "counted" /\ conns'[c].life = "none"
        /\ conns'[c].permit = conns[c].permit
        /\ conns'[c].source = conns[c].source /\ conns'[c].us = i
      BY <1>0, <1>2, <1>4, <2>1, BecomeIs
  <2>3. /\ ConnSound(conns'[c], Len(stats), entry)
        /\ Counts(conns'[c]) /\ ~Waits(conns'[c]) /\ ~Refers(conns'[c])
      BY <1>2, <1>3, <1>6, <2>2 DEF ConnSound, BeforeCounted, Counts, Waits, Refers
  <2>4. ClosersKnow'
      BY <1>1, <1>5, <2>2, ClosersStay DEF fixed, Listened
  <2> DEFINE bag == UsOf(c).ips
             src == conns[c].source
             u == [ips |-> Add(bag, src),
                   connCount |-> UsOf(c).connCount + 1, pending |-> UsOf(c).pending - 1]
  <2>50. bag \in [AdSources -> Int] /\ src \in AdSources
      BY <1>3
  <2> HIDE DEF bag, src
  <2>5. /\ Add(bag, src) \in [AdSources -> Int]
        /\ \A s \in AdSources : Add(bag, src)[s] = bag[s] + (IF src = s THEN 1 ELSE 0)
      BY <2>50, BagsOfSources
  <2>6. u \in UserStats /\ stats' = [stats EXCEPT ![i] = u]
      BY <1>3, <1>6, <2>5, SMTT(20) DEF UserStats, Recount, bag, src
  <2>7. /\ u.connCount = stats[i].connCount + 1 /\ u.pending = stats[i].pending - 1
        /\ u.ips = Add(bag, src)
      BY <1>3
  <2>8. u.connCount + u.pending <= connLimit
      BY <1>3, SMTT(20)
  <2> HIDE DEF u
  <2>9. /\ u.connCount = stats[i].connCount - (IF Counts(conns[c]) THEN 1 ELSE 0)
                                         + (IF Counts(conns'[c]) THEN 1 ELSE 0)
        /\ u.pending = stats[i].pending - (IF Waits(conns[c]) THEN 1 ELSE 0)
                                     + (IF Waits(conns'[c]) THEN 1 ELSE 0)
        /\ \A s \in AdSources : u.ips[s] = stats[i].ips[s]
               - (IF Counts(conns[c]) /\ conns[c].source = s THEN 1 ELSE 0)
               + (IF Counts(conns'[c]) /\ conns[c].source = s THEN 1 ELSE 0)
    <3>1. /\ u.connCount = stats[i].connCount - 0 + 1
          /\ u.pending = stats[i].pending - 1 + 0
        BY <1>3, <2>7
    <3>2. \A s \in AdSources : u.ips[s] = stats[i].ips[s] - 0
                                           + (IF conns[c].source = s THEN 1 ELSE 0)
        BY <1>3, <2>5, <2>7 DEF bag, src
    <3> QED
        BY <1>2, <2>3, <3>1, <3>2
  <2>10. /\ Counts(conns'[c]) \/ Waits(conns'[c]) =>
              conns'[c].us = i /\ conns'[c].source = conns[c].source
         /\ Refers(conns'[c]) <=> Refers(conns[c])
         /\ Refers(conns'[c]) => conns'[c].source = conns[c].source
         /\ conns'[c].at # "checked"
      BY <1>2, <2>2, <2>3
  <2> QED
      BY <1>1, <1>2, <1>3, <2>2, <2>3, <2>4, <2>6, <2>8, <2>9, <2>10, CountingStep
<1>7. CASE /\ conns[c].at = "denied"
           /\ Recount(i, UsOf(c).ips, UsOf(c).connCount, UsOf(c).pending - 1)
           /\ Refused(c)
  <2>2. /\ conns' = [conns EXCEPT ![c] = conns'[c]] /\ conns'[c] \in TrackedConns
        /\ conns'[c].at = "none" /\ conns'[c].life = "none" /\ conns'[c].permit = "none"
      BY <1>0, <1>7, RefusedIs
  <2>3. /\ ConnSound(conns'[c], Len(stats), entry)
        /\ ~Counts(conns'[c]) /\ ~Waits(conns'[c]) /\ ~Refers(conns'[c])
      BY <2>2 DEF ConnSound, BeforeCounted, Counts, Waits, Refers
  <2>4. ClosersKnow'
      BY <1>1, <1>5, <2>2, ClosersStay DEF fixed, Listened
  <2> DEFINE u == [ips |-> UsOf(c).ips,
                   connCount |-> UsOf(c).connCount, pending |-> UsOf(c).pending - 1]
  <2>6. u \in UserStats /\ stats' = [stats EXCEPT ![i] = u]
      BY <1>3, <1>7 DEF UserStats, Recount
  <2>7. /\ u.connCount = stats[i].connCount /\ u.pending = stats[i].pending - 1
        /\ u.ips = stats[i].ips
      BY <1>3
  <2>8. u.connCount + u.pending <= connLimit
      BY <1>3
  <2> HIDE DEF u
  <2>9. /\ u.connCount = stats[i].connCount - (IF Counts(conns[c]) THEN 1 ELSE 0)
                                         + (IF Counts(conns'[c]) THEN 1 ELSE 0)
        /\ u.pending = stats[i].pending - (IF Waits(conns[c]) THEN 1 ELSE 0)
                                     + (IF Waits(conns'[c]) THEN 1 ELSE 0)
        /\ \A s \in AdSources : u.ips[s] = stats[i].ips[s]
               - (IF Counts(conns[c]) /\ conns[c].source = s THEN 1 ELSE 0)
               + (IF Counts(conns'[c]) /\ conns[c].source = s THEN 1 ELSE 0)
    <3>1. /\ u.connCount = stats[i].connCount - 0 + 0
          /\ u.pending = stats[i].pending - 1 + 0
          /\ \A s \in AdSources : u.ips[s] = stats[i].ips[s] - 0 + 0
        BY <1>3, <2>7
    <3> QED
        BY <1>2, <2>3, <3>1
  <2>10. /\ Counts(conns'[c]) \/ Waits(conns'[c]) =>
              conns'[c].us = i /\ conns'[c].source = conns[c].source
         /\ Refers(conns'[c]) <=> Refers(conns[c])
         /\ Refers(conns'[c]) => conns'[c].source = conns[c].source
         /\ conns'[c].at # "checked"
      BY <1>2, <2>2, <2>3
  <2> QED
      BY <1>1, <1>2, <1>3, <2>2, <2>3, <2>4, <2>6, <2>8, <2>9, <2>10, CountingStep
<1> QED
    BY <1>6, <1>7 DEF Settle

\* userStats.removeConn.
LEMMA RemoveStep ==
    ASSUME SbCore, NEW c \in AdConns, RemoveConn(c)
    PROVE  SbCore'
<1>0. SbAdmissionTypeOK
    BY DEF SbCore
<1> DEFINE i == conns[c].us
<1>1. /\ conns[c].life = "closing"
      /\ UNCHANGED <<fixed, listed, entry, global, sources, allowed, accesses, updater, vouched>>
    BY DEF RemoveConn, fixed
<1>2. /\ conns[c].at \in ConnSteps /\ conns[c].permit \in Permits
      /\ conns[c].at \in Listened /\ conns[c].at # "none" /\ conns[c].at # "checked"
      /\ ConnSound(conns[c], Len(stats), entry)
      /\ Counts(conns[c]) /\ ~Waits(conns[c]) /\ Refers(conns[c])
    BY <1>1, SoundConn DEF ConnSound, ConnSteps, Listened, BeforeCounted, Counts, Waits, Refers
<1>3. /\ i \in 1..Len(stats) /\ UsOf(c) = stats[i] /\ UsOf(c) \in UserStats
      /\ UsOf(c).connCount \in Nat /\ UsOf(c).pending \in Nat
      /\ UsOf(c).ips \in [AdSources -> Int] /\ \A s \in AdSources : UsOf(c).ips[s] \in Nat
      /\ conns[c].source \in AdSources /\ connLimit \in Nat
      /\ UsOf(c).connCount + UsOf(c).pending <= connLimit
    BY <1>2, StatsOfConn
<1>4. UsOf(c).ips[conns[c].source] > 0
    BY <1>2, CountedIsPositive
<1>5. "uncounted" \in Lives
    BY DEF Lives
<1>6. Become(c, conns[c].at, "uncounted", conns[c].permit)
    BY DEF RemoveConn, Die
<1>7. /\ conns' = [conns EXCEPT ![c] = conns'[c]] /\ conns'[c] \in TrackedConns
      /\ conns'[c].at = conns[c].at /\ conns'[c].life = "uncounted"
      /\ conns'[c].permit = conns[c].permit
      /\ conns'[c].source = conns[c].source /\ conns'[c].us = i
    BY <1>0, <1>2, <1>5, <1>6, BecomeIs
<1>8. /\ ConnSound(conns'[c], Len(stats), entry)
      /\ ~Counts(conns'[c]) /\ ~Waits(conns'[c]) /\ Refers(conns'[c])
    BY <1>2, <1>3, <1>7 DEF ConnSound, BeforeCounted, Counts, Waits, Refers, Listened
<1>9. ClosersKnow'
    BY <1>1, <1>2, <1>7, ClosersStay DEF fixed
<1> DEFINE bag == UsOf(c).ips
           src == conns[c].source
           u == [ips |-> Drop(bag, src),
                 connCount |-> UsOf(c).connCount - 1, pending |-> UsOf(c).pending]
<1>10. bag \in [AdSources -> Int] /\ src \in AdSources /\ bag[src] > 0
    BY <1>3, <1>4
<1> HIDE DEF bag, src
<1>11. /\ Drop(bag, src) \in [AdSources -> Int]
       /\ \A s \in AdSources : Drop(bag, src)[s] = bag[s] - (IF src = s THEN 1 ELSE 0)
    BY <1>10, BagsOfSources
<1>12. u \in UserStats /\ stats' = [stats EXCEPT ![i] = u]
    BY <1>3, <1>11 DEF UserStats, RemoveConn, Recount, bag, src
<1>13. /\ u.connCount = stats[i].connCount - 1 /\ u.pending = stats[i].pending
       /\ u.ips = Drop(bag, src)
    BY <1>3
<1>14. u.connCount + u.pending <= connLimit
    BY <1>3
<1> HIDE DEF u
<1>15. /\ u.connCount = stats[i].connCount - (IF Counts(conns[c]) THEN 1 ELSE 0)
                                         + (IF Counts(conns'[c]) THEN 1 ELSE 0)
       /\ u.pending = stats[i].pending - (IF Waits(conns[c]) THEN 1 ELSE 0)
                                     + (IF Waits(conns'[c]) THEN 1 ELSE 0)
       /\ \A s \in AdSources : u.ips[s] = stats[i].ips[s]
               - (IF Counts(conns[c]) /\ conns[c].source = s THEN 1 ELSE 0)
               + (IF Counts(conns'[c]) /\ conns[c].source = s THEN 1 ELSE 0)
  <2>1. /\ u.connCount = stats[i].connCount - 1 + 0
        /\ u.pending = stats[i].pending - 0 + 0
      BY <1>3, <1>13
  <2>2. \A s \in AdSources : u.ips[s] = stats[i].ips[s]
                                         - (IF conns[c].source = s THEN 1 ELSE 0) + 0
      BY <1>3, <1>11, <1>13 DEF bag, src
  <2> QED
      BY <1>2, <1>8, <2>1, <2>2
<1>16. /\ Counts(conns'[c]) \/ Waits(conns'[c]) =>
              conns'[c].us = i /\ conns'[c].source = conns[c].source
       /\ Refers(conns'[c]) <=> Refers(conns[c])
       /\ Refers(conns'[c]) => conns'[c].source = conns[c].source
       /\ conns'[c].at # "checked"
    BY <1>2, <1>7, <1>8
<1>17. Keys(u) \subseteq Keys(stats[i])
  <2>1. \A s \in AdSources : u.ips[s] <= stats[i].ips[s] /\ u.ips[s] \in Int /\ stats[i].ips[s] \in Int
      BY <1>3, <1>10, <1>11, <1>13, SMTT(20) DEF bag
  <2> QED
      BY <2>1, SbAdmissionAssumption DEF Keys
<1> QED
    BY <1>1, <1>3, <1>7, <1>8, <1>9, <1>12, <1>14, <1>15, <1>16, <1>17, CountingStep

\* A step that changes the references to the source of its connection.
LEMMA UncountedBooks ==
    ASSUME NEW C \in [AdConns -> TrackedConns], NEW c \in AdConns, NEW r \in TrackedConns,
           NEW st, Books(st, C), Counts(r) <=> Counts(C[c]), Waits(r) <=> Waits(C[c]),
           r.us = C[c].us, r.source = C[c].source
    PROVE  Books(st, [C EXCEPT ![c] = r])
<1> DEFINE D == [C EXCEPT ![c] = r]
<1>1. \A d \in AdConns :
         /\ Counts(D[d]) <=> Counts(C[d])
         /\ Waits(D[d]) <=> Waits(C[d])
         /\ D[d].us = C[d].us /\ D[d].source = C[d].source
    OBVIOUS
<1> HIDE DEF D
<1>2. \A i : /\ CountedOf(D, i) = CountedOf(C, i)
             /\ WaitingOf(D, i) = WaitingOf(C, i)
             /\ \A s : FromOf(D, i, s) = FromOf(C, i, s)
    BY <1>1 DEF CountedOf, WaitingOf, FromOf
<1>3. Books(st, D)
    BY <1>2 DEF Books, BooksOf
<1> QED
    BY <1>3 DEF D

\* A step that changes what refers to its source.
LEMMA ReferringStep ==
    ASSUME SbCore, NEW c \in AdConns, conns' = [conns EXCEPT ![c] = conns'[c]],
           conns'[c] \in TrackedConns,
           UNCHANGED <<fixed, listed, entry, stats, global, allowed, updater, vouched>>,
           accesses' \subseteq AdConns, sources' \in [AdSources -> Int],
           ConnSound(conns'[c], Len(stats), entry), conns'[c].at # "checked",
           Counts(conns'[c]) <=> Counts(conns[c]), Waits(conns'[c]) <=> Waits(conns[c]),
           conns'[c].us = conns[c].us, conns'[c].source = conns[c].source,
           \A s \in AdSources : sources'[s] = IF relayEntry
               THEN sources[s] - (IF Refers(conns[c]) /\ conns[c].source = s THEN 1 ELSE 0)
                               + (IF Refers(conns'[c]) /\ conns[c].source = s THEN 1 ELSE 0)
               ELSE sources[s],
           ClosersKnow'
    PROVE  SbCore'
<1>1. /\ SbAdmissionTypeOK /\ conns \in [AdConns -> TrackedConns]
      /\ sources \in [AdSources -> Int]
      /\ gated' = gated /\ relayEntry' = relayEntry /\ connLimit' = connLimit
    BY DEF SbCore, SbAdmissionTypeOK, fixed
<1>2. Books(stats, conns) /\ References(sources, conns) /\ InLimits(stats) /\ ListedInUse
    BY DEF SbCore, SbParts
<1>3. SoleCheck(c, conns'[c])
    BY DEF SoleCheck
<1>4. /\ conns' \in [AdConns -> TrackedConns]
      /\ (ConnPhases /\ PermitsHeld /\ CountedInEntry)' /\ OneCheck'
    BY <1>3, MoveIsSound
<1>5. Books(stats, [conns EXCEPT ![c] = conns'[c]])
    BY <1>1, <1>2, UncountedBooks
<1>6. References(sources', [conns EXCEPT ![c] = conns'[c]])
    BY <1>1, <1>2, ReferencedStep
<1>7. Books(stats, conns)' /\ References(sources, conns)'
    BY <1>1, <1>5, <1>6 DEF References
<1>8. InLimits(stats)' /\ ListedInUse'
    BY <1>1, <1>2 DEF InLimits, ListedInUse
<1>9. DevicesFit(stats', vouched') /\ RoomIsKept'
    BY DevicesStay
<1>10. DevicesFit(stats, vouched)'
    BY <1>1, <1>9 DEF DevicesFit
<1>11. SbAdmissionTypeOK'
    BY <1>1, <1>4 DEF SbAdmissionTypeOK, fixed
<1> QED
    BY <1>4, <1>7, <1>8, <1>9, <1>10, <1>11 DEF SbCore, SbParts

\* trackRelaySource and connMap.
LEMMA TrackStep ==
    ASSUME SbCore, NEW c \in AdConns, TrackSource(c)
    PROVE  SbCore'
<1>0. SbAdmissionTypeOK
    BY DEF SbCore
<1>1. /\ conns[c].at = "counted"
      /\ UNCHANGED <<fixed, listed, entry, stats, global, allowed, accesses, updater, vouched>>
      /\ sources' = IF relayEntry THEN Add(sources, conns[c].source) ELSE sources
    BY DEF TrackSource, fixed
<1>2. /\ conns[c].permit \in Permits /\ conns[c].source \in AdSources
      /\ ConnSound(conns[c], Len(stats), entry)
      /\ Counts(conns[c]) /\ ~Waits(conns[c]) /\ ~Refers(conns[c])
    BY <1>1, SoundConn DEF ConnSound, BeforeCounted, Counts, Waits, Refers
<1>3. "open" \in Lives /\ "tracked" \in ConnSteps
    BY DEF Lives, ConnSteps
<1>4. Become(c, "tracked", "open", conns[c].permit)
    BY DEF TrackSource
<1>5. /\ conns' = [conns EXCEPT ![c] = conns'[c]] /\ conns'[c] \in TrackedConns
      /\ conns'[c].at = "tracked" /\ conns'[c].life = "open"
      /\ conns'[c].permit = conns[c].permit
      /\ conns'[c].source = conns[c].source /\ conns'[c].us = conns[c].us
    BY <1>0, <1>2, <1>3, <1>4, BecomeIs
<1>6. /\ ConnSound(conns'[c], Len(stats), entry)
      /\ Counts(conns'[c]) /\ ~Waits(conns'[c]) /\ Refers(conns'[c])
    BY <1>1, <1>2, <1>5 DEF ConnSound, BeforeCounted, Counts, Waits, Refers
<1>7. c \notin accesses /\ c \notin updater.close
    BY <1>1 DEF SbCore, SbParts, ClosersKnow, Listened
<1>8. ClosersKnow'
    BY <1>1, <1>5, <1>7, ClosersStay DEF fixed, Listened
<1> DEFINE src == conns[c].source
<1>9. src \in AdSources /\ sources \in [AdSources -> Int] /\ accesses \subseteq AdConns
    BY <1>0, <1>2 DEF SbAdmissionTypeOK
<1> HIDE DEF src
<1>10. /\ Add(sources, src) \in [AdSources -> Int]
       /\ \A s \in AdSources : Add(sources, src)[s] = sources[s] + (IF src = s THEN 1 ELSE 0)
    BY <1>9, BagsOfSources
<1>11. sources' \in [AdSources -> Int]
    BY <1>1, <1>9, <1>10 DEF src
<1>12. \A s \in AdSources : sources'[s] = IF relayEntry
               THEN sources[s] - (IF Refers(conns[c]) /\ conns[c].source = s THEN 1 ELSE 0)
                               + (IF Refers(conns'[c]) /\ conns[c].source = s THEN 1 ELSE 0)
               ELSE sources[s]
  <2>1. \A s \in AdSources : sources'[s] = IF relayEntry
               THEN sources[s] - 0 + (IF conns[c].source = s THEN 1 ELSE 0)
               ELSE sources[s]
      BY <1>1, <1>9, <1>10 DEF src
  <2> QED
      BY <1>2, <1>6, <2>1
<1> QED
    BY <1>1, <1>2, <1>5, <1>6, <1>8, <1>9, <1>11, <1>12, ReferringStep

\* relaySource and removeConnRef.
LEMMA UnreferStep ==
    ASSUME SbCore, NEW c \in AdConns, RemoveConnRef(c)
    PROVE  SbCore'
<1>0. SbAdmissionTypeOK
    BY DEF SbCore
<1>1. /\ conns[c].life = "uncounted" /\ accesses' = accesses \ {c}
      /\ UNCHANGED <<fixed, listed, entry, stats, global, allowed, updater, vouched>>
      /\ sources' = IF relayEntry THEN Drop(sources, conns[c].source) ELSE sources
    BY DEF RemoveConnRef, fixed
<1>2. /\ conns[c].at \in ConnSteps /\ conns[c].permit \in Permits
      /\ conns[c].source \in AdSources /\ conns[c].at \in Listened
      /\ ConnSound(conns[c], Len(stats), entry)
      /\ ~Counts(conns[c]) /\ ~Waits(conns[c]) /\ Refers(conns[c])
    BY <1>1, SoundConn DEF ConnSound, ConnSteps, Listened, BeforeCounted, Counts, Waits, Refers
<1>3. "unreferenced" \in Lives
    BY DEF Lives
<1>4. Become(c, conns[c].at, "unreferenced", conns[c].permit)
    BY DEF RemoveConnRef, Die
<1>5. /\ conns' = [conns EXCEPT ![c] = conns'[c]] /\ conns'[c] \in TrackedConns
      /\ conns'[c].at = conns[c].at /\ conns'[c].life = "unreferenced"
      /\ conns'[c].permit = conns[c].permit
      /\ conns'[c].source = conns[c].source /\ conns'[c].us = conns[c].us
    BY <1>0, <1>2, <1>3, <1>4, BecomeIs
<1>6. /\ ConnSound(conns'[c], Len(stats), entry) /\ conns'[c].at # "checked"
      /\ ~Counts(conns'[c]) /\ ~Waits(conns'[c]) /\ ~Refers(conns'[c])
    BY <1>1, <1>2, <1>5 DEF ConnSound, BeforeCounted, Counts, Waits, Refers, Listened
<1>7. ClosersKnow /\ accesses \subseteq AdConns /\ updater.close \subseteq AdConns
      /\ conns \in [AdConns -> TrackedConns]
    BY DEF SbCore, SbParts, SbAdmissionTypeOK
<1>8. \A d \in AdConns : d # c => conns'[d] = conns[d]
    BY <1>5, <1>7
<1>9. ClosersKnow'
  <2>1. /\ ~allowed' => accesses' = {}
        /\ updater'.at # "close" => updater'.close = {}
        /\ updater'.close # {} => ~listed'
      BY <1>1, <1>7 DEF ClosersKnow
  <2>2. \A d \in accesses' : conns'[d].at \in Listened /\ conns'[d].life # "unreferenced"
      BY <1>1, <1>7, <1>8 DEF ClosersKnow
  <2>3. \A d \in updater'.close : conns'[d].at \in Listened \cup {"none"}
      BY <1>1, <1>2, <1>5, <1>7, <1>8 DEF ClosersKnow
  <2>4. relayEntry' => \A d \in AdConns : conns'[d].at \in Listened /\ conns'[d].life = "open"
            => d \in accesses' \cup updater'.close
      BY <1>1, <1>5, <1>7, <1>8 DEF ClosersKnow, fixed
  <2> QED
      BY <2>1, <2>2, <2>3, <2>4 DEF ClosersKnow
<1> DEFINE src == conns[c].source
<1>10. src \in AdSources /\ sources \in [AdSources -> Int] /\ accesses' \subseteq AdConns
       /\ (relayEntry => sources[src] > 0)
    BY <1>0, <1>1, <1>2, CountedIsPositive DEF SbAdmissionTypeOK
<1> HIDE DEF src
<1>11. /\ Drop(sources, src) \in [AdSources -> Int]
       /\ \A s \in AdSources :
             relayEntry => Drop(sources, src)[s] = sources[s] - (IF src = s THEN 1 ELSE 0)
    BY <1>10, BagsOfSources
<1>12. sources' \in [AdSources -> Int]
    BY <1>1, <1>10, <1>11 DEF src
<1>13. \A s \in AdSources : sources'[s] = IF relayEntry
               THEN sources[s] - (IF Refers(conns[c]) /\ conns[c].source = s THEN 1 ELSE 0)
                               + (IF Refers(conns'[c]) /\ conns[c].source = s THEN 1 ELSE 0)
               ELSE sources[s]
  <2>1. \A s \in AdSources : sources'[s] = IF relayEntry
               THEN sources[s] - (IF conns[c].source = s THEN 1 ELSE 0) + 0
               ELSE sources[s]
      BY <1>1, <1>10, <1>11 DEF src
  <2> QED
      BY <1>2, <1>6, <2>1
<1> QED
    BY <1>1, <1>2, <1>5, <1>6, <1>9, <1>10, <1>12, <1>13, ReferringStep

-----------------------------------------------------------------------------
(***************************************************************************)
(* sing-box: the steps of the kernel and of the panel.                     *)
(***************************************************************************)
\* The books when nothing they speak of changes.
LEMMA SameBooks ==
    ASSUME SbParts, UNCHANGED <<relayEntry, connLimit, stats, sources, conns>>
    PROVE  (Books(stats, conns) /\ InLimits(stats) /\ References(sources, conns))'
<1>1. Books(stats, conns)'
  <2>1. Books(stats', conns')
      BY DEF SbParts
  <2> QED
      BY <2>1
<1>2. InLimits(stats)'
    BY DEF SbParts, InLimits
<1>3. References(sources, conns)'
    BY DEF SbParts, References, ReferringTo
<1> QED
    BY <1>1, <1>2, <1>3

\* replaceNodeUsers, the maps: a new userStats has no connections.
LEMMA ReplaceStep ==
    ASSUME SbCore, ReplaceUsers
    PROVE  SbCore'
<1>0. /\ SbAdmissionTypeOK /\ SbParts /\ stats \in Seq(UserStats) /\ entry \in 0..Len(stats)
      /\ Len(stats) \in Nat /\ connLimit \in Nat /\ DeviceLimit \in Nat
    BY SbAdmissionAssumption DEF SbCore, SbAdmissionTypeOK
<1>1. /\ updater = NoUpdate /\ listed' = ~listed /\ updater' = [at |-> "maps", close |-> {}]
      /\ UNCHANGED <<fixed, global, sources, allowed, accesses, conns, vouched>>
    BY DEF ReplaceUsers, fixed
<1>2. /\ gated' = gated /\ relayEntry' = relayEntry /\ connLimit' = connLimit
      /\ updater'.close = {} /\ updater'.at = "maps" /\ updater.close = {}
    BY <1>1 DEF fixed, NoUpdate
<1>3. ClosersKnow'
    BY <1>0, <1>1, <1>2 DEF SbParts, ClosersKnow
<1>4. updater' \in [at : {"idle", "maps", "close"}, close : SUBSET AdConns]
    BY <1>1
<1>5. OneCheck' /\ References(sources, conns)'
    BY <1>0, <1>1, <1>2 DEF SbParts, OneCheck, References
<1>6. \A c \in AdConns : ConnSound(conns[c], Len(stats), entry)
    BY SoundConn
<1>7. CASE listed' /\ entry = 0
  <2>1. stats' = Append(stats, NewStats) /\ entry' = Len(stats')
      BY <1>7 DEF ReplaceUsers
  <2>2. NewStats \in UserStats
      BY DEF NewStats, UserStats
  <2>3. /\ stats' \in Seq(UserStats) /\ Len(stats') = Len(stats) + 1
        /\ stats'[Len(stats) + 1] = NewStats
        /\ \A j \in 1..Len(stats) : stats'[j] = stats[j]
      BY <1>0, <2>1, <2>2
  <2>4. /\ NewStats.connCount = 0 /\ NewStats.pending = 0
        /\ \A s \in AdSources : NewStats.ips[s] = 0
      BY DEF NewStats
  <2> HIDE DEF NewStats
  <2>5. (ConnPhases /\ PermitsHeld /\ CountedInEntry)'
    <3>1. ASSUME NEW c \in AdConns PROVE ConnSound(conns[c], Len(stats'), entry')
      <4>1. ConnSound(conns[c], Len(stats), entry)
          BY <1>6
      <4>2. conns[c].at # "none" => conns[c].us \in 1..Len(stats')
          BY <1>0, <2>3, <4>1 DEF ConnSound
      <4>3. ~(gated /\ (Counts(conns[c]) \/ conns[c].at = "valid"))
          BY <1>0, <1>7, <4>1 DEF ConnSound, Counts, BeforeCounted
      <4> QED
          BY <4>1, <4>2, <4>3 DEF ConnSound
    <3> QED
        BY <1>1, <1>2, <3>1, SoundParts
  <2>6. ASSUME NEW j \in 1..Len(stats') PROVE BooksOf(stats', j, conns)
    <3>1. CASE j \in 1..Len(stats)
      <4>1. BooksOf(stats, j, conns)
          BY <1>0, <3>1 DEF SbParts, Books
      <4> QED
          BY <2>3, <3>1, <4>1 DEF BooksOf
    <3>2. CASE j = Len(stats) + 1
      <4>1. ASSUME NEW c \in AdConns, Counts(conns[c]) \/ Waits(conns[c])
            PROVE  conns[c].us # j
          BY <1>0, <1>6, <3>2, <4>1 DEF ConnSound, Counts, Waits, BeforeCounted
      <4>2. /\ CountedOf(conns, j) = {} /\ WaitingOf(conns, j) = {}
            /\ \A s : FromOf(conns, j, s) = {}
          BY <4>1 DEF CountedOf, WaitingOf, FromOf
      <4> QED
          BY <2>3, <2>4, <3>2, <4>2, FS_EmptySet DEF BooksOf
    <3> QED
        BY <1>0, <2>3, <3>1, <3>2
  <2>7. Books(stats, conns)'
      BY <1>1, <2>6, ZenonT(60) DEF Books, BooksOf, CountedOf, WaitingOf, FromOf
  <2>8. InLimits(stats)'
    <3>1. \A j \in 1..Len(stats) : stats'[j].connCount + stats'[j].pending <= connLimit
        BY <1>0, <2>3 DEF SbParts, InLimits
    <3> QED
        BY <1>0, <1>2, <2>3, <2>4, <3>1 DEF InLimits
  <2>9. DevicesFit(stats, vouched)'
    <3>1. ASSUME ~gated
          PROVE \A j \in 1..Len(stats) : Cardinality(Keys(stats'[j]) \ vouched) <= DeviceLimit
        BY <1>0, <2>3, <3>1 DEF SbParts, DevicesFit
    <3>2. Keys(NewStats) \ vouched = {}
        BY <2>4, SbAdmissionAssumption DEF Keys
    <3>3. Cardinality(Keys(NewStats) \ vouched) = 0
        BY <3>2, FS_EmptySet
    <3>4. Cardinality(Keys(NewStats) \ vouched) <= DeviceLimit
        BY <1>0, <3>3
    <3>5. ASSUME ~gated, NEW j \in 1..Len(stats')
          PROVE  Cardinality(Keys(stats'[j]) \ vouched) <= DeviceLimit
      <4>1. CASE j \in 1..Len(stats)
          BY <3>1, <3>5, <4>1
      <4>2. CASE j = Len(stats) + 1
          BY <2>3, <3>4, <4>2
      <4> QED
          BY <1>0, <2>3, <4>1, <4>2
    <3> QED
        BY <1>1, <1>2, <3>5 DEF DevicesFit
  <2>10. RoomIsKept'
    <3>1. \A c \in AdConns : conns[c].at = "checked" => stats'[conns[c].us] = stats[conns[c].us]
        BY <1>6, <2>3 DEF ConnSound
    <3> QED
        BY <1>0, <1>1, <1>2, <3>1 DEF SbParts, RoomIsKept, UsOf
  <2>11. ListedInUse' /\ entry' \in 0..Len(stats')
      BY <1>0, <2>1, <2>3 DEF ListedInUse
  <2>12. SbAdmissionTypeOK'
      BY <1>0, <1>1, <1>4, <2>3, <2>11 DEF SbAdmissionTypeOK, fixed
  <2> QED
      BY <1>3, <1>5, <2>5, <2>7, <2>8, <2>9, <2>10, <2>11, <2>12 DEF SbCore, SbParts
<1>8. CASE ~(listed' /\ entry = 0)
  <2>1. UNCHANGED <<stats, entry>>
      BY <1>8 DEF ReplaceUsers
  <2>2. ListedInUse'
      BY <1>8, <2>1 DEF ListedInUse
  <2>3. (ConnPhases /\ PermitsHeld /\ CountedInEntry)'
      BY <1>1, <1>2, <1>6, <2>1, SoundParts
  <2>4. Books(stats, conns)' /\ InLimits(stats)'
      BY <1>0, <1>1, <1>2, <2>1, SameBooks
  <2>6. DevicesFit(stats, vouched)' /\ RoomIsKept'
      BY <1>0, <1>1, <1>2, <2>1 DEF SbParts, DevicesFit, RoomIsKept, UsOf
  <2>5. SbAdmissionTypeOK'
      BY <1>0, <1>1, <1>4, <2>1 DEF SbAdmissionTypeOK, fixed
  <2> QED
      BY <1>3, <1>5, <2>2, <2>3, <2>4, <2>5, <2>6 DEF SbCore, SbParts
<1> QED
    BY <1>7, <1>8

\* RelayAccess.Replace: who was registered is with the one that closes.
LEMMA ReplaceAllowedStep ==
    ASSUME SbCore, ReplaceAllowed
    PROVE  SbCore'
<1>0. SbAdmissionTypeOK /\ SbParts /\ listed \in BOOLEAN
    BY DEF SbCore, SbAdmissionTypeOK
<1>1. /\ updater.at = "maps" /\ allowed' = listed
      /\ updater' = [at |-> "close", close |-> IF listed THEN {} ELSE accesses]
      /\ accesses' = IF listed THEN accesses ELSE {}
      /\ UNCHANGED <<gated, relayEntry, connLimit, listed, stats, entry, global, sources, conns,
                     vouched>>
    BY DEF ReplaceAllowed, trackerVars
<1>2. ClosersKnow /\ updater.close = {} /\ accesses \subseteq AdConns
    BY <1>0, <1>1 DEF SbParts, ClosersKnow, SbAdmissionTypeOK
<1>3. /\ updater'.at = "close" /\ updater'.close = IF listed THEN {} ELSE accesses
      /\ updater' \in [at : {"idle", "maps", "close"}, close : SUBSET AdConns]
    BY <1>1, <1>2
<1>4. ClosersKnow'
    BY <1>0, <1>1, <1>2, <1>3 DEF ClosersKnow
<1>5. /\ (ConnPhases /\ PermitsHeld /\ CountedInEntry /\ ListedInUse /\ OneCheck)'
      /\ (Books(stats, conns) /\ InLimits(stats) /\ References(sources, conns))'
      /\ (DevicesFit(stats, vouched) /\ RoomIsKept)'
  <2>1. (ConnPhases /\ PermitsHeld /\ CountedInEntry /\ ListedInUse /\ OneCheck)'
      BY <1>0, <1>1 DEF SbParts, ConnPhases, PermitsHeld, CountedInEntry, ListedInUse, OneCheck,
                        Waiting, InStats
  <2>2. (Books(stats, conns) /\ InLimits(stats) /\ References(sources, conns))'
      BY <1>0, <1>1, SameBooks
  <2>3. (DevicesFit(stats, vouched) /\ RoomIsKept)'
      BY <1>0, <1>1 DEF SbParts, DevicesFit, RoomIsKept, UsOf
  <2> QED
      BY <2>1, <2>2, <2>3
<1>6. SbAdmissionTypeOK'
    BY <1>0, <1>1, <1>3, <1>2 DEF SbAdmissionTypeOK
<1> QED
    BY <1>4, <1>5, <1>6 DEF SbCore, SbParts

\* ... and is closed.
LEMMA CloseDisallowedStep ==
    ASSUME SbCore, CloseDisallowed
    PROVE  SbCore'
<1>0. SbAdmissionTypeOK /\ SbParts /\ conns \in [AdConns -> TrackedConns]
    BY DEF SbCore, SbAdmissionTypeOK
<1>1. /\ updater' = NoUpdate
      /\ conns' = [c \in AdConns |->
            IF c \in updater.close /\ conns[c].life = "open"
            THEN [conns[c] EXCEPT !.life = "closing"] ELSE conns[c]]
      /\ UNCHANGED <<gated, relayEntry, connLimit, listed, stats, entry, global, sources,
                     allowed, accesses, vouched>>
    BY DEF CloseDisallowed, trackerVars
<1>2. ASSUME NEW c \in AdConns
      PROVE  /\ conns'[c] \in TrackedConns
             /\ conns'[c].at = conns[c].at /\ conns'[c].us = conns[c].us
             /\ conns'[c].source = conns[c].source /\ conns'[c].permit = conns[c].permit
             /\ conns'[c].life = IF c \in updater.close /\ conns[c].life = "open"
                                 THEN "closing" ELSE conns[c].life
  <2>1. conns[c] \in TrackedConns
      BY <1>0
  <2>2. CASE c \in updater.close /\ conns[c].life = "open"
    <3>1. conns'[c] = [conns[c] EXCEPT !.life = "closing"]
        BY <1>1, <2>2
    <3> QED
        BY <2>1, <2>2, <3>1 DEF TrackedConns
  <2>3. CASE ~(c \in updater.close /\ conns[c].life = "open")
    <3>1. conns'[c] = conns[c]
        BY <1>1, <2>3
    <3> QED
        BY <2>1, <2>3, <3>1
  <2> QED
      BY <2>2, <2>3
<1>3. conns' \in [AdConns -> TrackedConns]
    BY <1>1, <1>2
<1>4. \A c \in AdConns :
         /\ Counts(conns'[c]) <=> Counts(conns[c])
         /\ Waits(conns'[c]) <=> Waits(conns[c])
         /\ Refers(conns'[c]) <=> Refers(conns[c])
    BY <1>2 DEF Counts, Waits, Refers
<1>5. (Books(stats, conns) /\ References(sources, conns))'
  <2>1. \A i : /\ CountedOf(conns', i) = CountedOf(conns, i)
               /\ WaitingOf(conns', i) = WaitingOf(conns, i)
               /\ \A s : /\ FromOf(conns', i, s) = FromOf(conns, i, s)
                         /\ ReferringTo(conns', s) = ReferringTo(conns, s)
      BY <1>2, <1>4 DEF CountedOf, WaitingOf, FromOf, ReferringTo
  <2>2. Books(stats', conns')
      BY <1>0, <1>1, <2>1 DEF SbParts, Books, BooksOf
  <2>3. References(sources', conns')
      BY <1>0, <1>1, <2>1 DEF SbParts, References
  <2> QED
      BY <1>1, <2>2, <2>3 DEF References
<1>6. ClosersKnow
    BY <1>0 DEF SbParts
<1>7. (ConnPhases /\ PermitsHeld /\ CountedInEntry)'
  <2>1. ASSUME NEW c \in AdConns PROVE ConnSound(conns'[c], Len(stats), entry)
    <3>1. ConnSound(conns[c], Len(stats), entry)
        BY SoundConn
    <3>2. c \in updater.close => conns[c].at # "tracked"
        BY <1>6 DEF ClosersKnow, Listened
    <3> QED
        BY <1>2, <1>4, <3>1, <3>2 DEF ConnSound
  <2> QED
      BY <1>1, <2>1, SoundParts
<1>8. ListedInUse' /\ OneCheck' /\ InLimits(stats)' /\ DevicesFit(stats, vouched)' /\ RoomIsKept'
  <2>1. ListedInUse' /\ InLimits(stats)' /\ DevicesFit(stats, vouched)'
      BY <1>0, <1>1 DEF SbParts, ListedInUse, InLimits, DevicesFit
  <2>2. OneCheck'
      BY <1>0, <1>2 DEF SbParts, OneCheck
  <2>3. RoomIsKept'
      BY <1>0, <1>1, <1>2 DEF SbParts, RoomIsKept, UsOf
  <2> QED
      BY <2>1, <2>2, <2>3
<1>9. ClosersKnow'
  <2>1. /\ ~allowed' => accesses' = {}
        /\ updater'.close = {} /\ updater'.at = "idle"
      BY <1>1, <1>6 DEF ClosersKnow, NoUpdate
  <2>2. \A c \in accesses' : conns'[c].at \in Listened /\ conns'[c].life # "unreferenced"
      BY <1>0, <1>1, <1>2, <1>6 DEF ClosersKnow, SbAdmissionTypeOK
  <2>3. relayEntry' => \A c \in AdConns :
            conns'[c].at \in Listened /\ conns'[c].life = "open" => c \in accesses'
      BY <1>1, <1>2, <1>6 DEF ClosersKnow
  <2> QED
      BY <2>1, <2>2, <2>3 DEF ClosersKnow
<1>10. SbAdmissionTypeOK'
    BY <1>0, <1>1, <1>3 DEF SbAdmissionTypeOK, NoUpdate
<1> QED
    BY <1>5, <1>7, <1>8, <1>9, <1>10 DEF SbCore, SbParts

\* RetireTraffic: with the gate nobody is counted for what is given up.
LEMMA RetireStep ==
    ASSUME SbCore, RetireStats
    PROVE  SbCore'
<1>0. SbAdmissionTypeOK /\ SbParts /\ entry \in 0..Len(stats) /\ Len(stats) \in Nat
    BY DEF SbCore, SbAdmissionTypeOK
<1>1. /\ ~listed /\ entry # 0 /\ entry' = 0
      /\ stats[entry].connCount = 0 /\ stats[entry].pending = 0
      /\ UNCHANGED <<gated, relayEntry, connLimit, listed, stats, global, sources,
                     allowed, accesses, updater, conns, vouched>>
    BY DEF RetireStats
<1>2. CountedOf(conns, entry) = {} /\ WaitingOf(conns, entry) = {}
  <2>1. BooksOf(stats, entry, conns)
      BY <1>0, <1>1 DEF SbParts, Books
  <2>2. Cardinality(CountedOf(conns, entry)) = 0 /\ Cardinality(WaitingOf(conns, entry)) = 0
      BY <1>1, <2>1 DEF BooksOf
  <2>3. IsFiniteSet(CountedOf(conns, entry)) /\ IsFiniteSet(WaitingOf(conns, entry))
    <3>1. CountedOf(conns, entry) \in SUBSET AdConns /\ WaitingOf(conns, entry) \in SUBSET AdConns
        BY DEF CountedOf, WaitingOf
    <3> QED
        BY <3>1, SbAdmissionAssumption, FS_Subset
  <2> QED
      BY <2>2, <2>3, FS_EmptySet
<1>3. (ConnPhases /\ PermitsHeld /\ CountedInEntry)'
  <2>1. ASSUME NEW c \in AdConns PROVE ConnSound(conns[c], Len(stats), 0)
    <3>1. ConnSound(conns[c], Len(stats), entry)
        BY SoundConn
    <3>2. ~(gated /\ (Counts(conns[c]) \/ conns[c].at = "valid"))
        BY <1>2, <3>1 DEF ConnSound, CountedOf, WaitingOf, Waits
    <3> QED
        BY <3>1, <3>2 DEF ConnSound
  <2> QED
      BY <1>1, <2>1, SoundParts
<1>4. (Books(stats, conns) /\ InLimits(stats) /\ References(sources, conns))'
    BY <1>0, <1>1, SameBooks
<1>5. (ListedInUse /\ OneCheck /\ DevicesFit(stats, vouched) /\ RoomIsKept /\ ClosersKnow)'
    BY <1>0, <1>1 DEF SbParts, ListedInUse, OneCheck, DevicesFit, RoomIsKept, UsOf, ClosersKnow
<1>6. SbAdmissionTypeOK'
    BY <1>0, <1>1 DEF SbAdmissionTypeOK
<1> QED
    BY <1>3, <1>4, <1>5, <1>6 DEF SbCore, SbParts

\* UpdateGlobalDevices changes what later checks see, and a stuttering step nothing.
LEMMA DevicesOrStutterStep ==
    ASSUME SbCore, UpdateGlobalDevices \/ UNCHANGED sbAdmissionVars
    PROVE  SbCore'
<1>0. SbAdmissionTypeOK /\ SbParts
    BY DEF SbCore
<1>1. /\ UNCHANGED <<gated, relayEntry, connLimit, listed, stats, entry, sources,
                     allowed, accesses, updater, conns, vouched>>
      /\ global' \in Snapshots \cup {NoSnapshot}
    BY <1>0 DEF UpdateGlobalDevices, sbAdmissionVars, trackerVars, SbAdmissionTypeOK
<1>2. (ConnPhases /\ PermitsHeld /\ CountedInEntry /\ ListedInUse /\ OneCheck)'
    BY <1>0, <1>1 DEF SbParts, ConnPhases, PermitsHeld, CountedInEntry, ListedInUse, OneCheck,
                      Waiting, InStats
<1>3. (Books(stats, conns) /\ InLimits(stats) /\ References(sources, conns))'
    BY <1>0, <1>1, SameBooks
<1>4. (DevicesFit(stats, vouched) /\ RoomIsKept /\ ClosersKnow)'
    BY <1>0, <1>1 DEF SbParts, DevicesFit, RoomIsKept, UsOf, ClosersKnow
<1>5. SbAdmissionTypeOK'
    BY <1>0, <1>1 DEF SbAdmissionTypeOK
<1> QED
    BY <1>2, <1>3, <1>4, <1>5 DEF SbCore, SbParts

-----------------------------------------------------------------------------
(***************************************************************************)
(* sing-box: the theorem.                                                  *)
(***************************************************************************)
\* Nobody is there at first.
LEMMA SbAdmissionStarts == SbAdmissionInit => SbCore
<1> SUFFICES ASSUME SbAdmissionInit PROVE SbCore
    OBVIOUS
<1>1. /\ gated \in BOOLEAN /\ relayEntry \in BOOLEAN /\ connLimit \in ConnLimits
      /\ listed = TRUE /\ stats = <<NewStats>> /\ entry = 1
      /\ global = NoSnapshot /\ sources = [s \in AdSources |-> 0]
      /\ allowed = TRUE /\ accesses = {} /\ updater = NoUpdate
      /\ conns = [c \in AdConns |-> NewConn] /\ vouched = {}
    BY DEF SbAdmissionInit
<1>2. NewConn \in TrackedConns /\ NewStats \in UserStats
    BY SbAdmissionAssumption DEF NewConn, TrackedConns, BeforeCounted, NewStats, UserStats
<1>3. NewConn.at = "none" /\ NewConn.life = "none" /\ NewConn.permit = "none"
    BY DEF NewConn
<1>4. /\ NewStats.connCount = 0 /\ NewStats.pending = 0
      /\ \A s \in AdSources : NewStats.ips[s] = 0
    BY DEF NewStats
<1>5. Len(stats) = 1 /\ stats[1] = NewStats /\ stats \in Seq(UserStats)
    BY <1>1, <1>2
<1>6. connLimit \in Nat /\ DeviceLimit \in Nat
    BY <1>1, SbAdmissionAssumption
<1>7. \A c \in AdConns : conns[c] = NewConn
    BY <1>1
<1> HIDE DEF NewConn, NewStats
<1>8. SbAdmissionTypeOK
  <2>1. updater \in [at : {"idle", "maps", "close"}, close : SUBSET AdConns]
      BY <1>1 DEF NoUpdate
  <2>2. conns \in [AdConns -> TrackedConns] /\ sources \in [AdSources -> Int]
      BY <1>1, <1>2
  <2>3. entry \in 0..Len(stats)
      BY <1>1, <1>5
  <2> QED
      BY <1>1, <1>5, <2>1, <2>2, <2>3 DEF SbAdmissionTypeOK
<1>9. \A c \in AdConns : /\ conns[c].at = "none" /\ conns[c].life = "none"
                         /\ conns[c].permit = "none"
                         /\ ~Counts(conns[c]) /\ ~Waits(conns[c]) /\ ~Refers(conns[c])
    BY <1>3, <1>7 DEF Counts, Waits, Refers
<1>10. ConnPhases /\ PermitsHeld /\ CountedInEntry
  <2>1. \A c \in AdConns : ConnSound(conns[c], Len(stats), entry)
      BY <1>9 DEF ConnSound, BeforeCounted
  <2> QED
      BY <2>1, SoundParts
<1>11. /\ \A i : /\ CountedOf(conns, i) = {} /\ WaitingOf(conns, i) = {}
                 /\ \A s : FromOf(conns, i, s) = {}
       /\ \A s : ReferringTo(conns, s) = {}
    BY <1>9 DEF CountedOf, WaitingOf, FromOf, ReferringTo
<1>12. Cardinality({}) = 0
    BY FS_EmptySet
<1>13. Books(stats, conns)
  <2> SUFFICES ASSUME NEW i \in 1..Len(stats) PROVE BooksOf(stats, i, conns)
      BY DEF Books
  <2>1. stats[i] = NewStats
      BY <1>5
  <2> QED
      BY <1>4, <1>11, <1>12, <2>1 DEF BooksOf
<1>14. References(sources, conns)
    BY <1>1, <1>11, <1>12 DEF References
<1>15. InLimits(stats)
    BY <1>4, <1>5, <1>6 DEF InLimits
<1>16. DevicesFit(stats, vouched)
  <2>1. Keys(NewStats) \ vouched = {}
      BY <1>4, SbAdmissionAssumption DEF Keys
  <2>2. Cardinality(Keys(NewStats) \ vouched) <= DeviceLimit
      BY <1>6, <1>12, <2>1
  <2>3. ASSUME NEW i \in 1..Len(stats)
        PROVE  Cardinality(Keys(stats[i]) \ vouched) <= DeviceLimit
    <3>1. stats[i] = NewStats
        BY <1>5
    <3> QED
        BY <2>2, <3>1
  <2> QED
      BY <2>3 DEF DevicesFit
<1>17. ListedInUse /\ OneCheck /\ RoomIsKept
    BY <1>1, <1>9 DEF ListedInUse, OneCheck, RoomIsKept
<1>18. ClosersKnow
    BY <1>1, <1>9 DEF ClosersKnow, NoUpdate, Listened
<1> QED
    BY <1>8, <1>10, <1>13, <1>14, <1>15, <1>16, <1>17, <1>18 DEF SbCore, SbParts

\* Every step of admission, closing and revocation.
LEMMA SbAdmissionKeeps == SbCore /\ [SbAdmissionNext]_sbAdmissionVars => SbCore'
<1> SUFFICES ASSUME SbCore, [SbAdmissionNext]_sbAdmissionVars PROVE SbCore'
    OBVIOUS
<1>1. ASSUME NEW c \in AdConns,
             \/ ResolveUserName(c) \/ CheckDeviceGate(c) \/ CheckConnGate(c)
             \/ GateAcquire(c) \/ GateRevoke(c) \/ Revalidate(c) \/ Settle(c)
             \/ TrackSource(c) \/ RegisterAccess(c) \/ BindPermit(c)
             \/ CoreCloses(c) \/ RemoveConn(c) \/ RemoveConnRef(c) \/ CloseConn(c)
      PROVE  SbCore'
    BY <1>1, ResolveStep, DeviceCheckStep, ConnCheckStep, GateSteps, SettleStep, TrackStep,
       RegisterStep, BindSteps, RemoveStep, UnreferStep, CloseStep
<1>2. CASE ReplaceUsers
    BY <1>2, ReplaceStep
<1>3. CASE ReplaceAllowed
    BY <1>3, ReplaceAllowedStep
<1>4. CASE CloseDisallowed
    BY <1>4, CloseDisallowedStep
<1>5. CASE RetireStats
    BY <1>5, RetireStep
<1>6. CASE UpdateGlobalDevices \/ UNCHANGED sbAdmissionVars
    BY <1>6, DevicesOrStutterStep
<1> QED
    BY <1>1, <1>2, <1>3, <1>4, <1>5, <1>6 DEF SbAdmissionNext

\* The limit of the user as a whole and the closing of a line that is gone
\* follow from what each step preserves.
LEMMA SbCoreHolds == SbCore => SbAdmissionInv
<1> SUFFICES ASSUME SbCore PROVE SbAdmissionInv
    OBVIOUS
<1>1. SbParts /\ stats \in Seq(UserStats) /\ Len(stats) \in Nat /\ connLimit \in Nat
    BY SbAdmissionAssumption DEF SbCore, SbAdmissionTypeOK
<1>2. UserInLimit
  <2> SUFFICES ASSUME gated PROVE Cardinality({c \in AdConns : InStats(c)}) <= connLimit
      BY DEF UserInLimit
  <2>1. \A c \in AdConns : Counts(conns[c]) => conns[c].us = entry /\ entry \in 1..Len(stats)
    <3> SUFFICES ASSUME NEW c \in AdConns, Counts(conns[c])
                 PROVE  conns[c].us = entry /\ entry \in 1..Len(stats)
        OBVIOUS
    <3> QED
        BY SoundConn DEF ConnSound, Counts, BeforeCounted
  <2>2. {c \in AdConns : InStats(c)} = CountedOf(conns, entry)
      BY <2>1 DEF CountedOf, InStats, Counts
  <2>3. CASE entry \in 1..Len(stats)
    <3>1. /\ stats[entry].connCount = Cardinality(CountedOf(conns, entry))
          /\ stats[entry].connCount + stats[entry].pending <= connLimit
          /\ stats[entry].connCount \in Nat /\ stats[entry].pending \in Nat
        BY <1>1, <2>3, CountsAreNatural DEF SbParts, Books, BooksOf, InLimits
    <3>2. Cardinality(CountedOf(conns, entry)) <= connLimit
        BY <1>1, <3>1
    <3> QED
        BY <2>2, <3>2
  <2>4. CASE entry \notin 1..Len(stats)
    <3>1. CountedOf(conns, entry) = {}
        BY <2>1, <2>4 DEF CountedOf
    <3>2. Cardinality({c \in AdConns : InStats(c)}) = 0
        BY <2>2, <3>1, FS_EmptySet
    <3> QED
        BY <1>1, <3>2
  <2> QED
      BY <2>3, <2>4
<1>3. LineClosed
    BY <1>1 DEF SbParts, ClosersKnow, LineClosed, NoUpdate, Listened
<1>4. SbAdmissionHolds
    BY <1>1, <1>2, <1>3, HoldsParts DEF SbParts
<1> QED
    BY <1>1, <1>4 DEF SbAdmissionInv, SbParts

\* However admission, closing, revocation and the lists of users interleave:
\* the types are right, ...
THEOREM SbAdmissionTypesCorrect == SbAdmissionSpec => []SbAdmissionTypeOK
<1>1. SbCore => SbAdmissionTypeOK
    BY DEF SbCore
<1> QED
    BY <1>1, SbAdmissionStarts, SbAdmissionKeeps, PTL DEF SbAdmissionSpec

\* ... and the counts are those of the connections, the limits hold, an open
\* connection has its permit and no connection of a line that is gone stays.
THEOREM SbLimitsHold == SbAdmissionSpec => []SbAdmissionHolds
<1>1. SbCore => SbAdmissionHolds
    BY SbCoreHolds DEF SbAdmissionInv
<1> QED
    BY <1>1, SbAdmissionStarts, SbAdmissionKeeps, PTL DEF SbAdmissionSpec


-----------------------------------------------------------------------------
(* Sets of requests, when one request takes a step.                         *)

\* Two finite sets that differ at most in r.
LEMMA CardinalityOfMove ==
    ASSUME NEW S, NEW T, NEW r, IsFiniteSet(S), IsFiniteSet(T), S \ {r} = T \ {r}
    PROVE  /\ Cardinality(S) \in Nat /\ Cardinality(T) \in Nat
           /\ Cardinality(T) = Cardinality(S) - (IF r \in S THEN 1 ELSE 0)
                                              + (IF r \in T THEN 1 ELSE 0)
    BY CardinalityOfChange DEF Bit

\* R and Q differ at most in request r.
XSameBut(R, Q, r) == \A q \in XReqs \ {r} : Q[q] = R[q]

\* A step of r moves only r into or out of a set that records decide.
LEMMA XOthersStay ==
    ASSUME NEW R, NEW Q, NEW r \in XReqs, XSameBut(R, Q, r),
           NEW S \in SUBSET XReqs, NEW T \in SUBSET XReqs,
           \A q \in XReqs : Q[q] = R[q] => (q \in S <=> q \in T)
    PROVE  /\ Cardinality(S) \in Nat
           /\ Cardinality(T) = Cardinality(S) - (IF r \in S THEN 1 ELSE 0)
                                              + (IF r \in T THEN 1 ELSE 0)
<1>1. IsFiniteSet(S) /\ IsFiniteSet(T)
    BY XAdmissionAssumption, FS_Subset
<1>2. S \ {r} = T \ {r}
    BY DEF XSameBut
<1> QED
    BY <1>1, <1>2, CardinalityOfMove

-----------------------------------------------------------------------------
(* What is counted, as operators of the requests R.                         *)
Live(q) == q.life \in {"open", "closing", "unlisted"}
SlotsOf(R) == {r \in XReqs : R[r].slot}
ListedAt(R, s) == {r \in XReqs : R[r].listed /\ R[r].source = s}
LiveOf(R) == {r \in XReqs : Live(R[r])}
LiveAt(R, s) == {r \in XReqs : Live(R[r]) /\ R[r].source = s}

\* The slots, after a step of one request.
LEMMA SlotsOfMove ==
    ASSUME NEW R, NEW Q, NEW r \in XReqs, XSameBut(R, Q, r)
    PROVE  /\ Cardinality(SlotsOf(R)) \in Nat
           /\ Cardinality(SlotsOf(Q)) = Cardinality(SlotsOf(R))
                 - (IF R[r].slot THEN 1 ELSE 0) + (IF Q[r].slot THEN 1 ELSE 0)
<1>1. r \in SlotsOf(R) <=> R[r].slot
    BY DEF SlotsOf
<1>2. r \in SlotsOf(Q) <=> Q[r].slot
    BY DEF SlotsOf
<1>3. /\ SlotsOf(R) \in SUBSET XReqs /\ SlotsOf(Q) \in SUBSET XReqs
      /\ \A q \in XReqs : Q[q] = R[q] => (q \in SlotsOf(R) <=> q \in SlotsOf(Q))
    BY DEF SlotsOf
<1>4. /\ Cardinality(SlotsOf(R)) \in Nat
      /\ Cardinality(SlotsOf(Q)) = Cardinality(SlotsOf(R))
            - (IF r \in SlotsOf(R) THEN 1 ELSE 0) + (IF r \in SlotsOf(Q) THEN 1 ELSE 0)
    BY <1>3, XOthersStay
<1> QED
    BY <1>1, <1>2, <1>4

\* The references of a source.
LEMMA ListedOfMove ==
    ASSUME NEW R, NEW Q, NEW r \in XReqs, XSameBut(R, Q, r), NEW s
    PROVE  /\ Cardinality(ListedAt(R, s)) \in Nat
           /\ Cardinality(ListedAt(Q, s)) = Cardinality(ListedAt(R, s))
                 - (IF R[r].listed /\ R[r].source = s THEN 1 ELSE 0)
                 + (IF Q[r].listed /\ Q[r].source = s THEN 1 ELSE 0)
<1>1. r \in ListedAt(R, s) <=> R[r].listed /\ R[r].source = s
    BY DEF ListedAt
<1>2. r \in ListedAt(Q, s) <=> Q[r].listed /\ Q[r].source = s
    BY DEF ListedAt
<1>3. /\ ListedAt(R, s) \in SUBSET XReqs /\ ListedAt(Q, s) \in SUBSET XReqs
      /\ \A q \in XReqs : Q[q] = R[q] => (q \in ListedAt(R, s) <=> q \in ListedAt(Q, s))
    BY DEF ListedAt
<1>4. /\ Cardinality(ListedAt(R, s)) \in Nat
      /\ Cardinality(ListedAt(Q, s)) = Cardinality(ListedAt(R, s))
            - (IF r \in ListedAt(R, s) THEN 1 ELSE 0) + (IF r \in ListedAt(Q, s) THEN 1 ELSE 0)
    BY <1>3, XOthersStay
<1> QED
    BY <1>1, <1>2, <1>4

\* The links.
LEMMA LiveOfMove ==
    ASSUME NEW R, NEW Q, NEW r \in XReqs, XSameBut(R, Q, r)
    PROVE  /\ Cardinality(LiveOf(R)) \in Nat
           /\ Cardinality(LiveOf(Q)) = Cardinality(LiveOf(R))
                 - (IF Live(R[r]) THEN 1 ELSE 0) + (IF Live(Q[r]) THEN 1 ELSE 0)
<1>1. r \in LiveOf(R) <=> Live(R[r])
    BY DEF LiveOf
<1>2. r \in LiveOf(Q) <=> Live(Q[r])
    BY DEF LiveOf
<1>3. /\ LiveOf(R) \in SUBSET XReqs /\ LiveOf(Q) \in SUBSET XReqs
      /\ \A q \in XReqs : Q[q] = R[q] => (q \in LiveOf(R) <=> q \in LiveOf(Q))
    BY DEF LiveOf
<1>4. /\ Cardinality(LiveOf(R)) \in Nat
      /\ Cardinality(LiveOf(Q)) = Cardinality(LiveOf(R))
            - (IF r \in LiveOf(R) THEN 1 ELSE 0) + (IF r \in LiveOf(Q) THEN 1 ELSE 0)
    BY <1>3, XOthersStay
<1> QED
    BY <1>1, <1>2, <1>4

\* The links of a source.
LEMMA LiveAtMove ==
    ASSUME NEW R, NEW Q, NEW r \in XReqs, XSameBut(R, Q, r), NEW s
    PROVE  /\ Cardinality(LiveAt(R, s)) \in Nat
           /\ Cardinality(LiveAt(Q, s)) = Cardinality(LiveAt(R, s))
                 - (IF Live(R[r]) /\ R[r].source = s THEN 1 ELSE 0)
                 + (IF Live(Q[r]) /\ Q[r].source = s THEN 1 ELSE 0)
<1>1. r \in LiveAt(R, s) <=> Live(R[r]) /\ R[r].source = s
    BY DEF LiveAt
<1>2. r \in LiveAt(Q, s) <=> Live(Q[r]) /\ Q[r].source = s
    BY DEF LiveAt
<1>3. /\ LiveAt(R, s) \in SUBSET XReqs /\ LiveAt(Q, s) \in SUBSET XReqs
      /\ \A q \in XReqs : Q[q] = R[q] => (q \in LiveAt(R, s) <=> q \in LiveAt(Q, s))
    BY DEF LiveAt
<1>4. /\ Cardinality(LiveAt(R, s)) \in Nat
      /\ Cardinality(LiveAt(Q, s)) = Cardinality(LiveAt(R, s))
            - (IF r \in LiveAt(R, s) THEN 1 ELSE 0) + (IF r \in LiveAt(Q, s) THEN 1 ELSE 0)
    BY <1>3, XOthersStay
<1> QED
    BY <1>1, <1>2, <1>4

-----------------------------------------------------------------------------
(* The parts of XAdmissionHolds.                                            *)
SlotsBook == userConns = Cardinality(SlotsOf(reqs))
ListedBook == \A s \in XSources : userIPs[s] = stranded[s] + Cardinality(ListedAt(reqs, s))
LiveBook == connCount = Cardinality(LiveOf(reqs))
RelayBook ==
    \A s \in XSources : relaySources[s] = IF ~xRelay THEN 0 ELSE Cardinality(LiveAt(reqs, s))
WithinLimit == userConns <= xLimit
XDevicesFit ==
    (\A s \in XSources : stranded[s] = 0) /\ ~Managed
          => Cardinality(XKeys \ exempt) <= XDeviceLimit
XLineClosed ==
    xRelay /\ xUpdater.at = "idle" /\ ~xAllowed =>
          \A r \in XReqs : ~(reqs[r].at \in {"registered", "open"} /\ reqs[r].life = "open")
PermitsLast ==
    \A r \in XReqs : reqs[r].at = "open" /\ reqs[r].life = "open" => reqs[r].permit # "revoked"

\* XAdmissionHolds is the conjunction of its parts.
LEMMA XHoldsParts ==
    XAdmissionHolds <=> /\ SlotsBook /\ WithinLimit /\ ListedBook /\ LiveBook /\ RelayBook
                        /\ XDevicesFit /\ XLineClosed /\ PermitsLast
<1>1. /\ {r \in XReqs : reqs[r].slot} = SlotsOf(reqs)
      /\ {r \in XReqs : reqs[r].life \in {"open", "closing", "unlisted"}} = LiveOf(reqs)
      /\ \A s \in XSources :
           /\ {r \in XReqs : reqs[r].listed /\ reqs[r].source = s} = ListedAt(reqs, s)
           /\ {r \in XReqs : reqs[r].source = s /\ reqs[r].life \in {"open", "closing", "unlisted"}}
                 = LiveAt(reqs, s)
    BY DEF SlotsOf, ListedAt, LiveOf, LiveAt, Live
<1> QED
    BY <1>1 DEF XAdmissionHolds, SlotsBook, WithinLimit, ListedBook, LiveBook, RelayBook,
                XDevicesFit, XLineClosed, PermitsLast

-----------------------------------------------------------------------------
(* The invariant, one request at a time.                                    *)
XSteps == {"none", "identified", "granted", "dispatch"} \cup Admitting \cup Linked
XLives == {"none", "open", "closing", "unlisted", "done"}
XPermits == {"none", "held", "revoked"}

\* What the record q of a request is like; m: the gate manages devices.
XSound(q, m) ==
    /\ q.life = "none" <=> q.at \notin Linked
    /\ q.at \in {"none", "identified"} \/ q.life \in {"unlisted", "done"} => ~q.listed
    /\ q.at = "dispatch" \/ q.life \in {"open", "closing"} => q.listed
    /\ q.at \in {"none", "identified", "checked", "unlist"} \/ q.life = "done" => ~q.slot
    /\ q.at = "token" => q.slot
    /\ ~m /\ q.at \in Admitting => q.listed
    /\ q.at = "granted" => m
    /\ q.at = "open" /\ q.life = "open" => q.permit # "revoked"

\* The parts that a step preserves; the others follow.
XParts ==
    /\ ReqPhases /\ PermitsLast /\ NoneStranded /\ XClosersKnow
    /\ SlotsBook /\ WithinLimit /\ ListedBook /\ LiveBook /\ RelayBook /\ XDevicesFit
XCore == XAdmissionTypeOK /\ XParts

\* Every record is sound when the parts about single requests hold.
LEMMA XSoundParts ==
    /\ ReqPhases /\ PermitsLast <=> \A r \in XReqs : XSound(reqs[r], Managed)
    /\ (ReqPhases /\ PermitsLast)' <=> \A r \in XReqs : XSound(reqs'[r], Managed')
<1>1. ReqPhases /\ PermitsLast <=> \A r \in XReqs : XSound(reqs[r], Managed)
    BY DEF ReqPhases, PermitsLast, XSound
<1>2. (ReqPhases /\ PermitsLast)' <=> \A r \in XReqs : XSound(reqs'[r], Managed')
    BY DEF ReqPhases, PermitsLast, XSound
<1> QED
    BY <1>1, <1>2

\* A request as the invariant knows it.
LEMMA XSoundReq ==
    ASSUME XCore, NEW r \in XReqs
    PROVE  /\ reqs[r] \in XRequests /\ XSound(reqs[r], Managed)
           /\ reqs[r].at \in XSteps /\ reqs[r].life \in XLives /\ reqs[r].permit \in XPermits
           /\ reqs[r].source \in XSources /\ reqs[r].listed \in BOOLEAN /\ reqs[r].slot \in BOOLEAN
<1>1. reqs[r] \in XRequests
    BY DEF XCore, XAdmissionTypeOK
<1>2. XSound(reqs[r], Managed)
    BY XSoundParts DEF XCore, XParts
<1> QED
    BY <1>1, <1>2 DEF XRequests, XSteps, XLives, XPermits

\* What XBecome makes of a request.
LEMMA XBecomeIs ==
    ASSUME XCore, NEW r \in XReqs, NEW at \in XSteps, NEW life \in XLives,
           NEW listedAs \in BOOLEAN, NEW slot \in BOOLEAN, NEW permit \in XPermits,
           XBecome(r, at, life, listedAs, slot, permit)
    PROVE  /\ reqs' = [reqs EXCEPT ![r] = reqs'[r]]
           /\ reqs'[r] \in XRequests
           /\ reqs'[r].at = at /\ reqs'[r].life = life /\ reqs'[r].permit = permit
           /\ reqs'[r].listed = listedAs /\ reqs'[r].slot = slot
           /\ reqs'[r].source = reqs[r].source
<1> DEFINE q == [at |-> at, life |-> life, source |-> reqs[r].source,
                 listed |-> listedAs, slot |-> slot, permit |-> permit]
<1>1. reqs[r] \in XRequests /\ reqs \in [XReqs -> XRequests]
    BY DEF XCore, XAdmissionTypeOK
<1>2. q \in XRequests
    BY <1>1 DEF XRequests, XSteps, XLives, XPermits
<1>3. reqs' = [reqs EXCEPT ![r] = q]
    BY DEF XBecome
<1>4. reqs'[r] = q
    BY <1>1, <1>3
<1>5. /\ q.at = at /\ q.life = life /\ q.permit = permit
      /\ q.listed = listedAs /\ q.slot = slot /\ q.source = reqs[r].source
    OBVIOUS
<1> HIDE DEF q
<1> QED
    BY <1>2, <1>3, <1>4, <1>5

\* A new record of a goroutine that has ended.
LEMMA XRefusedIs ==
    ASSUME XCore, NEW r \in XReqs, XRefused(r)
    PROVE  /\ reqs' = [reqs EXCEPT ![r] = reqs'[r]]
           /\ reqs'[r] \in XRequests
           /\ reqs'[r].at = "none" /\ reqs'[r].life = "none" /\ reqs'[r].permit = "none"
           /\ reqs'[r].listed = FALSE /\ reqs'[r].slot = FALSE
<1>1. NewReq \in XRequests
    BY XAdmissionAssumption DEF NewReq, XRequests
<1>2. reqs' = [reqs EXCEPT ![r] = NewReq]
    BY DEF XRefused
<1>3. reqs'[r] = NewReq
    BY <1>2 DEF XCore, XAdmissionTypeOK
<1>4. /\ NewReq.at = "none" /\ NewReq.life = "none" /\ NewReq.permit = "none"
      /\ NewReq.listed = FALSE /\ NewReq.slot = FALSE
    BY DEF NewReq
<1> HIDE DEF NewReq
<1> QED
    BY <1>1, <1>2, <1>3, <1>4

\* The counts of one request with source s.
Refs(q, s) == IF q.listed /\ q.source = s THEN 1 ELSE 0
Links(q, s) == IF Live(q) /\ q.source = s THEN 1 ELSE 0

\* A step of one request that keeps its record sound and its counts in
\* balance, and lets no source in that does not fit.
LEMMA XMove ==
    ASSUME XCore, NEW r \in XReqs, reqs' = [reqs EXCEPT ![r] = reqs'[r]],
           reqs'[r] \in XRequests, XSound(reqs'[r], Managed),
           UNCHANGED <<fixedVars, attached, emailKnown, xGlobal, xAllowed, xUpdater>>,
           xAccesses' \subseteq XReqs, userConns' \in Int, connCount' \in Int,
           userIPs' \in [XSources -> Int], relaySources' \in [XSources -> Int],
           stranded' \in [XSources -> Nat], exempt' \subseteq XSources,
           userConns' <= xLimit,
           userConns' = userConns - (IF reqs[r].slot THEN 1 ELSE 0)
                                  + (IF reqs'[r].slot THEN 1 ELSE 0),
           connCount' = connCount - (IF Live(reqs[r]) THEN 1 ELSE 0)
                                  + (IF Live(reqs'[r]) THEN 1 ELSE 0),
           \A s \in XSources : userIPs'[s] - stranded'[s] =
               userIPs[s] - stranded[s] - Refs(reqs[r], s) + Refs(reqs'[r], s),
           \A s \in XSources : relaySources'[s] =
               IF xRelay THEN relaySources[s] - Links(reqs[r], s) + Links(reqs'[r], s)
               ELSE relaySources[s],
           ~Managed => stranded' = stranded,
           XDevicesFit', XClosersKnow'
    PROVE  XCore'
<1>1. /\ reqs \in [XReqs -> XRequests] /\ XAdmissionTypeOK
      /\ userConns \in Int /\ connCount \in Int /\ userIPs \in [XSources -> Int]
      /\ relaySources \in [XSources -> Int] /\ stranded \in [XSources -> Nat]
    BY DEF XCore, XAdmissionTypeOK
<1>2. /\ SlotsBook /\ ListedBook /\ LiveBook /\ RelayBook /\ NoneStranded
    BY DEF XCore, XParts
<1>3. /\ XSameBut(reqs, reqs', r) /\ reqs' \in [XReqs -> XRequests]
    BY <1>1 DEF XSameBut
<1>4. xRelay' = xRelay /\ xLimit' = xLimit /\ xGated' = xGated /\ attached' = attached
    BY DEF fixedVars
<1>5. Managed' <=> Managed
    BY <1>4 DEF Managed
<1>6. (ReqPhases /\ PermitsLast)'
  <2>1. \A q \in XReqs : XSound(reqs[q], Managed)
      BY XSoundParts DEF XCore, XParts
  <2>2. ASSUME NEW q \in XReqs PROVE XSound(reqs'[q], Managed)
    <3>1. CASE q = r
        BY <3>1
    <3>2. CASE q # r
        BY <1>3, <2>1, <3>2 DEF XSameBut
    <3> QED
        BY <3>1, <3>2
  <2>3. \A q \in XReqs : XSound(reqs'[q], Managed')
      BY <1>5, <2>2 DEF XSound
  <2> QED
      BY <2>3, XSoundParts
<1>7. SlotsBook'
  <2>1. /\ Cardinality(SlotsOf(reqs)) \in Nat
        /\ Cardinality(SlotsOf(reqs')) = Cardinality(SlotsOf(reqs))
              - (IF reqs[r].slot THEN 1 ELSE 0) + (IF reqs'[r].slot THEN 1 ELSE 0)
      BY <1>3, SlotsOfMove
  <2>2. userConns' = Cardinality(SlotsOf(reqs'))
      BY <1>2, <2>1 DEF SlotsBook
  <2> QED
      BY <2>2 DEF SlotsBook, SlotsOf
<1>8. LiveBook'
  <2>1. /\ Cardinality(LiveOf(reqs)) \in Nat
        /\ Cardinality(LiveOf(reqs')) = Cardinality(LiveOf(reqs))
              - (IF Live(reqs[r]) THEN 1 ELSE 0) + (IF Live(reqs'[r]) THEN 1 ELSE 0)
      BY <1>3, LiveOfMove
  <2>2. connCount' = Cardinality(LiveOf(reqs'))
      BY <1>2, <2>1 DEF LiveBook
  <2> QED
      BY <2>2 DEF LiveBook, LiveOf
<1>9. ListedBook'
  <2>1. ASSUME NEW s \in XSources
        PROVE  userIPs'[s] = stranded'[s] + Cardinality(ListedAt(reqs', s))
    <3>1. /\ Cardinality(ListedAt(reqs, s)) \in Nat
          /\ Cardinality(ListedAt(reqs', s)) =
                Cardinality(ListedAt(reqs, s)) - Refs(reqs[r], s) + Refs(reqs'[r], s)
        BY <1>3, ListedOfMove DEF Refs
    <3>2. Refs(reqs[r], s) \in Int /\ Refs(reqs'[r], s) \in Int
        BY DEF Refs
    <3>3. userIPs[s] = stranded[s] + Cardinality(ListedAt(reqs, s))
        BY <1>2 DEF ListedBook
    <3>4. userIPs[s] \in Int /\ stranded[s] \in Int /\ userIPs'[s] \in Int /\ stranded'[s] \in Int
        BY <1>1
    <3>5. userIPs'[s] - stranded'[s] =
               userIPs[s] - stranded[s] - Refs(reqs[r], s) + Refs(reqs'[r], s)
        OBVIOUS
    <3> QED
        BY <3>1, <3>2, <3>3, <3>4, <3>5
  <2> QED
      BY <2>1 DEF ListedBook, ListedAt
<1>10. RelayBook'
  <2>1. ASSUME NEW s \in XSources
        PROVE  relaySources'[s] = IF ~xRelay THEN 0 ELSE Cardinality(LiveAt(reqs', s))
    <3>1. /\ Cardinality(LiveAt(reqs, s)) \in Nat
          /\ Cardinality(LiveAt(reqs', s)) =
                Cardinality(LiveAt(reqs, s)) - Links(reqs[r], s) + Links(reqs'[r], s)
        BY <1>3, LiveAtMove DEF Links
    <3>2. relaySources[s] = IF ~xRelay THEN 0 ELSE Cardinality(LiveAt(reqs, s))
        BY <1>2 DEF RelayBook
    <3>3. relaySources'[s] =
               IF xRelay THEN relaySources[s] - Links(reqs[r], s) + Links(reqs'[r], s)
               ELSE relaySources[s]
        OBVIOUS
    <3> QED
        BY <3>1, <3>2, <3>3
  <2> QED
      BY <1>4, <2>1 DEF RelayBook, LiveAt
<1>11. NoneStranded'
    BY <1>2, <1>5 DEF NoneStranded
<1>12. WithinLimit'
    BY <1>4 DEF WithinLimit
<1>13. XAdmissionTypeOK'
    BY <1>1, <1>3, <1>4 DEF XAdmissionTypeOK
<1> QED
    BY <1>6, <1>7, <1>8, <1>9, <1>10, <1>11, <1>12, <1>13 DEF XCore, XParts

\* Fewer sources fit where more did.
LEMMA XDevicesFewer ==
    ASSUME XCore, UNCHANGED <<fixedVars, attached>>,
           ~Managed => stranded' = stranded /\ XKeys' \subseteq XKeys /\ exempt \subseteq exempt'
    PROVE  XDevicesFit'
<1>1. Managed' <=> Managed
    BY DEF Managed, fixedVars
<1>2. XDevicesFit
    BY DEF XCore, XParts
<1> SUFFICES ASSUME \A s \in XSources : stranded'[s] = 0, ~Managed
             PROVE  Cardinality((XKeys \ exempt)') <= XDeviceLimit
    BY <1>1 DEF XDevicesFit
<1>3. Cardinality(XKeys \ exempt) <= XDeviceLimit
    BY <1>2 DEF XDevicesFit
<1>4. XKeys \ exempt \in SUBSET XSources
    BY DEF XKeys
<1>5. IsFiniteSet(XKeys \ exempt)
    BY <1>4, XAdmissionAssumption, FS_Subset
<1>6. (XKeys \ exempt)' \in SUBSET (XKeys \ exempt)
    OBVIOUS
<1>7. /\ Cardinality((XKeys \ exempt)') <= Cardinality(XKeys \ exempt)
      /\ Cardinality((XKeys \ exempt)') \in Nat /\ Cardinality(XKeys \ exempt) \in Nat
    BY <1>5, <1>6, FS_Subset, FS_CardinalityType
<1>8. XDeviceLimit \in Nat
    BY XAdmissionAssumption
<1> QED
    BY <1>3, <1>7, <1>8

\* A link that opens is in the table, or with whoever closes what was in it.
LEMMA XClosersStay ==
    ASSUME XCore, NEW r \in XReqs, reqs' = [reqs EXCEPT ![r] = reqs'[r]],
           UNCHANGED <<fixedVars, xAllowed, xUpdater>>,
           ~xAllowed => xAccesses' = {}, xAccesses \ {r} \subseteq xAccesses',
           xRelay /\ reqs'[r].at \in {"registered", "open"} /\ reqs'[r].life = "open"
               => r \in xAccesses' \cup xUpdater.close
    PROVE  XClosersKnow'
<1>1. XClosersKnow /\ reqs \in [XReqs -> XRequests]
    BY DEF XCore, XParts, XAdmissionTypeOK
<1>2. \A q \in XReqs : q # r => reqs'[q] = reqs[q]
    BY <1>1
<1>3. xRelay' = xRelay
    BY DEF fixedVars
<1>4. ASSUME xRelay, NEW q \in XReqs, reqs'[q].at \in {"registered", "open"},
             reqs'[q].life = "open"
      PROVE  q \in xAccesses' \cup xUpdater.close
  <2>1. CASE q = r
      BY <1>4, <2>1
  <2>2. CASE q # r
      BY <1>1, <1>2, <1>4, <2>2 DEF XClosersKnow
  <2> QED
      BY <2>1, <2>2
<1> QED
    BY <1>1, <1>3, <1>4 DEF XClosersKnow

\* A step that nobody counts.
LEMMA XQuiet ==
    ASSUME XCore, NEW r \in XReqs, reqs' = [reqs EXCEPT ![r] = reqs'[r]],
           reqs'[r] \in XRequests, XSound(reqs'[r], Managed),
           UNCHANGED <<fixedVars, attached, emailKnown, countVars, xGlobal, xAllowed, xUpdater,
                       stranded, exempt>>,
           xAccesses' \subseteq XReqs,
           reqs'[r].slot <=> reqs[r].slot, reqs'[r].listed <=> reqs[r].listed,
           Live(reqs'[r]) <=> Live(reqs[r]),
           reqs[r].listed \/ Live(reqs[r]) => reqs'[r].source = reqs[r].source,
           XClosersKnow'
    PROVE  XCore'
<1>1. UNCHANGED <<userIPs, userConns, connCount, relaySources>>
    BY DEF countVars
<1>2. /\ userConns \in Int /\ connCount \in Int /\ userIPs \in [XSources -> Int]
      /\ relaySources \in [XSources -> Int] /\ stranded \in [XSources -> Nat]
      /\ exempt \subseteq XSources /\ userConns <= xLimit
    BY DEF XCore, XParts, XAdmissionTypeOK, WithinLimit
<1>3. \A s \in XSources : /\ Refs(reqs'[r], s) = Refs(reqs[r], s)
                          /\ Links(reqs'[r], s) = Links(reqs[r], s)
                          /\ Refs(reqs[r], s) \in Int /\ Links(reqs[r], s) \in Int
    BY DEF Refs, Links
<1>4. \A s \in XSources : userIPs'[s] - stranded'[s] =
               userIPs[s] - stranded[s] - Refs(reqs[r], s) + Refs(reqs'[r], s)
  <2> SUFFICES ASSUME NEW s \in XSources
               PROVE  userIPs'[s] - stranded'[s] =
                         userIPs[s] - stranded[s] - Refs(reqs[r], s) + Refs(reqs'[r], s)
      OBVIOUS
  <2>1. userIPs[s] \in Int /\ stranded[s] \in Int
      BY <1>2
  <2> QED
      BY <1>1, <1>3, <2>1
<1>5. \A s \in XSources : relaySources'[s] =
               IF xRelay THEN relaySources[s] - Links(reqs[r], s) + Links(reqs'[r], s)
               ELSE relaySources[s]
  <2> SUFFICES ASSUME NEW s \in XSources
               PROVE  relaySources[s] = relaySources[s] - Links(reqs[r], s) + Links(reqs'[r], s)
      BY <1>1
  <2>1. relaySources[s] \in Int
      BY <1>2
  <2> QED
      BY <1>3, <2>1
<1>6. /\ userConns' = userConns - (IF reqs[r].slot THEN 1 ELSE 0)
                                + (IF reqs'[r].slot THEN 1 ELSE 0)
      /\ connCount' = connCount - (IF Live(reqs[r]) THEN 1 ELSE 0)
                                + (IF Live(reqs'[r]) THEN 1 ELSE 0)
    BY <1>1, <1>2
<1>7. XDevicesFit'
  <2>1. XKeys' = XKeys
      BY <1>1 DEF XKeys
  <2> QED
      BY <2>1, XDevicesFewer
<1>8. userConns' \in Int /\ connCount' \in Int /\ userConns' <= xLimit
    BY <1>1, <1>2
<1>9. userIPs' \in [XSources -> Int] /\ relaySources' \in [XSources -> Int]
      /\ stranded' \in [XSources -> Nat] /\ exempt' \subseteq XSources
    BY <1>1, <1>2
<1> QED
    BY <1>4, <1>5, <1>6, <1>7, <1>8, <1>9, XMove

\* A quiet step by XBecome with the table as it is.
LEMMA XQuietMove ==
    ASSUME XCore, NEW r \in XReqs, NEW at \in XSteps, NEW life \in XLives, NEW permit \in XPermits,
           XBecome(r, at, life, reqs[r].listed, reqs[r].slot, permit),
           UNCHANGED <<fixedVars, attached, emailKnown, countVars, xGlobal, accessState,
                       stranded, exempt>>,
           life = "none" <=> at \notin Linked,
           life \in {"open", "closing", "unlisted"} <=> Live(reqs[r]),
           at \in {"none", "identified"} \/ life \in {"unlisted", "done"} => ~reqs[r].listed,
           at = "dispatch" \/ life \in {"open", "closing"} => reqs[r].listed,
           at \in {"none", "identified", "checked", "unlist"} \/ life = "done" => ~reqs[r].slot,
           at = "token" => reqs[r].slot,
           ~Managed /\ at \in Admitting => reqs[r].listed,
           at = "granted" => Managed,
           at = "open" /\ life = "open" => permit # "revoked",
           xRelay /\ at \in {"registered", "open"} /\ life = "open"
               => reqs[r].at \in {"registered", "open"} /\ reqs[r].life = "open"
    PROVE  XCore'
<1>1. reqs[r].listed \in BOOLEAN /\ reqs[r].slot \in BOOLEAN
    BY XSoundReq
<1>2. /\ reqs' = [reqs EXCEPT ![r] = reqs'[r]] /\ reqs'[r] \in XRequests
      /\ reqs'[r].at = at /\ reqs'[r].life = life /\ reqs'[r].permit = permit
      /\ reqs'[r].listed = reqs[r].listed /\ reqs'[r].slot = reqs[r].slot
      /\ reqs'[r].source = reqs[r].source
    BY <1>1, XBecomeIs
<1>3. XSound(reqs'[r], Managed)
    BY <1>2 DEF XSound
<1>4. Live(reqs'[r]) <=> Live(reqs[r])
    BY <1>2 DEF Live
<1>5. /\ UNCHANGED <<xAllowed, xUpdater, xAccesses>> /\ XClosersKnow /\ xAccesses \subseteq XReqs
    BY DEF accessState, XCore, XParts, XAdmissionTypeOK
<1>6. XClosersKnow'
    BY <1>2, <1>5, XClosersStay DEF XClosersKnow
<1> QED
    BY <1>2, <1>3, <1>4, <1>5, <1>6, XQuiet

-----------------------------------------------------------------------------
(* identifyAndCheck.                                                        *)

\* The end of a request that holds nothing.
LEMMA XQuietEnd ==
    ASSUME XCore, NEW r \in XReqs, XRefused(r),
           ~reqs[r].slot, ~reqs[r].listed, ~Live(reqs[r]),
           UNCHANGED <<fixedVars, attached, emailKnown, countVars, xGlobal, accessState,
                       stranded, exempt>>
    PROVE  XCore'
<1>1. /\ reqs' = [reqs EXCEPT ![r] = reqs'[r]] /\ reqs'[r] \in XRequests
      /\ reqs'[r].at = "none" /\ reqs'[r].life = "none" /\ reqs'[r].permit = "none"
      /\ reqs'[r].listed = FALSE /\ reqs'[r].slot = FALSE
    BY XRefusedIs
<1>2. XSound(reqs'[r], Managed) /\ ~Live(reqs'[r])
    BY <1>1 DEF XSound, Live, Linked, Admitting
<1>3. /\ UNCHANGED <<xAllowed, xUpdater, xAccesses>> /\ XClosersKnow /\ xAccesses \subseteq XReqs
    BY DEF accessState, XCore, XParts, XAdmissionTypeOK
<1>4. XClosersKnow'
    BY <1>1, <1>3, XClosersStay DEF XClosersKnow
<1> QED
    BY <1>1, <1>2, <1>3, <1>4, XQuiet

\* RelayAccess.Allows.
LEMMA IdentifyStep ==
    ASSUME XCore, NEW r \in XReqs, Identify(r)
    PROVE  XCore'
<1>1. PICK s \in XSources :
         reqs' = [reqs EXCEPT ![r] = [at |-> "identified", life |-> "none", source |-> s,
                                      listed |-> FALSE, slot |-> FALSE, permit |-> "none"]]
    BY DEF Identify
<1>2. /\ reqs[r].at = "none"
      /\ UNCHANGED <<fixedVars, attached, emailKnown, countVars, xGlobal, accessState,
                     stranded, exempt>>
    BY DEF Identify
<1>3. ~reqs[r].slot /\ ~reqs[r].listed /\ ~Live(reqs[r])
    BY <1>2, XSoundReq DEF XSound, Live, Linked
<1> DEFINE q == [at |-> "identified", life |-> "none", source |-> s,
                 listed |-> FALSE, slot |-> FALSE, permit |-> "none"]
<1>4. reqs' = [reqs EXCEPT ![r] = q] /\ reqs'[r] = q
    BY <1>1 DEF XCore, XAdmissionTypeOK
<1>5. q \in XRequests
    BY DEF XRequests
<1>6. q.at = "identified" /\ q.life = "none" /\ q.listed = FALSE /\ q.slot = FALSE
    OBVIOUS
<1> HIDE DEF q
<1>7. XSound(q, Managed) /\ ~Live(q)
    BY <1>6 DEF XSound, Live, Linked, Admitting
<1>8. /\ UNCHANGED <<xAllowed, xUpdater, xAccesses>> /\ XClosersKnow /\ xAccesses \subseteq XReqs
    BY <1>2 DEF accessState, XCore, XParts, XAdmissionTypeOK
<1>9. XClosersKnow'
    BY <1>2, <1>4, <1>6, <1>8, XClosersStay DEF XClosersKnow
<1> QED
    BY <1>2, <1>3, <1>4, <1>5, <1>6, <1>7, <1>8, <1>9, XQuiet

\* A source that passes the device check finds room.
LEMMA XSlotFits ==
    ASSUME XCore, NEW s \in XSources, ~Managed, ~XNoDeviceSlot(s), NEW x,
           x = IF ~emailKnown \/ (xGlobal # XNoSnapshot /\ s \in xGlobal)
               THEN exempt \cup {s} ELSE exempt
    PROVE  Cardinality((XKeys \cup {s}) \ x) <= XDeviceLimit
<1>1. Cardinality(XKeys \ exempt) <= XDeviceLimit
    BY DEF XCore, XParts, XDevicesFit, NoneStranded
<1>2. XDeviceLimit \in Nat
    BY XAdmissionAssumption
<1>3. /\ IsFiniteSet(XKeys) /\ IsFiniteSet(XKeys \cup {s}) /\ IsFiniteSet(XKeys \ exempt)
  <2>1. /\ XKeys \in SUBSET XSources /\ (XKeys \cup {s}) \in SUBSET XSources
        /\ (XKeys \ exempt) \in SUBSET XSources
      BY DEF XKeys
  <2> QED
      BY <2>1, XAdmissionAssumption, FS_Subset
<1>4. \A q \in XSources : userIPs[q] \in Int /\ userIPs[q] >= 0
  <2>1. \A q \in XSources : ListedAt(reqs, q) \in SUBSET XReqs
      BY DEF ListedAt
  <2>2. \A q \in XSources : Cardinality(ListedAt(reqs, q)) \in Nat
      BY <2>1, XAdmissionAssumption, FS_Subset, FS_CardinalityType
  <2> QED
      BY <2>2 DEF XCore, XParts, ListedBook, XAdmissionTypeOK
<1>5. CASE s \in XKeys \/ s \in x
  <2>1. (XKeys \cup {s}) \ x \in SUBSET (XKeys \ exempt)
      BY <1>5
  <2>2. /\ Cardinality((XKeys \cup {s}) \ x) <= Cardinality(XKeys \ exempt)
        /\ Cardinality((XKeys \cup {s}) \ x) \in Nat /\ Cardinality(XKeys \ exempt) \in Nat
      BY <1>3, <2>1, FS_Subset, FS_CardinalityType
  <2> QED
      BY <1>1, <1>2, <2>2
<1>6. CASE s \notin XKeys /\ s \notin x
  <2>1. emailKnown /\ userIPs[s] = 0 /\ ~(xGlobal # XNoSnapshot /\ s \in xGlobal)
      BY <1>4, <1>6 DEF XKeys
  <2>2. Cardinality(XKeys) < XDeviceLimit
    <3>1. CASE xGlobal = XNoSnapshot
        BY <1>2, <1>3, <2>1, <3>1, FS_CardinalityType DEF XNoDeviceSlot
    <3>2. CASE xGlobal # XNoSnapshot
      <4>1. s \notin xGlobal
          BY <2>1, <3>2
      <4>2. XKeys \cup xGlobal \in SUBSET XSources
          BY <3>2, XAdmissionAssumption DEF XKeys, XCore, XAdmissionTypeOK
      <4>3. IsFiniteSet(XKeys \cup xGlobal) /\ XKeys \in SUBSET (XKeys \cup xGlobal)
          BY <4>2, XAdmissionAssumption, FS_Subset
      <4>4. /\ Cardinality(XKeys) <= Cardinality(XKeys \cup xGlobal)
            /\ Cardinality(XKeys) \in Nat /\ Cardinality(XKeys \cup xGlobal) \in Nat
          BY <1>3, <4>3, FS_Subset, FS_CardinalityType
      <4>5. ~(Cardinality(XKeys \cup xGlobal) >= XDeviceLimit)
          BY <2>1, <3>2, <4>1 DEF XNoDeviceSlot
      <4> QED
          BY <1>2, <4>4, <4>5
    <3> QED
        BY <3>1, <3>2
  <2>3. /\ Cardinality(XKeys \cup {s}) = Cardinality(XKeys) + 1 /\ Cardinality(XKeys) \in Nat
      BY <1>3, <1>6, FS_AddElement, FS_CardinalityType
  <2>4. /\ Cardinality((XKeys \cup {s}) \ x) <= Cardinality(XKeys \cup {s})
        /\ Cardinality((XKeys \cup {s}) \ x) \in Nat
    <3>1. (XKeys \cup {s}) \ x \in SUBSET (XKeys \cup {s})
        OBVIOUS
    <3> QED
        BY <3>1, <1>3, FS_Subset, FS_CardinalityType
  <2> QED
      BY <1>2, <2>2, <2>3, <2>4
<1> QED
    BY <1>5, <1>6

\* Bags of sources.
LEMMA XBags ==
    ASSUME NEW bag \in [XSources -> Int], NEW s \in XSources
    PROVE  /\ XAdd(bag, s) \in [XSources -> Int] /\ XDrop(bag, s) \in [XSources -> Int]
           /\ \A t \in XSources :
                 /\ XAdd(bag, s)[t] = bag[t] + (IF s = t THEN 1 ELSE 0)
                 /\ bag[s] > 0 => XDrop(bag, s)[t] = bag[t] - (IF s = t THEN 1 ELSE 0)
<1>1. /\ XAdd(bag, s) \in [XSources -> Int]
      /\ \A t \in XSources : XAdd(bag, s)[t] = bag[t] + (IF s = t THEN 1 ELSE 0)
    BY DEF XAdd
<1>2. \A t \in XSources :
         XDrop(bag, s)[t] = IF s = t THEN (IF bag[s] > 1 THEN bag[s] - 1 ELSE 0) ELSE bag[t]
    BY DEF XDrop
<1>3. XDrop(bag, s) \in [XSources -> Int]
    BY DEF XDrop
<1> QED
    BY <1>1, <1>2, <1>3

\* Whatever is counted is one of those counted.
LEMMA XCountedIsPositive ==
    ASSUME XCore, NEW r \in XReqs
    PROVE  /\ reqs[r].slot => userConns > 0
           /\ reqs[r].listed => userIPs[reqs[r].source] > 0
           /\ xRelay /\ Live(reqs[r]) => relaySources[reqs[r].source] > 0
<1>1. ASSUME NEW S \in SUBSET XReqs, r \in S PROVE Cardinality(S) \in Nat /\ Cardinality(S) > 0
    BY <1>1, XAdmissionAssumption, FS_Subset, FS_EmptySet, FS_CardinalityType
<1>2. reqs[r].source \in XSources
    BY XSoundReq
<1>3. ASSUME reqs[r].slot PROVE userConns > 0
  <2>1. SlotsOf(reqs) \in SUBSET XReqs /\ r \in SlotsOf(reqs)
      BY <1>3 DEF SlotsOf
  <2> QED
      BY <1>1, <2>1 DEF XCore, XParts, SlotsBook
<1>4. ASSUME reqs[r].listed PROVE userIPs[reqs[r].source] > 0
  <2>1. ListedAt(reqs, reqs[r].source) \in SUBSET XReqs /\ r \in ListedAt(reqs, reqs[r].source)
      BY <1>4 DEF ListedAt
  <2>2. /\ Cardinality(ListedAt(reqs, reqs[r].source)) > 0
        /\ Cardinality(ListedAt(reqs, reqs[r].source)) \in Nat
      BY <1>1, <2>1
  <2>3. stranded[reqs[r].source] \in Nat
      BY <1>2 DEF XCore, XAdmissionTypeOK
  <2> QED
      BY <1>2, <2>2, <2>3 DEF XCore, XParts, ListedBook
<1>5. ASSUME xRelay, Live(reqs[r]) PROVE relaySources[reqs[r].source] > 0
  <2>1. LiveAt(reqs, reqs[r].source) \in SUBSET XReqs /\ r \in LiveAt(reqs, reqs[r].source)
      BY <1>5 DEF LiveAt
  <2>2. Cardinality(LiveAt(reqs, reqs[r].source)) > 0
      BY <1>1, <2>1
  <2> QED
      BY <1>2, <1>5, <2>2 DEF XCore, XParts, RelayBook
<1> QED
    BY <1>3, <1>4, <1>5

\* A step that links nothing and unlinks nothing.
LEMMA XUnlinked ==
    ASSUME XCore, NEW r \in XReqs, reqs' = [reqs EXCEPT ![r] = reqs'[r]],
           reqs'[r] \in XRequests, XSound(reqs'[r], Managed),
           UNCHANGED <<fixedVars, attached, emailKnown, xGlobal, xAllowed, xUpdater,
                       connCount, relaySources>>,
           xAccesses' \subseteq XReqs, userConns' \in Int,
           userIPs' \in [XSources -> Int],
           stranded' \in [XSources -> Nat], exempt' \subseteq XSources,
           userConns' <= xLimit,
           userConns' = userConns - (IF reqs[r].slot THEN 1 ELSE 0)
                                  + (IF reqs'[r].slot THEN 1 ELSE 0),
           Live(reqs'[r]) <=> Live(reqs[r]),
           Live(reqs[r]) => reqs'[r].source = reqs[r].source,
           \A s \in XSources : userIPs'[s] - stranded'[s] =
               userIPs[s] - stranded[s] - Refs(reqs[r], s) + Refs(reqs'[r], s),
           ~Managed => stranded' = stranded,
           XDevicesFit', XClosersKnow'
    PROVE  XCore'
<1>1. connCount \in Int /\ relaySources \in [XSources -> Int]
    BY DEF XCore, XAdmissionTypeOK
<1>2. connCount' = connCount - (IF Live(reqs[r]) THEN 1 ELSE 0)
                             + (IF Live(reqs'[r]) THEN 1 ELSE 0)
    BY <1>1
<1>3. \A s \in XSources : /\ Links(reqs'[r], s) = Links(reqs[r], s)
                          /\ Links(reqs[r], s) \in Int
    BY DEF Links
<1>4. \A s \in XSources : relaySources'[s] =
               IF xRelay THEN relaySources[s] - Links(reqs[r], s) + Links(reqs'[r], s)
               ELSE relaySources[s]
  <2> SUFFICES ASSUME NEW s \in XSources
               PROVE  relaySources[s] = relaySources[s] - Links(reqs[r], s) + Links(reqs'[r], s)
      OBVIOUS
  <2>1. relaySources[s] \in Int
      BY <1>1
  <2> QED
      BY <1>3, <2>1
<1>5. connCount' \in Int /\ relaySources' \in [XSources -> Int]
    BY <1>1
<1> QED
    BY <1>2, <1>4, <1>5, XMove

\* The table of accesses stays as it is while nobody becomes open.
LEMMA XTableStays ==
    ASSUME XCore, NEW r \in XReqs, reqs' = [reqs EXCEPT ![r] = reqs'[r]],
           UNCHANGED <<fixedVars, accessState>>, reqs'[r].life # "open"
    PROVE  XClosersKnow' /\ xAccesses' \subseteq XReqs
<1>1. /\ UNCHANGED <<xAllowed, xUpdater, xAccesses>> /\ XClosersKnow /\ xAccesses \subseteq XReqs
    BY DEF accessState, XCore, XParts, XAdmissionTypeOK
<1>2. XClosersKnow'
    BY <1>1, XClosersStay DEF XClosersKnow
<1> QED
    BY <1>1, <1>2

\* A slot is taken or goes back.
LEMMA XSlotMove ==
    ASSUME XCore, NEW r \in XReqs, NEW at \in XSteps, NEW slot \in BOOLEAN,
           XBecome(r, at, "none", reqs[r].listed, slot, reqs[r].permit), reqs[r].life = "none",
           UNCHANGED <<fixedVars, attached, emailKnown, userIPs, connCount, relaySources,
                       xGlobal, accessState, stranded, exempt>>,
           userConns' = userConns - (IF reqs[r].slot THEN 1 ELSE 0) + (IF slot THEN 1 ELSE 0),
           userConns' <= xLimit,
           at \in {"token", "admitted", "unlist"}, at = "unlist" => ~slot, at = "token" => slot,
           reqs[r].at \in Admitting
    PROVE  XCore'
<1>1. /\ reqs[r].permit \in XPermits /\ reqs[r].listed \in BOOLEAN /\ reqs[r].slot \in BOOLEAN
      /\ XSound(reqs[r], Managed) /\ "none" \in XLives
    BY XSoundReq DEF XLives
<1>2. /\ reqs' = [reqs EXCEPT ![r] = reqs'[r]] /\ reqs'[r] \in XRequests
      /\ reqs'[r].at = at /\ reqs'[r].life = "none"
      /\ reqs'[r].listed = reqs[r].listed /\ reqs'[r].slot = slot
      /\ reqs'[r].source = reqs[r].source
    BY <1>1, XBecomeIs
<1>3. XSound(reqs'[r], Managed)
    BY <1>1, <1>2 DEF XSound, Linked, Admitting
<1>4. ~Live(reqs'[r]) /\ ~Live(reqs[r])
    BY <1>2 DEF Live
<1>5. /\ userConns \in Int /\ userIPs \in [XSources -> Int]
      /\ stranded \in [XSources -> Nat] /\ exempt \subseteq XSources
    BY DEF XCore, XAdmissionTypeOK
<1>6. /\ userConns' = userConns - (IF reqs[r].slot THEN 1 ELSE 0)
                                + (IF reqs'[r].slot THEN 1 ELSE 0)
      /\ userConns' \in Int
    BY <1>2, <1>5
<1>7. \A s \in XSources : userIPs'[s] - stranded'[s] =
               userIPs[s] - stranded[s] - Refs(reqs[r], s) + Refs(reqs'[r], s)
  <2> SUFFICES ASSUME NEW s \in XSources
               PROVE  userIPs[s] - stranded[s] =
                         userIPs[s] - stranded[s] - Refs(reqs[r], s) + Refs(reqs'[r], s)
      OBVIOUS
  <2>1. userIPs[s] \in Int /\ stranded[s] \in Int
      BY <1>5
  <2>2. Refs(reqs'[r], s) = Refs(reqs[r], s) /\ Refs(reqs[r], s) \in Int
      BY <1>2 DEF Refs
  <2> QED
      BY <2>1, <2>2
<1>8. XDevicesFit'
  <2>1. XKeys' = XKeys
      BY DEF XKeys
  <2> QED
      BY <2>1, XDevicesFewer
<1>9. XClosersKnow' /\ xAccesses' \subseteq XReqs /\ UNCHANGED <<xAllowed, xUpdater>>
    BY <1>2, XTableStays DEF accessState
<1> QED
    BY <1>2, <1>3, <1>4, <1>5, <1>6, <1>7, <1>8, <1>9, XUnlinked

\* The state of a request that is not a link yet.
LEMMA XBeforeLink ==
    ASSUME XCore, NEW r \in XReqs, reqs[r].at \notin Linked
    PROVE  reqs[r].life = "none" /\ ~Live(reqs[r])
BY XSoundReq DEF XSound, Live

\* checkDeviceLimit.
LEMMA CheckDeviceStep ==
    ASSUME XCore, NEW r \in XReqs, CheckDeviceLimit(r)
    PROVE  XCore'
<1> DEFINE s == reqs[r].source
<1>1. /\ reqs[r].at = "identified"
      /\ UNCHANGED <<fixedVars, attached, emailKnown, userConns, connCount, relaySources,
                     xGlobal, accessState, stranded>>
    BY DEF CheckDeviceLimit
<1>2. /\ reqs[r].life = "none" /\ ~Live(reqs[r]) /\ ~reqs[r].listed /\ ~reqs[r].slot
      /\ reqs[r].permit \in XPermits /\ s \in XSources
      /\ reqs[r].listed \in BOOLEAN /\ reqs[r].slot \in BOOLEAN
  <2>1. reqs[r].at \notin Linked
      BY <1>1 DEF Linked
  <2> QED
      BY <1>1, <2>1, XBeforeLink, XSoundReq DEF XSound
<1>3. "checked" \in XSteps /\ "none" \in XLives /\ TRUE \in BOOLEAN /\ FALSE \in BOOLEAN
    BY DEF XSteps, XLives, Admitting
<1>4. CASE Managed /\ XStep(r, "checked") /\ UNCHANGED <<userIPs, exempt>>
  <2>1. XBecome(r, "checked", "none", reqs[r].listed, reqs[r].slot, reqs[r].permit)
      BY <1>2, <1>4 DEF XStep
  <2>2. UNCHANGED countVars
      BY <1>1, <1>4 DEF countVars
  <2> QED
      BY <1>1, <1>2, <1>3, <1>4, <2>1, <2>2, XQuietMove DEF Linked, Admitting, Live
<1>5. CASE XRefused(r) /\ UNCHANGED <<userIPs, exempt>>
  <2>1. UNCHANGED countVars
      BY <1>1, <1>5 DEF countVars
  <2> QED
      BY <1>1, <1>2, <1>5, <2>1, XQuietEnd
<1>6. CASE /\ ~Managed /\ ~XNoDeviceSlot(s)
           /\ userIPs' = XAdd(userIPs, s)
           /\ XBecome(r, "checked", reqs[r].life, TRUE, reqs[r].slot, reqs[r].permit)
           /\ exempt' = IF ~emailKnown \/ (xGlobal # XNoSnapshot /\ s \in xGlobal)
                        THEN exempt \cup {s} ELSE exempt
  <2>1. XBecome(r, "checked", "none", TRUE, reqs[r].slot, reqs[r].permit)
      BY <1>2, <1>6
  <2>2. /\ reqs' = [reqs EXCEPT ![r] = reqs'[r]] /\ reqs'[r] \in XRequests
        /\ reqs'[r].at = "checked" /\ reqs'[r].life = "none"
        /\ reqs'[r].listed = TRUE /\ reqs'[r].slot = reqs[r].slot
        /\ reqs'[r].source = s
    <3> DEFINE yes == TRUE
    <3>1. yes \in BOOLEAN /\ XBecome(r, "checked", "none", yes, reqs[r].slot, reqs[r].permit)
        BY <2>1
    <3> HIDE DEF yes
    <3>2. /\ reqs' = [reqs EXCEPT ![r] = reqs'[r]] /\ reqs'[r] \in XRequests
          /\ reqs'[r].at = "checked" /\ reqs'[r].life = "none"
          /\ reqs'[r].listed = yes /\ reqs'[r].slot = reqs[r].slot
          /\ reqs'[r].source = reqs[r].source
        BY <1>2, <1>3, <3>1, XBecomeIs
    <3> QED
        BY <3>2 DEF yes
  <2>3. XSound(reqs'[r], Managed) /\ ~Live(reqs'[r])
      BY <1>2, <2>2 DEF XSound, Linked, Admitting, Live
  <2>4. /\ userConns \in Int /\ userIPs \in [XSources -> Int] /\ userConns <= xLimit
        /\ stranded \in [XSources -> Nat] /\ exempt \subseteq XSources
      BY DEF XCore, XParts, XAdmissionTypeOK, WithinLimit
  <2> DEFINE src == s
  <2>5. src \in XSources
      BY <1>2
  <2> HIDE DEF src
  <2>6. /\ XAdd(userIPs, src) \in [XSources -> Int]
        /\ \A t \in XSources : XAdd(userIPs, src)[t] = userIPs[t] + (IF src = t THEN 1 ELSE 0)
      BY <2>4, <2>5, XBags
  <2>7. /\ userIPs' \in [XSources -> Int]
        /\ \A t \in XSources : userIPs'[t] = userIPs[t] + (IF s = t THEN 1 ELSE 0)
      BY <1>6, <2>6 DEF src
  <2>8. \A t \in XSources : userIPs'[t] - stranded'[t] =
               userIPs[t] - stranded[t] - Refs(reqs[r], t) + Refs(reqs'[r], t)
    <3> SUFFICES ASSUME NEW t \in XSources
                 PROVE  userIPs'[t] - stranded[t] =
                           userIPs[t] - stranded[t] - Refs(reqs[r], t) + Refs(reqs'[r], t)
        BY <1>1
    <3>1. userIPs[t] \in Int /\ stranded[t] \in Int
        BY <2>4
    <3>2. Refs(reqs[r], t) = 0 /\ Refs(reqs'[r], t) = IF s = t THEN 1 ELSE 0
        BY <1>2, <2>2 DEF Refs
    <3> QED
        BY <2>7, <3>1, <3>2
  <2>9. XDevicesFit'
    <3>1. Cardinality((XKeys \cup {src}) \ exempt') <= XDeviceLimit
        BY <1>6, <2>5, XSlotFits DEF src
    <3>2. \A q \in XSources : userIPs[q] \in Int
        BY <2>4
    <3>3. XKeys' = XKeys \cup {src}
      <4>1. userIPs[src] >= 0
        <5>1. ListedAt(reqs, src) \in SUBSET XReqs
            BY DEF ListedAt
        <5>2. Cardinality(ListedAt(reqs, src)) \in Nat
            BY <5>1, XAdmissionAssumption, FS_Subset, FS_CardinalityType
        <5>3. userIPs[src] = stranded[src] + Cardinality(ListedAt(reqs, src))
              /\ stranded[src] \in Nat
            BY <2>4, <2>5 DEF XCore, XParts, ListedBook
        <5> QED
            BY <5>2, <5>3
      <4>2. \A t \in XSources : userIPs'[t] > 0 <=> userIPs[t] > 0 \/ t = src
          BY <2>7, <3>2, <4>1 DEF src
      <4> QED
          BY <2>5, <4>2 DEF XKeys
    <3>4. Cardinality((XKeys \ exempt)') <= XDeviceLimit
        BY <3>1, <3>3
    <3> QED
        BY <3>4 DEF XDevicesFit
  <2>10. XClosersKnow' /\ xAccesses' \subseteq XReqs /\ UNCHANGED <<xAllowed, xUpdater>>
      BY <1>1, <2>2, XTableStays DEF accessState
  <2>11. exempt' \subseteq XSources
      BY <1>2, <1>6, <2>4
  <2>12. /\ userConns' = userConns - (IF reqs[r].slot THEN 1 ELSE 0)
                                   + (IF reqs'[r].slot THEN 1 ELSE 0)
         /\ userConns' \in Int /\ userConns' <= xLimit /\ stranded' \in [XSources -> Nat]
      BY <1>1, <1>2, <2>2, <2>4
  <2>13. UNCHANGED <<fixedVars, attached, emailKnown, xGlobal, xAllowed, xUpdater,
                     connCount, relaySources>> /\ (~Managed => stranded' = stranded)
      BY <1>1, <2>10
  <2> QED
      BY <1>2, <2>2, <2>3, <2>7, <2>8, <2>9, <2>10, <2>11, <2>12, <2>13, XUnlinked
<1> QED
    BY <1>4, <1>5, <1>6 DEF CheckDeviceLimit

\* checkConnGate and its token.
LEMMA SlotSteps ==
    ASSUME XCore, NEW r \in XReqs, TakeSlot(r) \/ TakeToken(r)
    PROVE  XCore'
<1>1. /\ reqs[r].at \in {"checked", "token"} /\ reqs[r].at \in Admitting
      /\ UNCHANGED <<fixedVars, attached, emailKnown, userIPs, connCount, relaySources,
                     xGlobal, accessState, stranded, exempt>>
    BY DEF TakeSlot, TakeToken, Admitting
<1>2. /\ reqs[r].life = "none" /\ ~Live(reqs[r]) /\ XSound(reqs[r], Managed)
      /\ reqs[r].permit \in XPermits /\ reqs[r].listed \in BOOLEAN /\ reqs[r].slot \in BOOLEAN
  <2>1. reqs[r].at \notin Linked
      BY <1>1 DEF Linked
  <2> QED
      BY <2>1, XBeforeLink, XSoundReq
<1>3. {"admitted", "token", "unlist"} \subseteq XSteps /\ "none" \in XLives
    BY DEF XSteps, XLives, Admitting
<1>4. userConns \in Int /\ xLimit \in Nat /\ userConns <= xLimit
    BY XAdmissionAssumption DEF XCore, XParts, XAdmissionTypeOK, WithinLimit
<1>5. ASSUME NEW at \in {"admitted", "unlist"}, XStep(r, at), UNCHANGED userConns,
             at = "unlist" => ~reqs[r].slot
      PROVE  XCore'
  <2>1. XBecome(r, at, "none", reqs[r].listed, reqs[r].slot, reqs[r].permit)
      BY <1>2, <1>5 DEF XStep
  <2>2. UNCHANGED countVars
      BY <1>1, <1>5 DEF countVars
  <2>3. ~Managed => reqs[r].listed
      BY <1>1, <1>2 DEF XSound
  <2> QED
      BY <1>1, <1>2, <1>3, <1>5, <2>1, <2>2, <2>3, XQuietMove DEF Linked, Admitting, Live
<1>6. CASE TakeSlot(r)
  <2>1. reqs[r].at = "checked" /\ ~reqs[r].slot
      BY <1>2, <1>6 DEF TakeSlot, XSound
  <2>2. CASE XStep(r, "admitted") /\ UNCHANGED userConns
      BY <1>5, <2>2
  <2>3. CASE XStep(r, "unlist") /\ UNCHANGED userConns
      BY <1>5, <2>1, <2>3
  <2>4. CASE /\ userConns < xLimit /\ userConns' = userConns + 1
             /\ XBecome(r, "token", reqs[r].life, reqs[r].listed, TRUE, reqs[r].permit)
    <3>1. XBecome(r, "token", "none", reqs[r].listed, TRUE, reqs[r].permit)
        BY <1>2, <2>4
    <3>2. /\ userConns' = userConns - (IF reqs[r].slot THEN 1 ELSE 0) + (IF TRUE THEN 1 ELSE 0)
          /\ userConns' <= xLimit
        BY <1>4, <2>1, <2>4
    <3> QED
        BY <1>1, <1>2, <1>3, <3>1, <3>2, XSlotMove
  <2> QED
      BY <1>6, <2>2, <2>3, <2>4 DEF TakeSlot
<1>7. CASE TakeToken(r)
  <2>1. reqs[r].at = "token" /\ reqs[r].slot
      BY <1>2, <1>7 DEF TakeToken, XSound
  <2>2. CASE XStep(r, "admitted") /\ UNCHANGED userConns
      BY <1>5, <2>2
  <2>3. CASE /\ userConns' = userConns - 1
             /\ XBecome(r, "unlist", reqs[r].life, reqs[r].listed, FALSE, reqs[r].permit)
    <3>1. XBecome(r, "unlist", "none", reqs[r].listed, FALSE, reqs[r].permit)
        BY <1>2, <2>3
    <3>2. /\ userConns' = userConns - (IF reqs[r].slot THEN 1 ELSE 0) + (IF FALSE THEN 1 ELSE 0)
          /\ userConns' <= xLimit
        BY <1>4, <2>1, <2>3
    <3> QED
        BY <1>1, <1>2, <1>3, <3>1, <3>2, XSlotMove
  <2> QED
      BY <1>7, <2>2, <2>3 DEF TakeToken
<1> QED
    BY <1>6, <1>7

-----------------------------------------------------------------------------
(* References that go back or stay for good.                                *)

\* A reference that goes back.
LEMMA XDropRefs ==
    ASSUME XCore, NEW r \in XReqs,
           userIPs' = IF reqs[r].listed THEN XDrop(userIPs, reqs[r].source) ELSE userIPs
    PROVE  /\ userIPs' \in [XSources -> Int]
           /\ \A t \in XSources : userIPs'[t] = userIPs[t] - Refs(reqs[r], t)
           /\ XKeys' \subseteq XKeys
<1> DEFINE src == reqs[r].source
<1>1. src \in XSources /\ userIPs \in [XSources -> Int]
      /\ (reqs[r].listed => userIPs[src] > 0)
    BY XSoundReq, XCountedIsPositive DEF XCore, XAdmissionTypeOK
<1> HIDE DEF src
<1>2. /\ XDrop(userIPs, src) \in [XSources -> Int]
      /\ \A t \in XSources : userIPs[src] > 0 =>
            XDrop(userIPs, src)[t] = userIPs[t] - (IF src = t THEN 1 ELSE 0)
    BY <1>1, XBags
<1>3. userIPs' \in [XSources -> Int]
    BY <1>1, <1>2 DEF src
<1>4. \A t \in XSources : userIPs'[t] = userIPs[t] - Refs(reqs[r], t)
  <2>1. CASE reqs[r].listed
    <3>1. \A t \in XSources : userIPs'[t] = userIPs[t] - (IF src = t THEN 1 ELSE 0)
        BY <1>1, <1>2, <2>1 DEF src
    <3> QED
        BY <2>1, <3>1 DEF Refs, src
  <2>2. CASE ~reqs[r].listed
    <3>1. \A t \in XSources : Refs(reqs[r], t) = 0 /\ userIPs[t] \in Int
        BY <1>1, <2>2 DEF Refs
    <3> QED
        BY <2>2, <3>1
  <2> QED
      BY <2>1, <2>2
<1>5. XKeys' \subseteq XKeys
  <2>1. ASSUME NEW t \in XSources PROVE userIPs'[t] > 0 => userIPs[t] > 0
    <3>1. Refs(reqs[r], t) \in {0, 1} /\ userIPs[t] \in Int
        BY <1>1 DEF Refs
    <3> QED
        BY <1>4, <3>1
  <2> QED
      BY <2>1 DEF XKeys
<1> QED
    BY <1>3, <1>4, <1>5

\* A reference that stays for good.
LEMMA XStrandRefs ==
    ASSUME XCore, NEW r \in XReqs,
           stranded' = IF reqs[r].listed THEN XAdd(stranded, reqs[r].source) ELSE stranded
    PROVE  /\ stranded' \in [XSources -> Nat]
           /\ \A t \in XSources : stranded'[t] = stranded[t] + Refs(reqs[r], t)
<1> DEFINE src == reqs[r].source
<1>1. src \in XSources /\ stranded \in [XSources -> Nat]
    BY XSoundReq DEF XCore, XAdmissionTypeOK
<1> HIDE DEF src
<1>2. /\ XAdd(stranded, src) \in [XSources -> Nat]
      /\ \A t \in XSources : XAdd(stranded, src)[t] = stranded[t] + (IF src = t THEN 1 ELSE 0)
    BY <1>1 DEF XAdd
<1>3. CASE reqs[r].listed
  <2>1. \A t \in XSources : Refs(reqs[r], t) = IF src = t THEN 1 ELSE 0
      BY <1>3 DEF Refs, src
  <2> QED
      BY <1>2, <1>3, <2>1 DEF src
<1>4. CASE ~reqs[r].listed
  <2>1. \A t \in XSources : Refs(reqs[r], t) = 0 /\ stranded[t] \in Nat
      BY <1>1, <1>4 DEF Refs
  <2> QED
      BY <1>1, <1>4, <2>1
<1> QED
    BY <1>3, <1>4

\* The end of a request that gives back its slot, and its reference or not.
LEMMA XEnd ==
    ASSUME XCore, NEW r \in XReqs, XRefused(r), ~Live(reqs[r]),
           UNCHANGED <<fixedVars, attached, emailKnown, connCount, relaySources,
                       xGlobal, accessState, exempt>>,
           userConns' = IF reqs[r].slot THEN userConns - 1 ELSE userConns,
           userIPs' \in [XSources -> Int], stranded' \in [XSources -> Nat],
           \A t \in XSources : userIPs'[t] - stranded'[t] =
               userIPs[t] - stranded[t] - Refs(reqs[r], t),
           ~Managed => stranded' = stranded /\ XKeys' \subseteq XKeys
    PROVE  XCore'
<1>1. /\ reqs' = [reqs EXCEPT ![r] = reqs'[r]] /\ reqs'[r] \in XRequests
      /\ reqs'[r].at = "none" /\ reqs'[r].life = "none"
      /\ reqs'[r].listed = FALSE /\ reqs'[r].slot = FALSE
    BY XRefusedIs
<1>2. XSound(reqs'[r], Managed) /\ ~Live(reqs'[r])
    BY <1>1 DEF XSound, Live, Linked, Admitting
<1>3. /\ userConns \in Int /\ xLimit \in Nat /\ userConns <= xLimit
      /\ userIPs \in [XSources -> Int] /\ stranded \in [XSources -> Nat] /\ exempt \subseteq XSources
    BY XAdmissionAssumption DEF XCore, XParts, XAdmissionTypeOK, WithinLimit
<1>4. /\ userConns' = userConns - (IF reqs[r].slot THEN 1 ELSE 0)
                                + (IF reqs'[r].slot THEN 1 ELSE 0)
      /\ userConns' \in Int /\ userConns' <= xLimit
  <2>1. CASE reqs[r].slot
      BY <1>1, <1>3, <2>1
  <2>2. CASE ~reqs[r].slot
      BY <1>1, <1>3, <2>2
  <2> QED
      BY <2>1, <2>2
<1>5. \A t \in XSources : userIPs'[t] - stranded'[t] =
               userIPs[t] - stranded[t] - Refs(reqs[r], t) + Refs(reqs'[r], t)
  <2> SUFFICES ASSUME NEW t \in XSources
               PROVE  userIPs'[t] - stranded'[t] =
                         userIPs[t] - stranded[t] - Refs(reqs[r], t) + Refs(reqs'[r], t)
      OBVIOUS
  <2>1. Refs(reqs'[r], t) = 0 /\ Refs(reqs[r], t) \in Int
      BY <1>1 DEF Refs
  <2>2. userIPs[t] \in Int /\ stranded[t] \in Int
      BY <1>3
  <2> QED
      BY <2>1, <2>2
<1>6. XDevicesFit'
    BY XDevicesFewer
<1>7. XClosersKnow' /\ xAccesses' \subseteq XReqs /\ UNCHANGED <<xAllowed, xUpdater>>
    BY <1>1, XTableStays DEF accessState
<1>8. exempt' \subseteq XSources /\ (~Managed => stranded' = stranded)
    BY <1>3
<1> QED
    BY <1>1, <1>2, <1>4, <1>5, <1>6, <1>7, <1>8, XUnlinked

\* The end of identifyAndCheck and a Dispatch that fails.
LEMMA DropSteps ==
    ASSUME XCore, NEW r \in XReqs, Unlist(r) \/ DispatchFails(r)
    PROVE  XCore'
<1>1. /\ XRefused(r) /\ reqs[r].at \in {"unlist", "dispatch"}
      /\ UNCHANGED <<fixedVars, attached, emailKnown, connCount, relaySources,
                     xGlobal, accessState, stranded, exempt>>
    BY DEF Unlist, DispatchFails
<1>2. XSound(reqs[r], Managed) /\ ~Live(reqs[r])
  <2>1. reqs[r].at \notin Linked
      BY <1>1 DEF Linked
  <2> QED
      BY <2>1, XBeforeLink, XSoundReq
<1>3. userIPs' = IF reqs[r].listed THEN XDrop(userIPs, reqs[r].source) ELSE userIPs
    BY <1>2 DEF Unlist, DispatchFails, XSound
<1>4. userConns' = IF reqs[r].slot THEN userConns - 1 ELSE userConns
    BY <1>2 DEF Unlist, DispatchFails, XSound
<1>5. /\ userIPs' \in [XSources -> Int]
      /\ \A t \in XSources : userIPs'[t] = userIPs[t] - Refs(reqs[r], t)
      /\ XKeys' \subseteq XKeys
    BY <1>3, XDropRefs
<1>6. stranded \in [XSources -> Nat] /\ userIPs \in [XSources -> Int]
    BY DEF XCore, XAdmissionTypeOK
<1>7. \A t \in XSources : userIPs'[t] - stranded'[t] =
               userIPs[t] - stranded[t] - Refs(reqs[r], t)
  <2> SUFFICES ASSUME NEW t \in XSources
               PROVE  userIPs'[t] - stranded[t] = userIPs[t] - stranded[t] - Refs(reqs[r], t)
      BY <1>1
  <2>1. Refs(reqs[r], t) \in Int /\ userIPs[t] \in Int /\ stranded[t] \in Int
      BY <1>6 DEF Refs
  <2> QED
      BY <1>5, <2>1
<1> QED
    BY <1>1, <1>2, <1>4, <1>5, <1>6, <1>7, XEnd

-----------------------------------------------------------------------------
(* acquireDevice.                                                           *)

\* Refused by the gate: the slot goes back, a reference stays.
LEMMA XStrandedEnd ==
    ASSUME XCore, NEW r \in XReqs, XRefused(r), Managed, reqs[r].at \notin Linked,
           UNCHANGED <<fixedVars, attached, emailKnown, userIPs, connCount, relaySources,
                       xGlobal, accessState, exempt>>,
           userConns' = IF reqs[r].slot THEN userConns - 1 ELSE userConns,
           stranded' = IF reqs[r].listed THEN XAdd(stranded, reqs[r].source) ELSE stranded
    PROVE  XCore'
<1>1. ~Live(reqs[r])
    BY XBeforeLink
<1>2. /\ stranded' \in [XSources -> Nat]
      /\ \A t \in XSources : stranded'[t] = stranded[t] + Refs(reqs[r], t)
    BY XStrandRefs
<1>3. stranded \in [XSources -> Nat] /\ userIPs \in [XSources -> Int]
    BY DEF XCore, XAdmissionTypeOK
<1>4. \A t \in XSources : userIPs'[t] - stranded'[t] =
               userIPs[t] - stranded[t] - Refs(reqs[r], t)
  <2> SUFFICES ASSUME NEW t \in XSources
               PROVE  userIPs[t] - stranded'[t] = userIPs[t] - stranded[t] - Refs(reqs[r], t)
      OBVIOUS
  <2>1. Refs(reqs[r], t) \in Int /\ userIPs[t] \in Int /\ stranded[t] \in Int
      BY <1>3 DEF Refs
  <2> QED
      BY <1>2, <2>1
<1> QED
    BY <1>1, <1>2, <1>3, <1>4, XEnd

\* The gate is asked: nothing changes, it grants, or the request ends.
LEMMA AcquireStep ==
    ASSUME XCore, NEW r \in XReqs, XAcquire(r)
    PROVE  XCore'
<1>1. /\ reqs[r].at = "admitted" /\ reqs[r].at \notin Linked
      /\ UNCHANGED <<fixedVars, attached, emailKnown, userIPs, connCount, relaySources,
                     xGlobal, accessState, exempt>>
    BY DEF XAcquire, Linked
<1>2. /\ reqs[r].life = "none" /\ ~Live(reqs[r]) /\ XSound(reqs[r], Managed)
      /\ reqs[r].permit \in XPermits
    BY <1>1, XBeforeLink, XSoundReq
<1>3. {"dispatch", "granted"} \subseteq XSteps /\ "none" \in XLives /\ "held" \in XPermits
    BY DEF XSteps, XLives, XPermits
<1>4. CASE ~Managed /\ XStep(r, "dispatch") /\ UNCHANGED <<userConns, stranded>>
  <2>1. XBecome(r, "dispatch", "none", reqs[r].listed, reqs[r].slot, reqs[r].permit)
        /\ UNCHANGED countVars
      BY <1>1, <1>2, <1>4 DEF XStep, countVars
  <2>2. reqs[r].listed
      BY <1>1, <1>2, <1>4 DEF XSound, Admitting
  <2>3. "dispatch" \notin Linked /\ "dispatch" \notin Admitting /\ "dispatch" \in XSteps
      BY <1>3 DEF Linked, Admitting
  <2>4. UNCHANGED <<fixedVars, attached, emailKnown, countVars, xGlobal, accessState,
                    stranded, exempt>>
      BY <1>1, <1>4, <2>1
  <2>5. "none" \notin {"open", "closing", "unlisted", "done"}
      OBVIOUS
  <2> DEFINE to == "dispatch"
             life == "none"
             permit == reqs[r].permit
  <2>6. to \in XSteps /\ life \in XLives /\ permit \in XPermits
      BY <1>2, <1>3
  <2>7. XBecome(r, to, life, reqs[r].listed, reqs[r].slot, permit)
      BY <2>1
  <2>8. /\ life = "none" <=> to \notin Linked
        /\ life \in {"open", "closing", "unlisted"} <=> Live(reqs[r])
        /\ to \in {"none", "identified"} \/ life \in {"unlisted", "done"} => ~reqs[r].listed
        /\ to = "dispatch" \/ life \in {"open", "closing"} => reqs[r].listed
        /\ to \in {"none", "identified", "checked", "unlist"} \/ life = "done" => ~reqs[r].slot
        /\ to = "token" => reqs[r].slot
        /\ ~Managed /\ to \in Admitting => reqs[r].listed
        /\ to = "granted" => Managed
        /\ to = "open" /\ life = "open" => permit # "revoked"
        /\ xRelay /\ to \in {"registered", "open"} /\ life = "open"
               => reqs[r].at \in {"registered", "open"} /\ reqs[r].life = "open"
      BY <1>2, <2>2, <2>3
  <2> HIDE DEF to, life, permit
  <2> QED
      BY <2>4, <2>6, <2>7, <2>8, XQuietMove
<1>5. CASE /\ Managed
           /\ XBecome(r, "granted", reqs[r].life, reqs[r].listed, reqs[r].slot, "held")
           /\ UNCHANGED <<userConns, stranded>>
  <2>1. XBecome(r, "granted", "none", reqs[r].listed, reqs[r].slot, "held")
        /\ UNCHANGED countVars
      BY <1>1, <1>2, <1>5 DEF countVars
  <2> QED
      BY <1>1, <1>2, <1>3, <1>5, <2>1, XQuietMove DEF Linked, Admitting, Live
<1>6. CASE /\ Managed
           /\ userConns' = IF reqs[r].slot THEN userConns - 1 ELSE userConns
           /\ stranded' = IF reqs[r].listed THEN XAdd(stranded, reqs[r].source) ELSE stranded
           /\ XRefused(r)
    BY <1>1, <1>6, XStrandedEnd
<1> QED
    BY <1>4, <1>5, <1>6 DEF XAcquire

\* The user is still there: one more reference, and an earlier one stays.
LEMMA RevalidateStep ==
    ASSUME XCore, NEW r \in XReqs, XRevalidate(r)
    PROVE  XCore'
<1> DEFINE src == reqs[r].source
<1>1. /\ reqs[r].at = "granted" /\ reqs[r].at \notin Linked
      /\ UNCHANGED <<fixedVars, attached, emailKnown, connCount, relaySources,
                     xGlobal, accessState, exempt>>
    BY DEF XRevalidate, Linked
<1>2. /\ reqs[r].life = "none" /\ ~Live(reqs[r]) /\ XSound(reqs[r], Managed) /\ Managed
      /\ reqs[r].permit \in XPermits /\ reqs[r].slot \in BOOLEAN /\ src \in XSources
    BY <1>1, XBeforeLink, XSoundReq DEF XSound
<1>3. CASE /\ userConns' = IF reqs[r].slot THEN userConns - 1 ELSE userConns
           /\ stranded' = IF reqs[r].listed THEN XAdd(stranded, reqs[r].source) ELSE stranded
           /\ XRefused(r) /\ UNCHANGED userIPs
    BY <1>1, <1>2, <1>3, XStrandedEnd
<1>4. CASE /\ userIPs' = XAdd(userIPs, src)
           /\ stranded' = IF reqs[r].listed THEN XAdd(stranded, src) ELSE stranded
           /\ XBecome(r, "dispatch", reqs[r].life, TRUE, reqs[r].slot, reqs[r].permit)
           /\ UNCHANGED userConns
  <2>1. "dispatch" \in XSteps /\ "none" \in XLives
      BY DEF XSteps, XLives
  <2>2. /\ reqs' = [reqs EXCEPT ![r] = reqs'[r]] /\ reqs'[r] \in XRequests
        /\ reqs'[r].at = "dispatch" /\ reqs'[r].life = "none"
        /\ reqs'[r].listed = TRUE /\ reqs'[r].slot = reqs[r].slot
        /\ reqs'[r].source = src
    <3> DEFINE yes == TRUE
    <3>1. yes \in BOOLEAN /\ XBecome(r, "dispatch", "none", yes, reqs[r].slot, reqs[r].permit)
        BY <1>2, <1>4
    <3> HIDE DEF yes
    <3>2. /\ reqs' = [reqs EXCEPT ![r] = reqs'[r]] /\ reqs'[r] \in XRequests
          /\ reqs'[r].at = "dispatch" /\ reqs'[r].life = "none"
          /\ reqs'[r].listed = yes /\ reqs'[r].slot = reqs[r].slot
          /\ reqs'[r].source = reqs[r].source
        BY <1>2, <2>1, <3>1, XBecomeIs
    <3> QED
        BY <3>2 DEF yes
  <2>3. XSound(reqs'[r], Managed) /\ ~Live(reqs'[r])
      BY <2>2 DEF XSound, Linked, Admitting, Live
  <2>4. /\ userConns \in Int /\ userIPs \in [XSources -> Int] /\ userConns <= xLimit
        /\ stranded \in [XSources -> Nat] /\ exempt \subseteq XSources
      BY DEF XCore, XParts, XAdmissionTypeOK, WithinLimit
  <2>5. /\ stranded' \in [XSources -> Nat]
        /\ \A t \in XSources : stranded'[t] = stranded[t] + Refs(reqs[r], t)
      BY <1>4, XStrandRefs
  <2>6. /\ userIPs' \in [XSources -> Int]
        /\ \A t \in XSources : userIPs'[t] = userIPs[t] + Refs(reqs'[r], t)
    <3> DEFINE s == src
    <3>1. s \in XSources
        BY <1>2
    <3> HIDE DEF s
    <3>2. /\ XAdd(userIPs, s) \in [XSources -> Int]
          /\ \A t \in XSources : XAdd(userIPs, s)[t] = userIPs[t] + (IF s = t THEN 1 ELSE 0)
        BY <2>4, <3>1, XBags
    <3>3. \A t \in XSources : Refs(reqs'[r], t) = IF s = t THEN 1 ELSE 0
        BY <2>2 DEF Refs, s
    <3> QED
        BY <1>4, <3>2, <3>3 DEF s
  <2>7. \A t \in XSources : userIPs'[t] - stranded'[t] =
               userIPs[t] - stranded[t] - Refs(reqs[r], t) + Refs(reqs'[r], t)
    <3> SUFFICES ASSUME NEW t \in XSources
                 PROVE  userIPs'[t] - stranded'[t] =
                           userIPs[t] - stranded[t] - Refs(reqs[r], t) + Refs(reqs'[r], t)
        OBVIOUS
    <3>1. /\ userIPs[t] \in Int /\ stranded[t] \in Int
          /\ Refs(reqs[r], t) \in Int /\ Refs(reqs'[r], t) \in Int
        BY <2>4 DEF Refs
    <3> QED
        BY <2>5, <2>6, <3>1
  <2>8. XDevicesFit'
    <3>1. Managed'
        BY <1>1, <1>2 DEF Managed, fixedVars
    <3> QED
        BY <3>1 DEF XDevicesFit
  <2>9. XClosersKnow' /\ xAccesses' \subseteq XReqs /\ UNCHANGED <<xAllowed, xUpdater>>
      BY <1>1, <2>2, XTableStays DEF accessState
  <2>10. /\ userConns' = userConns - (IF reqs[r].slot THEN 1 ELSE 0)
                                   + (IF reqs'[r].slot THEN 1 ELSE 0)
         /\ userConns' \in Int /\ userConns' <= xLimit /\ exempt' \subseteq XSources
      BY <1>1, <1>2, <1>4, <2>2, <2>4 DEF fixedVars
  <2> QED
      BY <1>1, <1>2, <2>2, <2>3, <2>5, <2>6, <2>7, <2>8, <2>9, <2>10, XUnlinked
<1> QED
    BY <1>3, <1>4 DEF XRevalidate

-----------------------------------------------------------------------------
(* Links.                                                                   *)

\* The gate revokes, Bind finds the permit gone, the writer closes.
LEMMA LinkStateSteps ==
    ASSUME XCore, NEW r \in XReqs, XGateRevoke(r) \/ XBind(r) \/ WriterCloses(r)
    PROVE  XCore'
<1>1. UNCHANGED <<fixedVars, attached, emailKnown, countVars, xGlobal, accessState,
                  stranded, exempt>>
    BY DEF XGateRevoke, XBind, WriterCloses
<1>2. /\ XSound(reqs[r], Managed) /\ reqs[r].at \in XSteps /\ reqs[r].life \in XLives
      /\ reqs[r].permit \in XPermits
    BY XSoundReq
<1>3. CASE XGateRevoke(r)
  <2> DEFINE at == reqs[r].at
             life == IF reqs[r].at = "open" /\ reqs[r].life = "open" THEN "closing"
                     ELSE reqs[r].life
             permit == "revoked"
  <2>1. at \in XSteps /\ life \in XLives /\ permit \in XPermits
      BY <1>2 DEF XLives, XPermits
  <2>2. XBecome(r, at, life, reqs[r].listed, reqs[r].slot, permit)
      BY <1>3 DEF XGateRevoke
  <2>3. /\ life = "none" <=> at \notin Linked
        /\ life \in {"open", "closing", "unlisted"} <=> Live(reqs[r])
        /\ at \in {"none", "identified"} \/ life \in {"unlisted", "done"} => ~reqs[r].listed
        /\ at = "dispatch" \/ life \in {"open", "closing"} => reqs[r].listed
        /\ at \in {"none", "identified", "checked", "unlist"} \/ life = "done" => ~reqs[r].slot
        /\ at = "token" => reqs[r].slot
        /\ ~Managed /\ at \in Admitting => reqs[r].listed
        /\ at = "granted" => Managed
        /\ at = "open" /\ life = "open" => permit # "revoked"
        /\ xRelay /\ at \in {"registered", "open"} /\ life = "open"
               => reqs[r].at \in {"registered", "open"} /\ reqs[r].life = "open"
    <3>1. CASE reqs[r].at = "open" /\ reqs[r].life = "open"
        BY <1>2, <3>1 DEF XSound, Live, Linked, Admitting
    <3>2. CASE ~(reqs[r].at = "open" /\ reqs[r].life = "open")
        BY <1>2, <3>2 DEF XSound, Live
    <3> QED
        BY <3>1, <3>2
  <2> HIDE DEF at, life, permit
  <2> QED
      BY <1>1, <2>1, <2>2, <2>3, XQuietMove
<1>4. CASE XBind(r)
  <2> DEFINE at == "open"
             life == IF reqs[r].life = "open" /\ reqs[r].permit = "revoked" THEN "closing"
                     ELSE reqs[r].life
             permit == reqs[r].permit
  <2>1. at \in XSteps /\ life \in XLives /\ permit \in XPermits
      BY <1>2 DEF XSteps, XLives, Linked
  <2>2. XBecome(r, at, life, reqs[r].listed, reqs[r].slot, permit) /\ reqs[r].at = "registered"
      BY <1>4 DEF XBind
  <2>3. /\ life = "none" <=> at \notin Linked
        /\ life \in {"open", "closing", "unlisted"} <=> Live(reqs[r])
        /\ at \in {"none", "identified"} \/ life \in {"unlisted", "done"} => ~reqs[r].listed
        /\ at = "dispatch" \/ life \in {"open", "closing"} => reqs[r].listed
        /\ at \in {"none", "identified", "checked", "unlist"} \/ life = "done" => ~reqs[r].slot
        /\ at = "token" => reqs[r].slot
        /\ ~Managed /\ at \in Admitting => reqs[r].listed
        /\ at = "granted" => Managed
        /\ at = "open" /\ life = "open" => permit # "revoked"
        /\ xRelay /\ at \in {"registered", "open"} /\ life = "open"
               => reqs[r].at \in {"registered", "open"} /\ reqs[r].life = "open"
    <3>1. CASE reqs[r].life = "open" /\ reqs[r].permit = "revoked"
        BY <1>2, <2>2, <3>1 DEF XSound, Live, Linked, Admitting
    <3>2. CASE ~(reqs[r].life = "open" /\ reqs[r].permit = "revoked")
        BY <1>2, <2>2, <3>2 DEF XSound, Live, Linked, Admitting
    <3> QED
        BY <3>1, <3>2
  <2> HIDE DEF at, life, permit
  <2> QED
      BY <1>1, <2>1, <2>2, <2>3, XQuietMove
<1>5. CASE WriterCloses(r)
  <2> DEFINE at == reqs[r].at
             life == "closing"
             permit == reqs[r].permit
  <2>1. at \in XSteps /\ life \in XLives /\ permit \in XPermits
      BY <1>2 DEF XLives
  <2>2. /\ XBecome(r, at, life, reqs[r].listed, reqs[r].slot, permit)
        /\ reqs[r].at = "open" /\ reqs[r].life = "open"
      BY <1>5 DEF WriterCloses, XDie
  <2>3. /\ life = "none" <=> at \notin Linked
        /\ life \in {"open", "closing", "unlisted"} <=> Live(reqs[r])
        /\ at \in {"none", "identified"} \/ life \in {"unlisted", "done"} => ~reqs[r].listed
        /\ at = "dispatch" \/ life \in {"open", "closing"} => reqs[r].listed
        /\ at \in {"none", "identified", "checked", "unlist"} \/ life = "done" => ~reqs[r].slot
        /\ at = "token" => reqs[r].slot
        /\ ~Managed /\ at \in Admitting => reqs[r].listed
        /\ at = "granted" => Managed
        /\ at = "open" /\ life = "open" => permit # "revoked"
        /\ xRelay /\ at \in {"registered", "open"} /\ life = "open"
               => reqs[r].at \in {"registered", "open"} /\ reqs[r].life = "open"
      BY <1>2, <2>2 DEF XSound, Live, Linked, Admitting
  <2> HIDE DEF at, life, permit
  <2> QED
      BY <1>1, <2>1, <2>2, <2>3, XQuietMove
<1> QED
    BY <1>3, <1>4, <1>5

\* trackLink counts the link.
LEMMA TrackLinkStep ==
    ASSUME XCore, NEW r \in XReqs, TrackLink(r)
    PROVE  XCore'
<1> DEFINE src == reqs[r].source
<1>1. /\ reqs[r].at = "dispatch"
      /\ connCount' = connCount + 1
      /\ relaySources' = IF xRelay THEN XAdd(relaySources, src) ELSE relaySources
      /\ UNCHANGED <<fixedVars, attached, emailKnown, userIPs, userConns,
                     xGlobal, accessState, stranded, exempt>>
    BY DEF TrackLink
<1>2. /\ XSound(reqs[r], Managed) /\ reqs[r].permit \in XPermits
      /\ reqs[r].listed \in BOOLEAN /\ reqs[r].slot \in BOOLEAN /\ src \in XSources
    BY <1>1, XSoundReq
<1>3. ~Live(reqs[r])
    BY <1>1, <1>2 DEF XSound, Live, Linked
<1>4. /\ reqs' = [reqs EXCEPT ![r] = reqs'[r]] /\ reqs'[r] \in XRequests
      /\ reqs'[r].at = "tracked" /\ reqs'[r].life = "open"
      /\ reqs'[r].listed = reqs[r].listed /\ reqs'[r].slot = reqs[r].slot
      /\ reqs'[r].source = src
  <2>1. "tracked" \in XSteps /\ "open" \in XLives
      BY DEF XSteps, XLives, Linked
  <2>2. XBecome(r, "tracked", "open", reqs[r].listed, reqs[r].slot, reqs[r].permit)
      BY DEF TrackLink
  <2> QED
      BY <1>2, <2>1, <2>2, XBecomeIs
<1>5. XSound(reqs'[r], Managed)
    BY <1>1, <1>2, <1>4 DEF XSound, Linked, Admitting
<1>6. Live(reqs'[r])
    BY <1>4 DEF Live
<1>7. /\ userConns \in Int /\ connCount \in Int /\ userIPs \in [XSources -> Int]
      /\ relaySources \in [XSources -> Int] /\ stranded \in [XSources -> Nat]
      /\ exempt \subseteq XSources /\ userConns <= xLimit
    BY DEF XCore, XParts, XAdmissionTypeOK, WithinLimit
<1>8. /\ userConns' = userConns - (IF reqs[r].slot THEN 1 ELSE 0)
                                + (IF reqs'[r].slot THEN 1 ELSE 0)
      /\ userConns' \in Int /\ userConns' <= xLimit
    BY <1>1, <1>4, <1>7
<1>9. /\ connCount' = connCount - (IF Live(reqs[r]) THEN 1 ELSE 0)
                                + (IF Live(reqs'[r]) THEN 1 ELSE 0)
      /\ connCount' \in Int
    BY <1>1, <1>3, <1>6, <1>7
<1>10. \A s \in XSources : userIPs'[s] - stranded'[s] =
               userIPs[s] - stranded[s] - Refs(reqs[r], s) + Refs(reqs'[r], s)
  <2> SUFFICES ASSUME NEW s \in XSources
               PROVE  userIPs[s] - stranded[s] =
                         userIPs[s] - stranded[s] - Refs(reqs[r], s) + Refs(reqs'[r], s)
      BY <1>1
  <2>1. Refs(reqs'[r], s) = Refs(reqs[r], s) /\ Refs(reqs[r], s) \in Int
      BY <1>4 DEF Refs
  <2>2. userIPs[s] \in Int /\ stranded[s] \in Int
      BY <1>7
  <2> QED
      BY <2>1, <2>2
<1>11. /\ relaySources' \in [XSources -> Int]
       /\ \A s \in XSources : relaySources'[s] =
             IF xRelay THEN relaySources[s] - Links(reqs[r], s) + Links(reqs'[r], s)
             ELSE relaySources[s]
  <2> DEFINE t == src
  <2>1. t \in XSources
      BY <1>2
  <2>2. \A s \in XSources : Links(reqs[r], s) = 0 /\ Links(reqs'[r], s) = IF t = s THEN 1 ELSE 0
      BY <1>3, <1>4, <1>6 DEF Links
  <2> HIDE DEF t
  <2>3. /\ XAdd(relaySources, t) \in [XSources -> Int]
        /\ \A s \in XSources : XAdd(relaySources, t)[s] = relaySources[s] + (IF t = s THEN 1 ELSE 0)
      BY <1>7, <2>1, XBags
  <2>4. relaySources' = IF xRelay THEN XAdd(relaySources, t) ELSE relaySources
      BY <1>1 DEF t
  <2>5. \A s \in XSources : relaySources[s] \in Int
      BY <1>7
  <2> QED
      BY <1>7, <2>2, <2>3, <2>4, <2>5
<1>12. XDevicesFit'
  <2>1. XKeys' = XKeys
      BY <1>1 DEF XKeys
  <2> QED
      BY <1>1, <2>1, XDevicesFewer
<1>13. /\ UNCHANGED <<xAllowed, xUpdater, xAccesses>> /\ XClosersKnow /\ xAccesses \subseteq XReqs
    BY <1>1 DEF accessState, XCore, XParts, XAdmissionTypeOK
<1>14. XClosersKnow'
    BY <1>1, <1>4, <1>13, XClosersStay DEF XClosersKnow
<1>15. userIPs' \in [XSources -> Int] /\ stranded' \in [XSources -> Nat] /\ exempt' \subseteq XSources
    BY <1>1, <1>7
<1> QED
    BY <1>1, <1>4, <1>5, <1>8, <1>9, <1>10, <1>11, <1>12, <1>13, <1>14, <1>15, XMove

\* RelayAccess.Register lets in who is allowed, and the others are closed.
LEMMA XRegisterStep ==
    ASSUME XCore, NEW r \in XReqs, XRegister(r)
    PROVE  XCore'
<1> DEFINE life == IF xRelay /\ ~xAllowed /\ reqs[r].life = "open" THEN "closing"
                   ELSE reqs[r].life
<1>1. /\ reqs[r].at = "tracked"
      /\ xAccesses' = IF xRelay /\ xAllowed THEN xAccesses \cup {r} ELSE xAccesses
      /\ UNCHANGED <<fixedVars, attached, emailKnown, countVars, xGlobal,
                     xAllowed, xUpdater, stranded, exempt>>
      /\ XBecome(r, "registered", life, reqs[r].listed, reqs[r].slot, reqs[r].permit)
    BY DEF XRegister
<1>2. /\ XSound(reqs[r], Managed) /\ reqs[r].permit \in XPermits
      /\ reqs[r].listed \in BOOLEAN /\ reqs[r].slot \in BOOLEAN /\ life \in XLives
      /\ "registered" \in XSteps
    BY XSoundReq DEF XLives, XSteps, Linked
<1>3. /\ life \in {"open", "closing", "unlisted"} <=> Live(reqs[r])
      /\ life \in {"open", "closing"} <=> reqs[r].life \in {"open", "closing"}
      /\ life \in {"unlisted", "done"} <=> reqs[r].life \in {"unlisted", "done"}
      /\ life = "none" <=> reqs[r].life = "none"
      /\ life = "done" <=> reqs[r].life = "done"
      /\ xRelay /\ life = "open" => xAllowed
    BY DEF Live
<1> HIDE DEF life
<1>4. /\ reqs' = [reqs EXCEPT ![r] = reqs'[r]] /\ reqs'[r] \in XRequests
      /\ reqs'[r].at = "registered" /\ reqs'[r].life = life
      /\ reqs'[r].listed = reqs[r].listed /\ reqs'[r].slot = reqs[r].slot
      /\ reqs'[r].source = reqs[r].source
    BY <1>1, <1>2, XBecomeIs
<1>5. XSound(reqs'[r], Managed)
    BY <1>1, <1>2, <1>3, <1>4 DEF XSound, Linked, Admitting
<1>6. Live(reqs'[r]) <=> Live(reqs[r])
    BY <1>3, <1>4 DEF Live
<1>7. XClosersKnow /\ xAccesses \subseteq XReqs
    BY DEF XCore, XParts, XAdmissionTypeOK
<1>8. XClosersKnow'
    BY <1>1, <1>3, <1>4, <1>7, XClosersStay DEF XClosersKnow
<1>9. xAccesses' \subseteq XReqs
    BY <1>1, <1>7
<1> QED
    BY <1>1, <1>4, <1>5, <1>6, <1>8, <1>9, XQuiet

\* onClose: the access and the reference go.
LEMMA CloseUnlistStep ==
    ASSUME XCore, NEW r \in XReqs, OnCloseUnlist(r)
    PROVE  XCore'
<1>1. /\ reqs[r].life = "closing" /\ xAccesses' = xAccesses \ {r}
      /\ userIPs' = XDrop(userIPs, reqs[r].source)
      /\ UNCHANGED <<fixedVars, attached, emailKnown, userConns, connCount, relaySources,
                     xGlobal, xAllowed, xUpdater, stranded, exempt>>
    BY DEF OnCloseUnlist
<1>2. /\ XSound(reqs[r], Managed) /\ reqs[r].permit \in XPermits /\ reqs[r].at \in XSteps
      /\ reqs[r].slot \in BOOLEAN /\ "unlisted" \in XLives
    BY XSoundReq DEF XLives
<1>3. /\ reqs' = [reqs EXCEPT ![r] = reqs'[r]] /\ reqs'[r] \in XRequests
      /\ reqs'[r].at = reqs[r].at /\ reqs'[r].life = "unlisted"
      /\ reqs'[r].listed = FALSE /\ reqs'[r].slot = reqs[r].slot
      /\ reqs'[r].source = reqs[r].source
  <2> DEFINE no == FALSE
  <2>1. no \in BOOLEAN /\ XBecome(r, reqs[r].at, "unlisted", no, reqs[r].slot, reqs[r].permit)
      BY DEF OnCloseUnlist
  <2> HIDE DEF no
  <2>2. /\ reqs' = [reqs EXCEPT ![r] = reqs'[r]] /\ reqs'[r] \in XRequests
        /\ reqs'[r].at = reqs[r].at /\ reqs'[r].life = "unlisted"
        /\ reqs'[r].listed = no /\ reqs'[r].slot = reqs[r].slot
        /\ reqs'[r].source = reqs[r].source
      BY <1>2, <2>1, XBecomeIs
  <2> QED
      BY <2>2 DEF no
<1>4. XSound(reqs'[r], Managed)
    BY <1>1, <1>2, <1>3 DEF XSound, Linked, Admitting
<1>5. Live(reqs'[r]) /\ Live(reqs[r])
    BY <1>1, <1>3 DEF Live
<1>6. reqs[r].listed
    BY <1>1, <1>2 DEF XSound
<1>7. /\ userIPs' \in [XSources -> Int]
      /\ \A t \in XSources : userIPs'[t] = userIPs[t] - Refs(reqs[r], t)
      /\ XKeys' \subseteq XKeys
  <2>1. userIPs' = IF reqs[r].listed THEN XDrop(userIPs, reqs[r].source) ELSE userIPs
      BY <1>1, <1>6
  <2> QED
      BY <2>1, XDropRefs
<1>8. /\ userConns \in Int /\ userConns <= xLimit /\ userIPs \in [XSources -> Int]
      /\ stranded \in [XSources -> Nat] /\ exempt \subseteq XSources
    BY DEF XCore, XParts, XAdmissionTypeOK, WithinLimit
<1>9. \A s \in XSources : userIPs'[s] - stranded'[s] =
               userIPs[s] - stranded[s] - Refs(reqs[r], s) + Refs(reqs'[r], s)
  <2> SUFFICES ASSUME NEW s \in XSources
               PROVE  userIPs'[s] - stranded[s] =
                         userIPs[s] - stranded[s] - Refs(reqs[r], s) + Refs(reqs'[r], s)
      BY <1>1
  <2>1. Refs(reqs'[r], s) = 0 /\ Refs(reqs[r], s) \in Int
      BY <1>3 DEF Refs
  <2>2. userIPs[s] \in Int /\ stranded[s] \in Int
      BY <1>8
  <2> QED
      BY <1>7, <2>1, <2>2
<1>10. /\ userConns' = userConns - (IF reqs[r].slot THEN 1 ELSE 0)
                                 + (IF reqs'[r].slot THEN 1 ELSE 0)
       /\ userConns' \in Int /\ userConns' <= xLimit
    BY <1>1, <1>3, <1>8
<1>11. XDevicesFit'
    BY <1>1, <1>7, XDevicesFewer
<1>12. XClosersKnow /\ xAccesses \subseteq XReqs
    BY DEF XCore, XParts, XAdmissionTypeOK
<1>13. XClosersKnow' /\ xAccesses' \subseteq XReqs
    BY <1>1, <1>3, <1>12, XClosersStay DEF XClosersKnow
<1>14. stranded' \in [XSources -> Nat] /\ exempt' \subseteq XSources
    BY <1>1, <1>8
<1> QED
    BY <1>1, <1>3, <1>4, <1>5, <1>7, <1>9, <1>10, <1>11, <1>13, <1>14, XUnlinked

\* onClose: the source, the slot, the count and the permit go.
LEMMA CloseReleaseStep ==
    ASSUME XCore, NEW r \in XReqs, OnCloseRelease(r)
    PROVE  XCore'
<1> DEFINE src == reqs[r].source
<1>1. /\ reqs[r].life = "unlisted"
      /\ relaySources' = IF xRelay THEN XDrop(relaySources, src) ELSE relaySources
      /\ userConns' = IF reqs[r].slot THEN userConns - 1 ELSE userConns
      /\ connCount' = connCount - 1
      /\ UNCHANGED <<fixedVars, attached, emailKnown, userIPs, xGlobal, accessState,
                     stranded, exempt>>
    BY DEF OnCloseRelease
<1>2. /\ XSound(reqs[r], Managed) /\ reqs[r].at \in XSteps
      /\ reqs[r].listed \in BOOLEAN /\ src \in XSources
      /\ "done" \in XLives /\ "none" \in XPermits
    BY XSoundReq DEF XLives, XPermits
<1>3. /\ reqs' = [reqs EXCEPT ![r] = reqs'[r]] /\ reqs'[r] \in XRequests
      /\ reqs'[r].at = reqs[r].at /\ reqs'[r].life = "done"
      /\ reqs'[r].listed = reqs[r].listed /\ reqs'[r].slot = FALSE
      /\ reqs'[r].source = src
  <2> DEFINE no == FALSE
  <2>1. no \in BOOLEAN /\ XBecome(r, reqs[r].at, "done", reqs[r].listed, no, "none")
      BY DEF OnCloseRelease
  <2> HIDE DEF no
  <2>2. /\ reqs' = [reqs EXCEPT ![r] = reqs'[r]] /\ reqs'[r] \in XRequests
        /\ reqs'[r].at = reqs[r].at /\ reqs'[r].life = "done"
        /\ reqs'[r].listed = reqs[r].listed /\ reqs'[r].slot = no
        /\ reqs'[r].source = reqs[r].source
      BY <1>2, <2>1, XBecomeIs
  <2> QED
      BY <2>2 DEF no
<1>4. XSound(reqs'[r], Managed)
    BY <1>1, <1>2, <1>3 DEF XSound, Linked, Admitting
<1>5. ~Live(reqs'[r]) /\ Live(reqs[r])
    BY <1>1, <1>3 DEF Live
<1>6. /\ userConns \in Int /\ connCount \in Int /\ userIPs \in [XSources -> Int]
      /\ relaySources \in [XSources -> Int] /\ stranded \in [XSources -> Nat]
      /\ exempt \subseteq XSources /\ userConns <= xLimit /\ xLimit \in Int
    BY XAdmissionAssumption DEF XCore, XParts, XAdmissionTypeOK, WithinLimit
<1>7. /\ userConns' = userConns - (IF reqs[r].slot THEN 1 ELSE 0)
                                + (IF reqs'[r].slot THEN 1 ELSE 0)
      /\ userConns' \in Int /\ userConns' <= xLimit
  <2>1. CASE reqs[r].slot
      BY <1>1, <1>3, <1>6, <2>1
  <2>2. CASE ~reqs[r].slot
      BY <1>1, <1>3, <1>6, <2>2
  <2> QED
      BY <2>1, <2>2
<1>8. /\ connCount' = connCount - (IF Live(reqs[r]) THEN 1 ELSE 0)
                                + (IF Live(reqs'[r]) THEN 1 ELSE 0)
      /\ connCount' \in Int
    BY <1>1, <1>5, <1>6
<1>9. \A s \in XSources : userIPs'[s] - stranded'[s] =
               userIPs[s] - stranded[s] - Refs(reqs[r], s) + Refs(reqs'[r], s)
  <2> SUFFICES ASSUME NEW s \in XSources
               PROVE  userIPs[s] - stranded[s] =
                         userIPs[s] - stranded[s] - Refs(reqs[r], s) + Refs(reqs'[r], s)
      BY <1>1
  <2>1. Refs(reqs'[r], s) = Refs(reqs[r], s) /\ Refs(reqs[r], s) \in Int
      BY <1>3 DEF Refs
  <2>2. userIPs[s] \in Int /\ stranded[s] \in Int
      BY <1>6
  <2> QED
      BY <2>1, <2>2
<1>10. /\ relaySources' \in [XSources -> Int]
       /\ \A s \in XSources : relaySources'[s] =
             IF xRelay THEN relaySources[s] - Links(reqs[r], s) + Links(reqs'[r], s)
             ELSE relaySources[s]
  <2> DEFINE t == src
  <2>1. t \in XSources /\ (xRelay => relaySources[t] > 0)
      BY <1>2, <1>5, XCountedIsPositive
  <2>2. \A s \in XSources : Links(reqs'[r], s) = 0 /\ Links(reqs[r], s) = IF t = s THEN 1 ELSE 0
      BY <1>5 DEF Links
  <2> HIDE DEF t
  <2>3. /\ XDrop(relaySources, t) \in [XSources -> Int]
        /\ \A s \in XSources : relaySources[t] > 0 =>
              XDrop(relaySources, t)[s] = relaySources[s] - (IF t = s THEN 1 ELSE 0)
      BY <1>6, <2>1, XBags
  <2>4. relaySources' = IF xRelay THEN XDrop(relaySources, t) ELSE relaySources
      BY <1>1 DEF t
  <2>5. \A s \in XSources : relaySources[s] \in Int
      BY <1>6
  <2> QED
      BY <1>6, <2>1, <2>2, <2>3, <2>4, <2>5
<1>11. XDevicesFit'
  <2>1. XKeys' = XKeys
      BY <1>1 DEF XKeys
  <2> QED
      BY <1>1, <2>1, XDevicesFewer
<1>12. XClosersKnow' /\ xAccesses' \subseteq XReqs /\ UNCHANGED <<xAllowed, xUpdater>>
    BY <1>1, <1>3, XTableStays DEF accessState
<1>13. userIPs' \in [XSources -> Int] /\ stranded' \in [XSources -> Nat] /\ exempt' \subseteq XSources
    BY <1>1, <1>6
<1> QED
    BY <1>1, <1>3, <1>4, <1>7, <1>8, <1>9, <1>10, <1>11, <1>12, <1>13, XMove

\* The goroutine returns and holds nothing.
LEMMA ReturnedStep ==
    ASSUME XCore, NEW r \in XReqs, Returned(r)
    PROVE  XCore'
<1>1. /\ reqs[r].life = "done" /\ XRefused(r)
      /\ UNCHANGED <<fixedVars, attached, emailKnown, countVars, xGlobal, accessState,
                     stranded, exempt>>
    BY DEF Returned, accessState
<1>2. ~reqs[r].slot /\ ~reqs[r].listed /\ ~Live(reqs[r])
    BY <1>1, XSoundReq DEF XSound, Live
<1> QED
    BY <1>1, <1>2, XQuietEnd

-----------------------------------------------------------------------------
(* The kernel and the panel.                                                *)

\* A step that changes no count.
LEMMA XNoCount ==
    ASSUME XCore, UNCHANGED <<fixedVars, countVars, stranded, exempt>>, Managed => Managed',
           SlotsOf(reqs') = SlotsOf(reqs), LiveOf(reqs') = LiveOf(reqs),
           \A s \in XSources : /\ ListedAt(reqs', s) = ListedAt(reqs, s)
                               /\ LiveAt(reqs', s) = LiveAt(reqs, s),
           \A r \in XReqs : XSound(reqs'[r], Managed'),
           XAdmissionTypeOK', XClosersKnow'
    PROVE  XCore'
<1>1. /\ userConns' = userConns /\ connCount' = connCount /\ userIPs' = userIPs
      /\ relaySources' = relaySources /\ stranded' = stranded /\ exempt' = exempt
      /\ xRelay' = xRelay /\ xLimit' = xLimit
    BY DEF fixedVars, countVars
<1>2. XParts
    BY DEF XCore
<1>3. (ReqPhases /\ PermitsLast)'
    BY XSoundParts
<1>4. SlotsBook' /\ LiveBook'
  <2>1. userConns' = Cardinality(SlotsOf(reqs')) /\ connCount' = Cardinality(LiveOf(reqs'))
      BY <1>1, <1>2 DEF XParts, SlotsBook, LiveBook
  <2> QED
      BY <2>1 DEF SlotsBook, LiveBook, SlotsOf, LiveOf
<1>5. ListedBook'
  <2>1. \A s \in XSources : userIPs'[s] = stranded'[s] + Cardinality(ListedAt(reqs', s))
      BY <1>1, <1>2 DEF XParts, ListedBook
  <2> QED
      BY <2>1 DEF ListedBook, ListedAt
<1>6. RelayBook'
  <2>1. \A s \in XSources :
           relaySources'[s] = IF ~xRelay' THEN 0 ELSE Cardinality(LiveAt(reqs', s))
      BY <1>1, <1>2 DEF XParts, RelayBook
  <2> QED
      BY <2>1 DEF RelayBook, LiveAt
<1>7. WithinLimit'
    BY <1>1, <1>2 DEF XParts, WithinLimit
<1>8. NoneStranded'
    BY <1>1, <1>2 DEF XParts, NoneStranded
<1>9. XDevicesFit'
  <2>1. XKeys' = XKeys
      BY <1>1 DEF XKeys
  <2> QED
      BY <1>1, <1>2, <2>1 DEF XParts, XDevicesFit
<1> QED
    BY <1>3, <1>4, <1>5, <1>6, <1>7, <1>8, <1>9 DEF XCore, XParts

\* No request takes a step: the gate is attached, the users and the other
\* nodes change, the table is emptied.
LEMMA KernelSteps ==
    ASSUME XCore, \/ Attach \/ UpdateLimits \/ XReplace \/ XUpdateGlobalDevices
                  \/ UNCHANGED xAdmissionVars
    PROVE  XCore'
<1>1. /\ reqs' = reqs /\ UNCHANGED <<fixedVars, countVars, stranded, exempt>>
      /\ (attached => attached')
    BY DEF Attach, UpdateLimits, XReplace, XUpdateGlobalDevices, xAdmissionVars
<1>2. Managed => Managed'
    BY <1>1 DEF Managed, fixedVars
<1>3. \A r \in XReqs : XSound(reqs'[r], Managed')
  <2>1. \A r \in XReqs : XSound(reqs[r], Managed)
      BY XSoundReq
  <2> QED
      BY <1>1, <1>2, <2>1 DEF XSound
<1>4. XAdmissionTypeOK
    BY DEF XCore
<1>5. XAdmissionTypeOK'
  <2>1. CASE Attach
      BY <1>4, <2>1 DEF Attach, XAdmissionTypeOK, fixedVars, countVars, accessState
  <2>2. CASE UpdateLimits
      BY <1>4, <2>2 DEF UpdateLimits, XAdmissionTypeOK, fixedVars, countVars
  <2>3. CASE XReplace
      BY <1>4, <2>3 DEF XReplace, XAdmissionTypeOK, fixedVars, countVars
  <2>4. CASE XUpdateGlobalDevices
      BY <1>4, <2>4 DEF XUpdateGlobalDevices, XAdmissionTypeOK, fixedVars, countVars, accessState
  <2>5. CASE UNCHANGED xAdmissionVars
      BY <1>4, <2>5 DEF xAdmissionVars, XAdmissionTypeOK, fixedVars, countVars, accessState
  <2> QED
      BY <2>1, <2>2, <2>3, <2>4, <2>5
<1>6. XClosersKnow'
  <2>1. XClosersKnow /\ xRelay' = xRelay
      BY <1>1 DEF XCore, XParts, fixedVars
  <2>2. CASE Attach \/ XUpdateGlobalDevices \/ UNCHANGED xAdmissionVars
    <3>1. UNCHANGED <<xAllowed, xUpdater, xAccesses>>
        BY <2>2 DEF Attach, XUpdateGlobalDevices, xAdmissionVars, accessState
    <3> QED
        BY <1>1, <2>1, <3>1 DEF XClosersKnow
  <2>3. CASE UpdateLimits
    <3>1. /\ xUpdater.close = {} /\ xUpdater' = [at |-> "access", close |-> {}]
          /\ UNCHANGED <<xAllowed, xAccesses>>
        BY <2>1, <2>3 DEF UpdateLimits, XClosersKnow
    <3>2. xUpdater'.close = {}
        BY <3>1
    <3> QED
        BY <1>1, <2>1, <3>1, <3>2 DEF XClosersKnow
  <2>4. CASE XReplace
    <3>1. xUpdater.close = {} /\ xUpdater'.at = "close"
        BY <2>1, <2>4 DEF XReplace, XClosersKnow
    <3>2. xAccesses' \cup xUpdater'.close = xAccesses
        BY <2>4 DEF XReplace
    <3>3. ~xAllowed' => xAccesses' = {}
        BY <2>4 DEF XReplace
    <3> QED
        BY <1>1, <2>1, <3>1, <3>2, <3>3 DEF XClosersKnow
  <2> QED
      BY <2>2, <2>3, <2>4
<1> QED
    BY <1>1, <1>2, <1>3, <1>5, <1>6, XNoCount

\* The links of those who are gone are closed.
LEMMA XCloseDisallowedStep ==
    ASSUME XCore, XCloseDisallowed
    PROVE  XCore'
<1>1. /\ reqs' = [r \in XReqs |-> IF r \in xUpdater.close /\ reqs[r].life = "open"
                                  THEN [reqs[r] EXCEPT !.life = "closing"] ELSE reqs[r]]
      /\ xUpdater' = [at |-> "idle", close |-> {}]
      /\ UNCHANGED <<fixedVars, attached, emailKnown, countVars, xGlobal,
                     xAllowed, xAccesses, stranded, exempt>>
    BY DEF XCloseDisallowed
<1>2. XAdmissionTypeOK /\ XClosersKnow /\ reqs \in [XReqs -> XRequests]
    BY DEF XCore, XParts, XAdmissionTypeOK
<1>3. ASSUME NEW r \in XReqs
      PROVE  /\ reqs'[r] \in XRequests
             /\ reqs'[r].slot = reqs[r].slot /\ reqs'[r].listed = reqs[r].listed
             /\ reqs'[r].source = reqs[r].source /\ reqs'[r].at = reqs[r].at
             /\ reqs'[r].permit = reqs[r].permit
             /\ reqs'[r].life = IF r \in xUpdater.close /\ reqs[r].life = "open"
                                THEN "closing" ELSE reqs[r].life
  <2> DEFINE q == reqs[r]
  <2>1. q \in XRequests
      BY <1>2
  <2>2. reqs'[r] = IF r \in xUpdater.close /\ q.life = "open"
                   THEN [q EXCEPT !.life = "closing"] ELSE q
      BY <1>1
  <2> HIDE DEF q
  <2>3. CASE r \in xUpdater.close /\ q.life = "open"
    <3>1. /\ [q EXCEPT !.life = "closing"] \in XRequests
          /\ [q EXCEPT !.life = "closing"].slot = q.slot
          /\ [q EXCEPT !.life = "closing"].listed = q.listed
          /\ [q EXCEPT !.life = "closing"].source = q.source
          /\ [q EXCEPT !.life = "closing"].at = q.at
          /\ [q EXCEPT !.life = "closing"].permit = q.permit
          /\ [q EXCEPT !.life = "closing"].life = "closing"
        BY <2>1 DEF XRequests
    <3> QED
        BY <2>2, <2>3, <3>1 DEF q
  <2>4. CASE ~(r \in xUpdater.close /\ q.life = "open")
      BY <2>1, <2>2, <2>4 DEF q
  <2> QED
      BY <2>3, <2>4
<1>4. \A r \in XReqs : Live(reqs'[r]) <=> Live(reqs[r])
    BY <1>3 DEF Live
<1>5. /\ SlotsOf(reqs') = SlotsOf(reqs) /\ LiveOf(reqs') = LiveOf(reqs)
      /\ \A s \in XSources : /\ ListedAt(reqs', s) = ListedAt(reqs, s)
                             /\ LiveAt(reqs', s) = LiveAt(reqs, s)
    BY <1>3, <1>4 DEF SlotsOf, LiveOf, ListedAt, LiveAt
<1>6. Managed' <=> Managed
    BY <1>1 DEF Managed, fixedVars
<1>7. \A r \in XReqs : XSound(reqs'[r], Managed')
  <2> SUFFICES ASSUME NEW r \in XReqs PROVE XSound(reqs'[r], Managed)
      BY <1>6 DEF XSound
  <2>1. XSound(reqs[r], Managed)
      BY XSoundReq
  <2>2. CASE r \in xUpdater.close /\ reqs[r].life = "open"
    <3>1. reqs'[r].life = "closing"
        BY <1>3, <2>2
    <3> QED
        BY <1>3, <2>1, <2>2, <3>1 DEF XSound
  <2>3. CASE ~(r \in xUpdater.close /\ reqs[r].life = "open")
    <3>1. reqs'[r].life = reqs[r].life
        BY <1>3, <2>3
    <3> QED
        BY <1>3, <2>1, <3>1 DEF XSound
  <2> QED
      BY <2>2, <2>3
<1>8. reqs' \in [XReqs -> XRequests]
  <2>1. \A r \in XReqs : reqs'[r] \in XRequests
      BY <1>3
  <2>2. reqs' = [r \in XReqs |-> reqs'[r]]
      BY <1>1
  <2> QED
      BY <2>1, <2>2
<1>9. XAdmissionTypeOK'
    BY <1>1, <1>2, <1>8 DEF XAdmissionTypeOK, fixedVars, countVars
<1>10. XClosersKnow'
  <2>1. xUpdater'.close = {} /\ xUpdater'.at = "idle" /\ xRelay' = xRelay
        /\ UNCHANGED <<xAllowed, xAccesses>>
      BY <1>1 DEF fixedVars
  <2>2. ASSUME NEW r \in XReqs, xRelay, reqs'[r].at \in {"registered", "open"},
               reqs'[r].life = "open"
        PROVE  r \in xAccesses
    <3>1. reqs[r].life = "open" /\ r \notin xUpdater.close
        BY <1>3, <2>2
    <3> QED
        BY <1>2, <1>3, <2>2, <3>1 DEF XClosersKnow
  <2> QED
      BY <1>2, <2>1, <2>2 DEF XClosersKnow
<1> QED
    BY <1>1, <1>5, <1>6, <1>7, <1>9, <1>10, XNoCount

-----------------------------------------------------------------------------
(* The theorems.                                                            *)

\* The initial states.
LEMMA XInitially == XAdmissionInit => XCore
<1> SUFFICES ASSUME XAdmissionInit PROVE XCore
    OBVIOUS
<1>1. /\ xGated \in BOOLEAN /\ xRelay \in BOOLEAN /\ xLimit \in XConnLimits
      /\ attached = FALSE /\ emailKnown = TRUE
      /\ userIPs = NoRefs /\ userConns = 0 /\ connCount = 0 /\ relaySources = NoRefs
      /\ xGlobal = XNoSnapshot
      /\ xAllowed = TRUE /\ xAccesses = {} /\ xUpdater = [at |-> "idle", close |-> {}]
      /\ stranded = NoRefs /\ exempt = {}
    BY DEF XAdmissionInit
<1>2. /\ NewReq \in XRequests
      /\ NewReq.at = "none" /\ NewReq.life = "none" /\ NewReq.permit = "none"
      /\ NewReq.listed = FALSE /\ NewReq.slot = FALSE
    BY XAdmissionAssumption DEF NewReq, XRequests
<1>3. reqs \in [XReqs -> XRequests] /\ \A r \in XReqs : reqs[r] = NewReq
    BY <1>2 DEF XAdmissionInit
<1> HIDE DEF NewReq
<1>4. /\ NoRefs \in [XSources -> Nat] /\ NoRefs \in [XSources -> Int]
      /\ \A s \in XSources : NoRefs[s] = 0
    BY DEF NoRefs
<1>5. XAdmissionTypeOK
  <2>1. xUpdater \in [at : {"idle", "access", "close"}, close : SUBSET XReqs]
      BY <1>1
  <2>2. /\ userIPs \in [XSources -> Int] /\ relaySources \in [XSources -> Int]
        /\ stranded \in [XSources -> Nat] /\ userConns \in Int /\ connCount \in Int
      BY <1>1, <1>4
  <2> QED
      BY <1>1, <1>3, <2>1, <2>2 DEF XAdmissionTypeOK
<1>6. ReqPhases /\ PermitsLast
  <2>1. XSound(NewReq, Managed)
      BY <1>2 DEF XSound, Linked, Admitting
  <2>2. \A r \in XReqs : XSound(reqs[r], Managed)
      BY <1>3, <2>1
  <2> QED
      BY <2>2, XSoundParts
<1>7. NoneStranded
    BY <1>1, <1>4 DEF NoneStranded
<1>8. XClosersKnow
    BY <1>1, <1>2, <1>3 DEF XClosersKnow
<1>9. /\ Cardinality({}) = 0 /\ \A s \in XSources : userIPs[s] = 0 /\ stranded[s] = 0
    BY <1>1, <1>4, FS_EmptySet
<1>10. SlotsBook /\ LiveBook /\ ListedBook /\ RelayBook
  <2>1. /\ SlotsOf(reqs) = {} /\ LiveOf(reqs) = {}
        /\ \A s \in XSources : ListedAt(reqs, s) = {} /\ LiveAt(reqs, s) = {}
      BY <1>2, <1>3 DEF SlotsOf, LiveOf, ListedAt, LiveAt, Live
  <2>2. SlotsBook /\ LiveBook
      BY <1>1, <1>9, <2>1 DEF SlotsBook, LiveBook
  <2>3. ListedBook
    <3> SUFFICES ASSUME NEW s \in XSources
                 PROVE  userIPs[s] = stranded[s] + Cardinality(ListedAt(reqs, s))
        BY DEF ListedBook
    <3>1. ListedAt(reqs, s) = {}
        BY <2>1
    <3>2. Cardinality(ListedAt(reqs, s)) = 0
        BY <1>9, <3>1
    <3> QED
        BY <1>9, <3>2
  <2>4. RelayBook
    <3> SUFFICES ASSUME NEW s \in XSources
                 PROVE  relaySources[s] = IF ~xRelay THEN 0 ELSE Cardinality(LiveAt(reqs, s))
        BY DEF RelayBook
    <3>1. LiveAt(reqs, s) = {} /\ relaySources[s] = 0
        BY <1>1, <1>4, <2>1
    <3>2. Cardinality(LiveAt(reqs, s)) = 0
        BY <1>9, <3>1
    <3> QED
        BY <3>1, <3>2
  <2> QED
      BY <2>2, <2>3, <2>4
<1>11. WithinLimit
    BY <1>1, XAdmissionAssumption DEF WithinLimit
<1>12. XDevicesFit
  <2>1. XKeys \ exempt = {}
      BY <1>9 DEF XKeys
  <2> QED
      BY <1>9, <2>1, XAdmissionAssumption DEF XDevicesFit
<1> QED
    BY <1>5, <1>6, <1>7, <1>8, <1>10, <1>11, <1>12 DEF XCore, XParts

\* Every step keeps the invariant.
LEMMA XStepKeeps == XCore /\ [XAdmissionNext]_xAdmissionVars => XCore'
<1> SUFFICES ASSUME XCore, [XAdmissionNext]_xAdmissionVars PROVE XCore'
    OBVIOUS
<1>1. ASSUME NEW r \in XReqs,
             \/ Identify(r) \/ CheckDeviceLimit(r) \/ TakeSlot(r) \/ TakeToken(r) \/ Unlist(r)
             \/ XAcquire(r) \/ XRevalidate(r) \/ XGateRevoke(r)
             \/ DispatchFails(r) \/ TrackLink(r) \/ XRegister(r) \/ XBind(r)
             \/ WriterCloses(r) \/ OnCloseUnlist(r) \/ OnCloseRelease(r) \/ Returned(r)
      PROVE  XCore'
    BY <1>1, IdentifyStep, CheckDeviceStep, SlotSteps, DropSteps, AcquireStep, RevalidateStep,
       LinkStateSteps, TrackLinkStep, XRegisterStep, CloseUnlistStep, CloseReleaseStep, ReturnedStep
<1>2. CASE \/ Attach \/ UpdateLimits \/ XReplace \/ XUpdateGlobalDevices
           \/ UNCHANGED xAdmissionVars
    BY <1>2, KernelSteps
<1>3. CASE XCloseDisallowed
    BY <1>3, XCloseDisallowedStep
<1> QED
    BY <1>1, <1>2, <1>3 DEF XAdmissionNext

\* The invariant holds in every state.
LEMMA XCoreAlways == XAdmissionSpec => []XCore
<1> QED
    BY XInitially, XStepKeeps, PTL DEF XAdmissionSpec

\* What the invariant is for.
LEMMA XCoreSuffices == XCore => XAdmissionTypeOK /\ XAdmissionInv
<1> SUFFICES ASSUME XCore PROVE XAdmissionTypeOK /\ XAdmissionInv
    OBVIOUS
<1>1. XAdmissionTypeOK /\ XParts
    BY DEF XCore
<1>2. XLineClosed
    BY <1>1 DEF XParts, XClosersKnow, XLineClosed
<1> QED
    BY <1>1, <1>2, XHoldsParts DEF XParts, XAdmissionInv

\* Every counter, table and record of a request has its type, in every
\* interleaving of the requests with closing, revocation, the users that
\* change and the gate that is attached late.
THEOREM XAdmissionTypesCorrect == XAdmissionSpec => []XAdmissionTypeOK
<1> QED
    BY XCoreAlways, XCoreSuffices, PTL

\* For any number of requests and sources: slots, references and counts are
\* those of the requests under way and within the limits, a reference stays
\* for good only behind the gate, no link of a line stays open when the users
\* without it are in force, and an open link has its permit.
THEOREM XLimitsHold == XAdmissionSpec => []XAdmissionHolds
<1>1. XCore => XAdmissionHolds
    BY XCoreSuffices DEF XAdmissionInv
<1> QED
    BY <1>1, XCoreAlways, PTL

==============================================================================
