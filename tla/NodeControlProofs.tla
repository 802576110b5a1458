------------------------- MODULE NodeControlProofs -------------------------
(***************************************************************************)
(* Theorems about how a node follows the panel (service.go): what runs is  *)
(* what is wanted, what failed is not started again, and no user the panel *)
(* removed comes back.                                                     *)
(***************************************************************************)
EXTENDS NodeControl, TLAPS

-----------------------------------------------------------------------------
(***************************************************************************)
(* The operations of the runtime.                                          *)
(***************************************************************************)
\* The version is as it was, and no answer to a poll is made up.
SameControl(s, t) ==
    /\ t.gate = s.gate
    /\ t.pull.stage = "result" => s.pull.stage = "result" /\ t.pull.snap = s.pull.snap

\* No kernel that a failure stopped.
Settled(s) == s.kernel.running => s.failed = None

\* The attempt that the running kernel is the outcome of.
Outcome(s) == <<s.kernel.config, s.kernel.users, s.kernel.cert>>

\* A kernel that runs now ran before or was started with the certificate of
\* today, and this has not failed before.
Started(s, t) ==
    t.kernel.running =>
        /\ t.kernel.cert = cert \/ (s.kernel.running /\ t.kernel.cert = s.kernel.cert)
        /\ ~s.kernel.running /\ s.failed # None => Outcome(t) # s.failed.attempt

\* A stopped kernel has a type.
LEMMA StoppedType ==
    Stopped \in [running : BOOLEAN, config : Hashes \cup {None}, users : SUBSET UserIds,
                 cert : Nat]
BY DEF Stopped

\* failRuntime leaves a stopped kernel and remembers what was attempted.
LEMMA FailStops ==
    ASSUME NEW s \in Services, s.config \in Configs, cert \in Nat, NEW r \in BOOLEAN
    PROVE  /\ failRuntime(s, r) \in Services /\ Coherent(failRuntime(s, r))
           /\ SameControl(s, failRuntime(s, r))
           /\ failRuntime(s, r).config = s.config /\ failRuntime(s, r).users = s.users
           /\ ~failRuntime(s, r).kernel.running
<1> DEFINE f == [attempt |-> Attempt(s), retry |-> r]
           t == failRuntime(s, r)
<1>1. Attempt(s) \in Attempts /\ Attempt(s) = <<KernelHash[s.config], s.users, cert>>
    BY DEF Attempt, Attempts, Hashes, Services
<1>2. f \in [attempt : Attempts, retry : BOOLEAN] /\ f.attempt = Attempt(s)
    BY <1>1
<1> HIDE DEF f
<1>3. /\ t = [s EXCEPT !.failed = f, !.kernel = Stopped, !.applied = FALSE, !.skipped = FALSE]
    BY DEF failRuntime, f
<1> HIDE DEF t
<1>4. /\ t \in Services
      /\ t.config = s.config /\ t.users = s.users /\ t.kernel = Stopped
      /\ t.failed = f /\ t.applied = FALSE /\ SameControl(s, t)
    BY <1>2, <1>3, StoppedType DEF Services, SameControl
<1>5. Coherent(t) /\ ~t.kernel.running
    BY <1>1, <1>2, <1>4 DEF Coherent, Stopped
<1> QED
    BY <1>4, <1>5 DEF t

\* runtimeApplied leaves a kernel that runs all that is wanted.
LEMMA AppliedRuns ==
    ASSUME NEW s \in Services, s.config \in Configs, cert \in Nat,
           s.config \in Landing => s.users = {}
    PROVE  /\ runtimeApplied(s) \in Services /\ Coherent(runtimeApplied(s))
           /\ SameControl(s, runtimeApplied(s))
           /\ runtimeApplied(s).config = s.config /\ runtimeApplied(s).users = s.users
           /\ runtimeApplied(s).kernel.running
           /\ Outcome(runtimeApplied(s)) = Attempt(s)
           /\ runtimeApplied(s).kernel.cert = cert
<1> DEFINE k == [running |-> TRUE, config |-> KernelHash[s.config], users |-> s.users,
                 cert |-> cert]
           t == runtimeApplied(s)
<1>1. /\ k \in [running : BOOLEAN, config : Hashes \cup {None}, users : SUBSET UserIds, cert : Nat]
      /\ k.running /\ k.config = KernelHash[s.config] /\ k.users = s.users /\ k.cert = cert
    BY DEF Hashes, Services
<1> HIDE DEF k
<1>2. t = [s EXCEPT !.failed = None, !.applied = TRUE, !.skipped = FALSE, !.kernel = k]
    BY DEF runtimeApplied, k
<1> HIDE DEF t
<1>3. /\ t \in Services
      /\ t.config = s.config /\ t.users = s.users /\ t.kernel = k
      /\ t.failed = None /\ SameControl(s, t)
    BY <1>1, <1>2 DEF Services, SameControl
<1>4. Coherent(t)
    BY <1>1, <1>3 DEF Coherent
<1>5. Outcome(t) = Attempt(s)
    BY <1>1, <1>3 DEF Outcome, Attempt
<1> QED
    BY <1>1, <1>3, <1>4, <1>5 DEF t

\* Without users the kernel stays stopped, and this is no failure.
LEMMA IdleStops ==
    ASSUME NEW s \in Services, s.config \in Configs
    PROVE  /\ runtimeIdle(s) \in Services /\ Coherent(runtimeIdle(s))
           /\ SameControl(s, runtimeIdle(s))
           /\ runtimeIdle(s).config = s.config /\ runtimeIdle(s).users = s.users
           /\ ~runtimeIdle(s).kernel.running
<1> DEFINE t == runtimeIdle(s)
<1>1. t = [s EXCEPT !.failed = None, !.applied = FALSE, !.skipped = FALSE, !.kernel = Stopped]
    BY DEF runtimeIdle
<1> HIDE DEF t
<1>2. /\ t \in Services
      /\ t.config = s.config /\ t.users = s.users /\ t.kernel = Stopped
      /\ t.failed = None /\ t.applied = FALSE /\ SameControl(s, t)
    BY <1>1, StoppedType DEF Services, SameControl
<1>3. Coherent(t) /\ ~t.kernel.running
    BY <1>2 DEF Coherent, Stopped
<1> QED
    BY <1>2, <1>3 DEF t

\* The users a configuration leaves to the kernel.
Served(s) == IF s.config \in Landing THEN {} ELSE s.users

\* applyChanges starts what is wanted, remembers that it failed, or lets what
\* has failed before alone.
LEMMA ApplyChangesStep ==
    ASSUME NEW s \in Services, s.config \in Configs, cert \in Nat,
           Settled(s), NEW t \in applyChanges(s)
    PROVE  /\ t \in Services /\ Coherent(t) /\ SameControl(s, t) /\ Started(s, t)
           /\ t.config = s.config /\ t.users = Served(s)
           /\ s.failed # None /\ s.failed.attempt = <<KernelHash[s.config], Served(s), cert>>
                => t.failed = s.failed
<1> DEFINE u == IF s.config \in Landing THEN [s EXCEPT !.users = {}] ELSE s
<1>1. /\ u \in Services /\ u.config = s.config /\ u.users = Served(s) /\ u.failed = s.failed
      /\ SameControl(s, u) /\ u.kernel = s.kernel /\ u.applied = s.applied
    BY DEF Services, Served, SameControl
<1>2. s.config # None
    BY ControlAssumption
<1>3. t \in IF Blocked(u) THEN {u}
            ELSE {failRuntime(u, r) : r \in BOOLEAN} \cup
                 {IF u.users = {} /\ u.config \notin Landing THEN runtimeIdle(u)
                  ELSE runtimeApplied(u)}
    BY <1>2 DEF applyChanges
<1> HIDE DEF u
<1>4. u.config \in Landing => u.users = {}
    BY <1>1 DEF Served
<1>5. Attempt(u) = <<KernelHash[s.config], Served(s), cert>>
    BY <1>1 DEF Attempt
<1>6. ASSUME Blocked(u)
      PROVE  /\ t \in Services /\ Coherent(t) /\ SameControl(s, t) /\ Started(s, t)
             /\ t.config = s.config /\ t.users = Served(s) /\ t.failed = s.failed
    <2>1. t = u /\ s.failed # None /\ s.failed.attempt = <<KernelHash[s.config], Served(s), cert>>
        BY <1>1, <1>3, <1>5, <1>6 DEF Blocked
    <2>2. ~t.kernel.running
        BY <1>1, <2>1 DEF Settled
    <2>3. Coherent(t)
        BY <1>1, <2>1, <2>2 DEF Coherent
    <2> QED
        BY <1>1, <2>1, <2>2, <2>3 DEF Started, SameControl
<1>7. ASSUME ~Blocked(u)
      PROVE  /\ t \in Services /\ Coherent(t) /\ SameControl(u, t)
             /\ t.config = u.config /\ t.users = u.users
             /\ t.kernel.running => Outcome(t) = Attempt(u) /\ t.kernel.cert = cert
    <2>1. CASE \E r \in BOOLEAN : t = failRuntime(u, r)
        BY <1>1, <2>1, FailStops
    <2>2. CASE t = runtimeIdle(u)
        BY <1>1, <2>2, IdleStops
    <2>3. CASE t = runtimeApplied(u)
        BY <1>1, <1>4, <2>3, AppliedRuns
    <2> QED
        BY <1>3, <1>7, <2>1, <2>2, <2>3
<1>8. ~Blocked(u) => ~(s.failed # None /\ s.failed.attempt = Attempt(u))
    BY <1>1 DEF Blocked
<1>9. CASE Blocked(u)
    BY <1>6, <1>9
<1>10. CASE ~Blocked(u)
    <2>1. SameControl(s, t)
        BY <1>1, <1>7, <1>10 DEF SameControl
    <2>2. Started(s, t)
        BY <1>1, <1>7, <1>8, <1>10 DEF Started
    <2> QED
        BY <1>1, <1>5, <1>7, <1>8, <1>10, <2>1, <2>2
<1> QED
    BY <1>9, <1>10

\* The running kernel was started with the configuration that is wanted.
Fitting(s) ==
    s.kernel.running =>
        /\ s.failed = None /\ s.config \in Configs
        /\ s.kernel.config = KernelHash[s.config]
        /\ s.config \in Landing => s.kernel.users = {}

\* applyConfigUpdate wants the configuration whatever becomes of it.
LEMMA ApplyConfigUpdateStep ==
    ASSUME NEW s \in Services, cert \in Nat, Fitting(s), NEW c \in Configs,
           NEW t \in applyConfigUpdate(s, c)
    PROVE  /\ t \in Services /\ Coherent(t) /\ SameControl(s, t) /\ Started(s, t)
           /\ t.config = c /\ t.users \in {s.users, {}}
           /\ c \notin Landing => t.users = s.users
           /\ /\ ~s.kernel.running /\ s.failed # None
              /\ s.failed.attempt = <<KernelHash[c], IF c \in Landing THEN {} ELSE s.users, cert>>
              => t.failed = s.failed
<1> DEFINE u == [s EXCEPT !.config = c]
           k == s.skipped \/ s.users # s.kernel.users
           v == [u EXCEPT !.skipped = k]
<1>1. /\ u \in Services /\ u.config = c /\ u.users = s.users /\ u.failed = s.failed
      /\ SameControl(s, u) /\ u.kernel = s.kernel /\ u.skipped = s.skipped
    BY DEF Services, SameControl
<1>2. Settled(u)
    BY <1>1 DEF Settled, Fitting
<1>3. CASE PolicyOnly(s, c)
    <2>1. /\ s.kernel.running /\ s.config \in Configs /\ s.kernel.config = KernelHash[c]
          /\ s.failed = None /\ s.kernel.config = KernelHash[s.config]
        BY <1>3 DEF PolicyOnly, Fitting
    <2>2. c \in Landing => s.kernel.users = {}
        BY <2>1, ControlAssumption DEF Fitting
    <2>3. t = v \/ \E r \in BOOLEAN : t = failRuntime(u, r)
        BY <1>1, <1>3 DEF applyConfigUpdate
    <2>4. ASSUME t = v
          PROVE  t \in Services /\ Coherent(t) /\ SameControl(s, t) /\ t.config = c
                 /\ t.users = s.users /\ t.kernel = s.kernel
        <3>1. k \in BOOLEAN /\ s.skipped \in BOOLEAN
            BY DEF Services
        <3> HIDE DEF k
        <3>2. /\ v \in Services /\ v.config = c /\ v.users = s.users /\ v.failed = s.failed
              /\ SameControl(s, v) /\ v.kernel = s.kernel /\ v.skipped = k
            BY <3>1 DEF Services, SameControl
        <3> HIDE DEF v
        <3>3. v.kernel.users = v.users \/ v.skipped
            BY <3>2 DEF k
        <3>4. Coherent(v)
            BY <2>1, <2>2, <3>2, <3>3 DEF Coherent
        <3> QED
            BY <2>4, <3>2, <3>4
    <2> HIDE DEF u, v
    <2>5. ASSUME NEW r \in BOOLEAN, t = failRuntime(u, r)
          PROVE  t \in Services /\ Coherent(t) /\ SameControl(s, t) /\ t.config = c
                 /\ t.users = s.users /\ ~t.kernel.running
        <3>1. /\ t \in Services /\ Coherent(t) /\ SameControl(u, t)
              /\ t.config = u.config /\ t.users = u.users /\ ~t.kernel.running
            BY <1>1, <2>5, FailStops
        <3> QED
            BY <1>1, <3>1 DEF SameControl
    <2> QED
        BY <2>1, <2>3, <2>4, <2>5 DEF Started
<1> HIDE DEF v, k
<1>4. CASE ~PolicyOnly(s, c)
    <2>1. t \in applyChanges(u)
        BY <1>4 DEF applyConfigUpdate
    <2> HIDE DEF u
    <2>2. /\ t \in Services /\ Coherent(t) /\ SameControl(u, t) /\ Started(u, t)
          /\ t.config = u.config /\ t.users = Served(u)
          /\ u.failed # None /\ u.failed.attempt = <<KernelHash[u.config], Served(u), cert>>
               => t.failed = u.failed
        BY <1>1, <1>2, <2>1, ApplyChangesStep
    <2>3. Served(u) = IF c \in Landing THEN {} ELSE s.users
        BY <1>1 DEF Served
    <2>4. SameControl(s, t) /\ Started(s, t)
        BY <1>1, <2>2 DEF SameControl, Started
    <2> QED
        BY <1>1, <2>2, <2>3, <2>4
<1> QED
    BY <1>3, <1>4

\* pullViaAPIAsync only asks.
LEMMA AskStep ==
    ASSUME NEW s \in Services
    PROVE  /\ pullViaAPIAsync(s) \in Services /\ SameControl(s, pullViaAPIAsync(s))
           /\ pullViaAPIAsync(s).config = s.config /\ pullViaAPIAsync(s).users = s.users
           /\ pullViaAPIAsync(s).kernel = s.kernel /\ pullViaAPIAsync(s).failed = s.failed
           /\ pullViaAPIAsync(s).applied = s.applied
           /\ pullViaAPIAsync(s).skipped = s.skipped
BY DEF pullViaAPIAsync, Services, SameControl

\* What concerns the kernel stays as it was.
SameRuntime(s, t) ==
    /\ t.config = s.config /\ t.users = s.users /\ t.kernel = s.kernel
    /\ t.failed = s.failed /\ t.applied = s.applied /\ t.skipped = s.skipped

\* requestWSResync asks for the complete state and touches nothing else.
LEMMA ResyncStep ==
    ASSUME NEW s \in Services
    PROVE  /\ requestWSResync(s) \in Services /\ SameControl(s, requestWSResync(s))
           /\ SameRuntime(s, requestWSResync(s))
<1> DEFINE u == [s EXCEPT !.resync = TRUE, !.sync = FALSE]
<1>1. u \in Services /\ SameControl(s, u) /\ SameRuntime(s, u)
    BY DEF Services, SameControl, SameRuntime
<1>2. requestWSResync(s) = pullViaAPIAsync(u)
    BY DEF requestWSResync
<1> HIDE DEF u
<1> QED
    BY <1>1, <1>2, AskStep DEF SameControl, SameRuntime

\* A kernel that fits still fits.
LEMMA SameRuntimeCoherent ==
    ASSUME NEW s, NEW t, SameRuntime(s, t), Coherent(s)
    PROVE  Coherent(t) /\ Fitting(t) /\ Settled(t)
BY DEF SameRuntime, Coherent, Fitting, Settled

\* controlGeneration++ may only make a poll stale.
LEMMA GenerationStep ==
    ASSUME NEW s \in Services
    PROVE  /\ NextGeneration(s) \in Services /\ SameControl(s, NextGeneration(s))
           /\ SameRuntime(s, NextGeneration(s))
<1> DEFINE p == [s.pull EXCEPT !.stale = TRUE]
<1>1. /\ p \in [stage : {"idle", "asked", "result"}, stale : BOOLEAN, snap : Nat, cert : BOOLEAN]
      /\ p.stage = s.pull.stage /\ p.snap = s.pull.snap
    BY DEF Services
<1>2. NextGeneration(s) = s \/ NextGeneration(s) = [s EXCEPT !.pull = p]
    BY DEF NextGeneration
<1> HIDE DEF p
<1> QED
    BY <1>1, <1>2 DEF Services, SameControl, SameRuntime

\* ensureRunning starts what is wanted unless something runs.
LEMMA EnsureRunningStep ==
    ASSUME NEW s \in Services, s.config \in Configs, cert \in Nat, Settled(s),
           s.kernel.running => Coherent(s), s.config \in Landing => s.users = {},
           NEW t \in ensureRunning(s)
    PROVE  /\ t \in Services /\ Coherent(t) /\ SameControl(s, t) /\ Started(s, t)
           /\ t.config = s.config /\ t.users = s.users
<1>1. CASE s.kernel.running
    BY <1>1 DEF ensureRunning, SameControl, Started
<1>2. CASE ~s.kernel.running
    <2>1. t \in applyChanges(s) /\ Served(s) = s.users
        BY <1>2 DEF ensureRunning, Served
    <2> QED
        BY <2>1, ApplyChangesStep
<1> QED
    BY <1>1, <1>2

\* A landing node drops whatever users it is sent.
LEMMA LandingStep ==
    ASSUME NEW s \in Services, s.config \in Landing, cert \in Nat, Coherent(s),
           NEW t \in syncLandingUserState(s)
    PROVE  /\ t \in Services /\ Coherent(t) /\ SameControl(s, t) /\ Started(s, t)
           /\ t.config = s.config /\ t.users = {}
<1> DEFINE u == [s EXCEPT !.users = {}]
<1>1. /\ u \in Services /\ u.config = s.config /\ u.users = {} /\ u.failed = s.failed
      /\ SameControl(s, u) /\ u.kernel = s.kernel /\ u.skipped = s.skipped
      /\ u.applied = s.applied
    BY DEF Services, SameControl
<1>2. t \in ensureRunning(u)
    BY DEF syncLandingUserState
<1> HIDE DEF u
<1>3. Settled(u) /\ s.config \in Configs
    BY <1>1, ControlAssumption DEF Settled, Coherent
<1>4. ASSUME s.kernel.running PROVE Coherent(u)
    BY <1>1, <1>4 DEF Coherent
<1>5. /\ t \in Services /\ Coherent(t) /\ SameControl(u, t) /\ Started(u, t)
      /\ t.config = u.config /\ t.users = u.users
    BY <1>1, <1>2, <1>3, <1>4, EnsureRunningStep
<1> QED
    BY <1>1, <1>5 DEF SameControl, Started

\* The kernel gets other users, or stops.
LEMMA HotUpdateStep ==
    ASSUME NEW s \in Services, cert \in Nat, s.kernel.running, Fitting(s),
           s.config \notin Landing, NEW us \in SUBSET UserIds,
           s.skipped \/ us = s.users,
           NEW t \in HotUpdate(s, us)
    PROVE  /\ t \in Services /\ Coherent(t) /\ SameControl(s, t)
           /\ t.config = s.config /\ t.users = s.users /\ Started(s, t)
<1> DEFINE k == [s.kernel EXCEPT !.users = us]
           b == s.skipped /\ us # s.users
           u == [s EXCEPT !.kernel = k, !.skipped = b]
<1>1. /\ k \in [running : BOOLEAN, config : Hashes \cup {None}, users : SUBSET UserIds, cert : Nat]
      /\ k.running = s.kernel.running /\ k.users = us /\ k.config = s.kernel.config
      /\ k.cert = s.kernel.cert
    BY DEF Services
<1>2. b \in BOOLEAN
    BY DEF Services
<1>3. t = failRuntime(s, FALSE) \/ t = u
    BY DEF HotUpdate
<1>4. s.config \in Configs /\ s.failed = None
    BY DEF Fitting
<1>5. CASE t = failRuntime(s, FALSE)
    <2>1. FALSE \in BOOLEAN
        OBVIOUS
    <2> QED
        BY <1>4, <1>5, <2>1, FailStops DEF Started
<1>6. CASE t = u
    <2> HIDE DEF k, b
    <2>1. /\ u \in Services /\ u.config = s.config /\ u.users = s.users /\ u.failed = s.failed
          /\ SameControl(s, u) /\ u.kernel = k /\ u.skipped = b /\ u.applied = s.applied
        BY <1>1, <1>2 DEF Services, SameControl
    <2> HIDE DEF u
    <2>2. u.kernel.users = u.users \/ u.skipped
        BY <1>1, <2>1 DEF b
    <2>3. Coherent(u)
        BY <1>1, <1>4, <2>1, <2>2 DEF Coherent, Fitting
    <2> QED
        BY <1>1, <1>6, <2>1, <2>3 DEF Started
<1> QED
    BY <1>3, <1>5, <1>6

\* mergeUsers and subtractUsers stay among the users.
LEMMA ChangedType ==
    ASSUME NEW us \in SUBSET UserIds, NEW ds \in SUBSET UserIds, NEW action
    PROVE  Changed(us, action, ds) \in SUBSET UserIds
BY DEF Changed

\* applyUserUpdate serves the users it was given, or none.
LEMMA ApplyUserUpdateStep ==
    ASSUME NEW s \in Services, cert \in Nat, Coherent(s), NEW us \in SUBSET UserIds,
           NEW t \in applyUserUpdate(s, us)
    PROVE  /\ t \in Services /\ Coherent(t) /\ SameControl(s, t) /\ Started(s, t)
           /\ t.config = s.config /\ t.users \in {us, {}}
<1> DEFINE u == [s EXCEPT !.users = us]
<1>1. /\ u \in Services /\ u.config = s.config /\ u.users = us /\ u.failed = s.failed
      /\ SameControl(s, u) /\ u.kernel = s.kernel /\ u.skipped = s.skipped
      /\ u.applied = s.applied
    BY DEF Services, SameControl
<1>2. t \in IF s.config = None THEN {requestWSResync(u)}
            ELSE IF s.config \in Landing THEN syncLandingUserState(s)
            ELSE IF ~s.kernel.running THEN ensureRunning(u)
            ELSE HotUpdate(u, us)
    BY DEF applyUserUpdate
<1> HIDE DEF u
<1>3. None \notin Configs /\ (s.config = None \/ s.config \in Configs)
    BY ControlAssumption DEF Services
<1>4. CASE s.config = None
    <2>1. t \in Services /\ SameControl(u, t) /\ SameRuntime(u, t)
        BY <1>1, <1>2, <1>4, ResyncStep
    <2>2. Coherent(u) /\ ~u.kernel.running
        BY <1>1, <1>3, <1>4 DEF Coherent
    <2>3. Coherent(t) /\ ~t.kernel.running
        BY <2>1, <2>2, SameRuntimeCoherent DEF SameRuntime
    <2> QED
        BY <1>1, <2>1, <2>3 DEF SameRuntime, SameControl, Started
<1>5. CASE s.config \in Landing
    BY <1>2, <1>3, <1>5, LandingStep, ControlAssumption
<1>6. CASE s.config # None /\ s.config \notin Landing /\ ~s.kernel.running
    <2>1. t \in ensureRunning(u) /\ Settled(u)
        BY <1>1, <1>2, <1>6 DEF Settled
    <2>2. /\ t \in Services /\ Coherent(t) /\ SameControl(u, t) /\ Started(u, t)
          /\ t.config = u.config /\ t.users = u.users
        BY <1>1, <1>3, <1>6, <2>1, EnsureRunningStep
    <2> QED
        BY <1>1, <2>2 DEF SameControl, Started
<1>7. CASE s.config # None /\ s.config \notin Landing /\ s.kernel.running
    <2>1. t \in HotUpdate(u, us) /\ Fitting(u) /\ u.kernel.running
        BY <1>1, <1>2, <1>7 DEF Fitting, Coherent
    <2>2. /\ t \in Services /\ Coherent(t) /\ SameControl(u, t) /\ Started(u, t)
          /\ t.config = u.config /\ t.users = u.users
        BY <1>1, <1>7, <2>1, HotUpdateStep
    <2> QED
        BY <1>1, <2>2 DEF SameControl, Started
<1> QED
    BY <1>4, <1>5, <1>6, <1>7

\* applyUserDelta adds or removes what it was given.
LEMMA ApplyUserDeltaStep ==
    ASSUME NEW s \in Services, cert \in Nat, Coherent(s), NEW ds \in SUBSET UserIds,
           NEW action, NEW t \in applyUserDelta(s, action, ds)
    PROVE  /\ t \in Services /\ Coherent(t) /\ SameControl(s, t) /\ Started(s, t)
           /\ t.config = s.config /\ t.users \in {Changed(s.users, action, ds), {}}
<1> DEFINE us == Changed(s.users, action, ds)
           ks == Changed(s.kernel.users, action, ds)
           u == [s EXCEPT !.users = us]
<1>1. us \in SUBSET UserIds /\ ks \in SUBSET UserIds
    <2>1. s.users \in SUBSET UserIds /\ s.kernel.users \in SUBSET UserIds
        BY DEF Services
    <2> QED
        BY <2>1, ChangedType
<1>2. s.kernel.users = s.users => ks = us
    OBVIOUS
<1>3. t \in IF s.config = None THEN {requestWSResync(u)}
            ELSE IF s.config \in Landing THEN syncLandingUserState(s)
            ELSE IF ~s.kernel.running THEN applyChanges(u)
            ELSE HotUpdate(u, Changed(u.kernel.users, action, ds)) \cup HotUpdate(u, u.users)
    BY DEF applyUserDelta
<1>4. Changed(u.kernel.users, action, ds) = ks
    BY DEF Services
<1> HIDE DEF us, ks
<1>5. /\ u \in Services /\ u.config = s.config /\ u.users = us /\ u.failed = s.failed
      /\ SameControl(s, u) /\ u.kernel = s.kernel /\ u.skipped = s.skipped
      /\ u.applied = s.applied
    BY <1>1 DEF Services, SameControl
<1> HIDE DEF u
<1>6. None \notin Configs /\ (s.config = None \/ s.config \in Configs)
    BY ControlAssumption DEF Services
<1>7. CASE s.config = None
    <2>1. t \in Services /\ SameControl(u, t) /\ SameRuntime(u, t)
        BY <1>3, <1>5, <1>7, ResyncStep
    <2>2. Coherent(u) /\ ~u.kernel.running
        BY <1>5, <1>6, <1>7 DEF Coherent
    <2>3. Coherent(t) /\ ~t.kernel.running
        BY <2>1, <2>2, SameRuntimeCoherent DEF SameRuntime
    <2> QED
        BY <1>5, <2>1, <2>3 DEF SameRuntime, SameControl, Started, us
<1>8. CASE s.config \in Landing
    BY <1>3, <1>6, <1>8, LandingStep, ControlAssumption
<1>9. CASE s.config # None /\ s.config \notin Landing /\ ~s.kernel.running
    <2>1. t \in applyChanges(u) /\ Settled(u) /\ Served(u) = u.users
        BY <1>3, <1>5, <1>9 DEF Settled, Served
    <2>2. /\ t \in Services /\ Coherent(t) /\ SameControl(u, t) /\ Started(u, t)
          /\ t.config = u.config /\ t.users = u.users
        BY <1>5, <1>6, <1>9, <2>1, ApplyChangesStep
    <2> QED
        BY <1>5, <2>2 DEF SameControl, Started, us
<1>10. CASE s.config # None /\ s.config \notin Landing /\ s.kernel.running
    <2>1. Fitting(u) /\ u.kernel.running /\ u.config \notin Landing
        BY <1>5, <1>10 DEF Fitting, Coherent
    <2>2. s.kernel.users = s.users \/ s.skipped
        BY <1>10 DEF Coherent
    <2>3. u.skipped \/ ks = u.users
        BY <1>2, <1>5, <2>2
    <2>4. t \in HotUpdate(u, ks) \/ t \in HotUpdate(u, us)
        BY <1>3, <1>4, <1>5, <1>10
    <2>5. /\ t \in Services /\ Coherent(t) /\ SameControl(u, t) /\ Started(u, t)
          /\ t.config = u.config /\ t.users = u.users
        <3>1. CASE t \in HotUpdate(u, ks)
            BY <1>1, <1>5, <2>1, <2>3, <3>1, HotUpdateStep
        <3>2. CASE t \in HotUpdate(u, us)
            BY <1>1, <1>5, <2>1, <3>2, HotUpdateStep
        <3> QED
            BY <2>4, <3>1, <3>2
    <2> QED
        BY <1>5, <2>5 DEF SameControl, Started, us
<1> QED
    BY <1>7, <1>8, <1>9, <1>10

-----------------------------------------------------------------------------
(***************************************************************************)
(* The handlers of the main loop.                                          *)
(***************************************************************************)
\* VersionGate.accept does not go back within an epoch.
LEMMA AcceptType ==
    ASSUME NEW g \in Gates, NEW v, v.epoch \in Nat, v.seq \in Nat
    PROVE  /\ Accept(g, v) \in Gates
           /\ Accept(g, v).epoch = g.epoch => Accept(g, v).seq >= g.seq
           /\ Accepts(g, v) => Accept(g, v).epoch = v.epoch /\ Accept(g, v).seq = v.seq
           /\ ~Accepts(g, v) => Accept(g, v) = g
<1>1. CASE ~Accepts(g, v)
    BY <1>1 DEF Accept, Gates
<1>2. CASE Accepts(g, v)
    <2> DEFINE r == IF g.epoch \in {0, v.epoch} THEN g.retired ELSE g.retired \cup {g.epoch}
    <2>1. r \in SUBSET Nat
        BY DEF Gates
    <2>2. Accept(g, v) = [epoch |-> v.epoch, seq |-> v.seq, retired |-> r]
        BY <1>2 DEF Accept
    <2> HIDE DEF r
    <2>3. v.epoch = g.epoch => v.seq >= g.seq
        BY <1>2 DEF Accepts
    <2> QED
        BY <1>2, <2>1, <2>2, <2>3 DEF Gates
<1> QED
    BY <1>1, <1>2

\* The users a step may add under the version it accepts with the event.
Granted(e) ==
    IF e.type \in {"snapshot", "users"} \/ (e.type = "delta" /\ e.action = "add")
      THEN e.users ELSE {}

\* One event, handled: the version and the users move together.
Handled(s, e, t) ==
    /\ t \in Services /\ Coherent(t) /\ Started(s, t)
    /\ e.type = "users" => t.config = s.config
    /\ t.pull.stage = "result" => s.pull.stage = "result" /\ t.pull.snap = s.pull.snap
    /\ \/ t.gate = s.gate /\ t.users = s.users
       \/ /\ Accepts(s.gate, e) /\ t.gate = Accept(s.gate, e)
          /\ t.users \subseteq s.users \cup Granted(e)

\* A complete state, accepted, gives way to what it says.
LEMMA ApplyPullResultStep ==
    ASSUME NEW s \in Services, cert \in Nat, up \in BOOLEAN, Coherent(s),
           NEW r, r.epoch \in Nat, r.seq \in Nat, r.config \in Configs,
           r.users \in SUBSET UserIds,
           NEW stale \in BOOLEAN, NEW renewal \in BOOLEAN,
           NEW t \in applyPullResult(s, r, stale, renewal)
    PROVE  /\ t \in Services /\ Coherent(t) /\ Started(s, t)
           /\ t.pull.stage = "result" => s.pull.stage = "result" /\ t.pull.snap = s.pull.snap
           /\ \/ t.gate = s.gate /\ t.users = s.users
              \/ /\ Accepts(s.gate, r) /\ t.gate = Accept(s.gate, r)
                 /\ t.users \in {s.users, r.users, {}}
<1> DEFINE p == s.certPending \/ renewal
           u == [s EXCEPT !.certPending = p]
           g == Accept(s.gate, r)
           a == [u EXCEPT !.gate = g, !.resync = FALSE, !.certPending = FALSE, !.sync = up]
           b == [a EXCEPT !.users = r.users]
           w == [u EXCEPT !.sync = FALSE, !.resync = TRUE]
<1>1. p \in BOOLEAN /\ g \in Gates
    <2>1. s.gate \in Gates /\ s.certPending \in BOOLEAN
        BY DEF Services
    <2> QED
        BY <2>1, AcceptType
<1>2. u.gate = s.gate /\ u.certPending = p
    BY DEF Services
<1>3. t \in IF stale THEN {requestWSResync(u)}
            ELSE IF ~Accepts(s.gate, r) THEN {w}
            ELSE IF p \/ r.config # s.config THEN applyConfigUpdate(b, r.config)
            ELSE IF r.users # s.users THEN applyUserUpdate(a, r.users)
            ELSE {a}
    BY <1>2 DEF applyPullResult
<1> HIDE DEF p, g
<1>4. u \in Services /\ SameRuntime(s, u) /\ SameControl(s, u) /\ u.pull = s.pull
    BY <1>1 DEF Services, SameRuntime, SameControl
<1>5. w \in Services /\ SameRuntime(s, w) /\ SameControl(s, w)
    BY <1>1 DEF Services, SameRuntime, SameControl
<1>6. a \in Services /\ SameRuntime(s, a) /\ a.gate = g /\ a.pull = s.pull
    BY <1>1 DEF Services, SameRuntime
<1>7. /\ b \in Services /\ b.gate = g /\ b.pull = s.pull /\ b.users = r.users
      /\ b.config = s.config /\ b.kernel = s.kernel /\ b.failed = s.failed
    BY <1>1, ZenonT(60) DEF Services
<1> HIDE DEF u, a, b, w
<1>8. CASE stale
    <2>1. t \in Services /\ SameControl(u, t) /\ SameRuntime(u, t)
        BY <1>3, <1>4, <1>8, ResyncStep
    <2>2. SameRuntime(s, t) /\ SameControl(s, t)
        BY <1>4, <2>1 DEF SameRuntime, SameControl
    <2> QED
        BY <2>1, <2>2, SameRuntimeCoherent DEF SameRuntime, SameControl, Started, Coherent
<1>9. CASE ~stale /\ ~Accepts(s.gate, r)
    <2>1. t = w
        BY <1>3, <1>9
    <2> QED
        BY <1>5, <2>1, SameRuntimeCoherent DEF SameRuntime, SameControl, Started, Coherent
<1>10. CASE ~stale /\ Accepts(s.gate, r) /\ (p \/ r.config # s.config)
    <2>1. t \in applyConfigUpdate(b, r.config) /\ Fitting(b)
        BY <1>3, <1>7, <1>10 DEF Fitting, Coherent
    <2>2. /\ t \in Services /\ Coherent(t) /\ SameControl(b, t) /\ Started(b, t)
          /\ t.users \in {b.users, {}}
        BY <1>7, <2>1, ApplyConfigUpdateStep
    <2> QED
        BY <1>7, <1>10, <2>2 DEF SameControl, Started, g
<1>11. CASE ~stale /\ Accepts(s.gate, r) /\ ~(p \/ r.config # s.config) /\ r.users # s.users
    <2>1. t \in applyUserUpdate(a, r.users) /\ Coherent(a)
        BY <1>3, <1>6, <1>11, SameRuntimeCoherent
    <2>2. /\ t \in Services /\ Coherent(t) /\ SameControl(a, t) /\ Started(a, t)
          /\ t.users \in {r.users, {}}
        BY <1>6, <2>1, ApplyUserUpdateStep
    <2> QED
        BY <1>6, <1>11, <2>2 DEF SameControl, SameRuntime, Started, g
<1>12. CASE ~stale /\ Accepts(s.gate, r) /\ ~(p \/ r.config # s.config) /\ r.users = s.users
    <2>1. t = a
        BY <1>3, <1>12
    <2>2. Coherent(t) /\ Started(s, t)
        BY <1>6, <2>1, SameRuntimeCoherent DEF SameRuntime, Started, Coherent
    <2> QED
        BY <1>6, <1>12, <2>1, <2>2 DEF SameRuntime, g
<1> QED
    BY <1>8, <1>9, <1>10, <1>11, <1>12

\* handleWSEvent: a push is refused, or leaves the node with its version.
LEMMA HandleEventStep ==
    ASSUME NEW s \in Services, cert \in Nat, up \in BOOLEAN, Coherent(s), NEW e \in Events,
           NEW t \in handleWSEvent(s, e)
    PROVE  Handled(s, e, t)
<1> DEFINE g == [s EXCEPT !.gate = Accept(@, e)]
           n == IF e.type = "users" THEN e.users ELSE Changed(s.users, e.action, e.users)
           same == IF e.type = "config" THEN e.config = s.config ELSE n = s.users
<1>1. /\ e.epoch \in Nat /\ e.seq \in Nat /\ e.users \in SUBSET UserIds
      /\ e.type \in {"snapshot", "config", "users", "delta"}
      /\ e.type \in {"snapshot", "config"} => e.config \in Configs
      /\ e.action \in {"add", "remove"}
    BY DEF Events
<1>2. t \in IF e.type = "snapshot" THEN applyPullResult(NextGeneration(s), e, FALSE, FALSE)
            ELSE IF ~Accepts(s.gate, e) THEN {s}
            ELSE IF same THEN {g}
            ELSE CASE e.type = "config" -> applyConfigUpdate(NextGeneration(g), e.config)
                   [] e.type = "users"  -> applyUserUpdate(NextGeneration(g), n)
                   [] e.type = "delta"  -> applyUserDelta(NextGeneration(g), e.action, e.users)
    BY DEF handleWSEvent
<1>3. /\ g \in Services /\ SameRuntime(s, g) /\ g.gate = Accept(s.gate, e) /\ g.pull = s.pull
    <2>1. Accept(s.gate, e) \in Gates
        BY <1>1, AcceptType DEF Services
    <2> QED
        BY <2>1 DEF Services, SameRuntime
<1> HIDE DEF g, same
<1> DEFINE h == NextGeneration(g)
<1>4. h \in Services /\ SameRuntime(s, h) /\ h.gate = Accept(s.gate, e) /\ SameControl(g, h)
    BY <1>3, GenerationStep DEF SameControl, SameRuntime
<1>5. Coherent(h) /\ Fitting(h)
    BY <1>4, SameRuntimeCoherent
<1> HIDE DEF h
<1>6. CASE e.type = "snapshot"
    <2> DEFINE k == NextGeneration(s)
               no == FALSE
    <2>1. k \in Services /\ SameRuntime(s, k) /\ SameControl(s, k)
        BY GenerationStep
    <2>2. Coherent(k)
        BY <2>1, SameRuntimeCoherent
    <2>3. t \in applyPullResult(k, e, no, no) /\ no \in BOOLEAN
        BY <1>2, <1>6
    <2> HIDE DEF k, no
    <2>4. /\ t \in Services /\ Coherent(t) /\ Started(k, t)
          /\ t.pull.stage = "result" => k.pull.stage = "result" /\ t.pull.snap = k.pull.snap
          /\ \/ t.gate = k.gate /\ t.users = k.users
             \/ /\ Accepts(k.gate, e) /\ t.gate = Accept(k.gate, e)
                /\ t.users \in {k.users, e.users, {}}
        BY <1>1, <1>6, <2>1, <2>2, <2>3, ApplyPullResultStep
    <2>5. Started(s, t)
        BY <2>1, <2>4 DEF Started, SameRuntime
    <2> QED
        BY <1>6, <2>1, <2>4, <2>5 DEF Handled, SameRuntime, SameControl, Granted
<1>7. CASE e.type # "snapshot" /\ ~Accepts(s.gate, e)
    <2>1. t = s
        BY <1>2, <1>7
    <2> QED
        BY <2>1 DEF Handled, Started, Coherent
<1>8. CASE e.type # "snapshot" /\ Accepts(s.gate, e) /\ same
    <2>1. t = g
        BY <1>2, <1>8
    <2>2. Coherent(t) /\ Started(s, t)
        BY <1>3, <2>1, SameRuntimeCoherent DEF SameRuntime, Started, Coherent
    <2> QED
        BY <1>3, <1>8, <2>1, <2>2 DEF Handled, SameRuntime
<1>9. CASE e.type = "config" /\ Accepts(s.gate, e) /\ ~same
    <2>1. t \in applyConfigUpdate(h, e.config)
        BY <1>2, <1>9 DEF h
    <2>2. /\ t \in Services /\ Coherent(t) /\ SameControl(h, t) /\ Started(h, t)
          /\ t.users \in {h.users, {}}
        BY <1>1, <1>4, <1>5, <1>9, <2>1, ApplyConfigUpdateStep
    <2>3. Started(s, t)
        BY <1>4, <2>2 DEF Started, SameRuntime
    <2> QED
        BY <1>3, <1>4, <1>9, <2>2, <2>3 DEF Handled, SameRuntime, SameControl
<1>10. CASE e.type = "users" /\ Accepts(s.gate, e) /\ ~same
    <2>1. t \in applyUserUpdate(h, e.users)
        BY <1>2, <1>10 DEF h
    <2>2. /\ t \in Services /\ Coherent(t) /\ SameControl(h, t) /\ Started(h, t)
          /\ t.users \in {e.users, {}} /\ t.config = h.config
        BY <1>1, <1>4, <1>5, <2>1, ApplyUserUpdateStep
    <2>3. Started(s, t)
        BY <1>4, <2>2 DEF Started, SameRuntime
    <2> QED
        BY <1>3, <1>4, <1>10, <2>2, <2>3 DEF Handled, SameRuntime, SameControl, Granted
<1>11. CASE e.type = "delta" /\ Accepts(s.gate, e) /\ ~same
    <2>1. t \in applyUserDelta(h, e.action, e.users)
        BY <1>2, <1>11 DEF h
    <2>2. /\ t \in Services /\ Coherent(t) /\ SameControl(h, t) /\ Started(h, t)
          /\ t.users \in {Changed(h.users, e.action, e.users), {}}
        BY <1>1, <1>4, <1>5, <2>1, ApplyUserDeltaStep
    <2>3. Started(s, t)
        BY <1>4, <2>2 DEF Started, SameRuntime
    <2>4. t.users \subseteq s.users \cup Granted(e)
        BY <1>1, <1>4, <1>11, <2>2 DEF SameRuntime, Changed, Granted
    <2> QED
        BY <1>3, <1>4, <1>11, <2>2, <2>3, <2>4 DEF Handled, SameControl
<1> QED
    BY <1>1, <1>6, <1>7, <1>8, <1>9, <1>10, <1>11

\* No start in vain: what failed before is not what runs now.
NotAgain(s, t) ==
    s.failed # None /\ ~s.kernel.running /\ t.kernel.running =>
        Outcome(t) # s.failed.attempt

\* Whatever users come, an attempt would not be A.
Elsewhere(A, t) ==
    /\ t.kernel.running => t.kernel.cert = cert
    /\ t.config \in Configs
    /\ \/ KernelHash[t.config] # A[1] \/ A[3] # cert
       \/ t.config \in Landing /\ A[2] # {}

\* A configuration that is pushed is blocked as well, or leads elsewhere.
LEMMA ConfigEventStep ==
    ASSUME NEW s \in Services, cert \in Nat, Coherent(s), NEW e \in Events, e.type = "config",
           s.failed # None, NEW t \in handleWSEvent(s, e)
    PROVE  (t.failed = s.failed /\ ~t.kernel.running) \/ Elsewhere(s.failed.attempt, t)
<1> DEFINE g == [s EXCEPT !.gate = Accept(@, e)]
           c == e.config
           A == s.failed.attempt
<1>1. c \in Configs /\ e.epoch \in Nat /\ e.seq \in Nat
    BY DEF Events
<1>2. t = s \/ t = g \/ (t \in applyConfigUpdate(NextGeneration(g), c) /\ c # s.config)
    BY DEF handleWSEvent
<1>3. g \in Services /\ SameRuntime(s, g)
    <2>1. Accept(s.gate, e) \in Gates
        BY <1>1, AcceptType DEF Services
    <2> QED
        BY <2>1 DEF Services, SameRuntime
<1> HIDE DEF g
<1>4. ~s.kernel.running
    BY DEF Coherent
<1>5. CASE t = s \/ t = g
    BY <1>3, <1>4, <1>5 DEF SameRuntime
<1>6. CASE t \in applyConfigUpdate(NextGeneration(g), c) /\ c # s.config
    <2> DEFINE h == NextGeneration(g)
    <2>1. h \in Services /\ SameRuntime(s, h)
        BY <1>3, GenerationStep DEF SameRuntime
    <2>2. t \in applyConfigUpdate(h, c) /\ Fitting(h) /\ ~h.kernel.running
        BY <1>4, <1>6, <2>1, SameRuntimeCoherent DEF SameRuntime
    <2> HIDE DEF h, c, A
    <2>3. /\ t \in Services /\ Coherent(t) /\ Started(h, t) /\ t.config = c
          /\ /\ ~h.kernel.running /\ h.failed # None
             /\ h.failed.attempt = <<KernelHash[c], IF c \in Landing THEN {} ELSE h.users, cert>>
             => t.failed = h.failed
        BY <1>1, <2>1, <2>2, ApplyConfigUpdateStep
    <2>4. t.kernel.running => t.kernel.cert = cert
        BY <2>2, <2>3 DEF Started
    <2>5. CASE Elsewhere(A, t)
        BY <2>5 DEF A
    <2>6. CASE ~Elsewhere(A, t)
        <3>1. KernelHash[c] = A[1] /\ A[3] = cert /\ (c \in Landing => A[2] = {})
            BY <1>1, <2>3, <2>4, <2>6 DEF Elsewhere
        <3>2. A[2] = s.users
            BY DEF Coherent, A
        <3>3. (IF c \in Landing THEN {} ELSE h.users) = A[2]
            BY <2>1, <3>1, <3>2 DEF SameRuntime
        <3>4. A = <<A[1], A[2], A[3]>>
            BY DEF A, Services, Attempts
        <3>5. t.failed = s.failed
            BY <2>1, <2>2, <2>3, <3>1, <3>3, <3>4 DEF SameRuntime, A
        <3> QED
            BY <2>3, <3>5 DEF Coherent
    <2> QED
        BY <2>5, <2>6
<1> QED
    BY <1>2, <1>5, <1>6

\* Users that follow a configuration elsewhere do not lead back.
LEMMA ElsewhereStays ==
    ASSUME NEW A, NEW s, NEW t, Elsewhere(A, s), Coherent(t), Started(s, t), t.config = s.config,
           t.kernel.running
    PROVE  Outcome(t) # A
<1>1. t.kernel.cert = cert /\ t.kernel.config = KernelHash[s.config]
    BY DEF Elsewhere, Started, Coherent
<1>2. s.config \in Landing => t.kernel.users = {}
    BY DEF Coherent
<1>3. /\ Outcome(t)[1] = t.kernel.config /\ Outcome(t)[2] = t.kernel.users
      /\ Outcome(t)[3] = t.kernel.cert
    BY DEF Outcome
<1> QED
    BY <1>1, <1>2, <1>3 DEF Elsewhere

\* The contents of the mailbox, as events.
LEMMA BoxEventType ==
    ASSUME NEW b \in Boxes, NEW type \in {"snapshot", "config", "users"},
           type \in {"snapshot", "config"} => b.config \in Configs
    PROVE  BoxEvent(b, type) \in Events /\ BoxEvent(b, type).type = type
<1>1. b.gate \in Gates
    BY DEF Boxes
<1> QED
    BY <1>1 DEF BoxEvent, Events, Boxes, Gates

\* drainMachineMailbox hands over the configuration and then the users.
LEMMA DrainStep ==
    ASSUME NEW s \in Services, cert \in Nat, up \in BOOLEAN, Coherent(s), NEW b \in Boxes,
           b.dirtyConfig \/ b.snapshot => b.config \in Configs,
           NEW t \in drainMachineMailbox(s, b)
    PROVE  /\ t \in Services /\ Coherent(t) /\ NotAgain(s, t)
           /\ t.pull.stage = "result" => s.pull.stage = "result" /\ t.pull.snap = s.pull.snap
<1> DEFINE config == IF b.dirtyConfig THEN handleWSEvent(s, BoxEvent(b, "config")) ELSE {s}
           users(u) == IF b.dirtyUsers THEN handleWSEvent(u, BoxEvent(b, "users")) ELSE {u}
           parts == UNION {users(u) : u \in config}
           handled == IF b.snapshot THEN handleWSEvent(s, BoxEvent(b, "snapshot")) ELSE parts
           Fine(u) ==
             /\ u \in Services /\ Coherent(u) /\ NotAgain(s, u)
             /\ u.pull.stage = "result" => s.pull.stage = "result" /\ u.pull.snap = s.pull.snap
<1>1. Fine(s)
    BY DEF NotAgain
<1>2. ASSUME NEW u \in config
      PROVE  /\ Fine(u)
             /\ s.failed # None => \/ u.failed = s.failed /\ ~u.kernel.running
                                   \/ Elsewhere(s.failed.attempt, u)
    <2>1. CASE ~b.dirtyConfig
        <3>1. u = s
            BY <2>1
        <3> QED
            BY <1>1, <3>1 DEF Coherent
    <2>2. CASE b.dirtyConfig
        <3> DEFINE e == BoxEvent(b, "config")
        <3>1. e \in Events /\ e.type = "config" /\ u \in handleWSEvent(s, e)
            BY <2>2, BoxEventType
        <3> HIDE DEF e
        <3>2. Handled(s, e, u)
            BY <3>1, HandleEventStep
        <3>3. Fine(u)
            BY <3>2 DEF Handled, Started, NotAgain
        <3>4. s.failed # None => \/ u.failed = s.failed /\ ~u.kernel.running
                                 \/ Elsewhere(s.failed.attempt, u)
            BY <3>1, ConfigEventStep
        <3> QED
            BY <3>3, <3>4
    <2> QED
        BY <2>1, <2>2
<1> HIDE DEF config
<1>3. ASSUME NEW u \in config, NEW v \in users(u) PROVE Fine(v)
    <2>1. CASE ~b.dirtyUsers
        <3>1. v = u
            BY <2>1
        <3> QED
            BY <1>2, <3>1
    <2>2. CASE b.dirtyUsers
        <3> DEFINE e == BoxEvent(b, "users")
        <3>1. e \in Events /\ e.type = "users" /\ v \in handleWSEvent(u, e)
            BY <2>2, BoxEventType
        <3> HIDE DEF e
        <3>2. Handled(u, e, v)
            BY <1>2, <3>1, HandleEventStep
        <3>3. /\ v \in Services /\ Coherent(v)
              /\ v.pull.stage = "result" => s.pull.stage = "result" /\ v.pull.snap = s.pull.snap
            BY <1>2, <3>2 DEF Handled
        <3>4. NotAgain(s, v)
            <4>1. SUFFICES ASSUME s.failed # None, ~s.kernel.running, v.kernel.running
                           PROVE  Outcome(v) # s.failed.attempt
                BY DEF NotAgain
            <4>2. CASE u.failed = s.failed /\ ~u.kernel.running
                BY <3>2, <4>1, <4>2 DEF Handled, Started
            <4>3. CASE Elsewhere(s.failed.attempt, u)
                BY <3>1, <3>2, <4>1, <4>3, ElsewhereStays DEF Handled
            <4> QED
                BY <1>2, <4>1, <4>2, <4>3
        <3> QED
            BY <3>3, <3>4
    <2> QED
        BY <2>1, <2>2
<1> HIDE DEF users
<1>4. ASSUME NEW v \in handled PROVE Fine(v)
    <2>1. CASE ~b.snapshot
        <3>1. \E u \in config : v \in users(u)
            BY <2>1
        <3> QED
            BY <1>3, <3>1
    <2>2. CASE b.snapshot
        <3> DEFINE e == BoxEvent(b, "snapshot")
        <3>1. e \in Events /\ v \in handleWSEvent(s, e)
            BY <2>2, BoxEventType
        <3> HIDE DEF e
        <3>2. Handled(s, e, v)
            BY <3>1, HandleEventStep
        <3> QED
            BY <3>2 DEF Handled, Started, NotAgain
    <2> QED
        BY <2>1, <2>2
<1>5. t = s \/ (\E v \in handled : t = v \/ t = requestWSResync(v))
    BY DEF drainMachineMailbox, config, users
<1> HIDE DEF handled
<1>6. ASSUME NEW v \in handled, t = requestWSResync(v) PROVE Fine(t)
    <2>1. Fine(v)
        BY <1>4
    <2>2. t \in Services /\ SameControl(v, t) /\ SameRuntime(v, t)
        BY <1>6, <2>1, ResyncStep
    <2>3. Coherent(t)
        BY <2>1, <2>2, SameRuntimeCoherent
    <2> QED
        BY <2>1, <2>2, <2>3 DEF SameControl, SameRuntime, NotAgain, Outcome
<1>7. Fine(t)
    BY <1>1, <1>4, <1>5, <1>6
<1> QED
    BY <1>7

\* trackAndEnforce: only the environment's failures are tried again.
LEMMA TrackStep ==
    ASSUME NEW s \in Services, cert \in Nat, Coherent(s),
           NEW t \in {Enforced(v) : v \in UNION {Checked(r) : r \in Retried(s)}}
    PROVE  /\ t \in Services /\ Coherent(t) /\ SameControl(s, t) /\ t.users \in {s.users, {}}
           /\ s.failed # None /\ ~s.failed.retry /\ ~s.kernel.running => ~t.kernel.running
<1>1. PICK r \in Retried(s) : \E v \in Checked(r) : t = Enforced(v)
    OBVIOUS
<1>2. PICK v \in Checked(r) : t = Enforced(v)
    BY <1>1
<1>3. /\ r \in Services /\ Coherent(r) /\ SameControl(s, r) /\ r.users \in {s.users, {}}
      /\ s.failed # None /\ ~s.failed.retry /\ ~s.kernel.running => r = s
    <2>1. CASE r = s
        BY <2>1 DEF SameControl
    <2>2. CASE r # s
        <3> DEFINE u == [s EXCEPT !.failed = None]
        <3>1. /\ s.failed.retry /\ ~s.kernel.running /\ s.config # None
              /\ r \in applyChanges(u)
            BY <1>1, <2>2 DEF Retried
        <3>2. /\ u \in Services /\ u.config = s.config /\ u.users = s.users
              /\ u.failed = None /\ SameControl(s, u) /\ u.config \in Configs
            BY <3>1 DEF Services, SameControl
        <3> HIDE DEF u
        <3>3. Settled(u)
            BY <3>2 DEF Settled
        <3>4. /\ r \in Services /\ Coherent(r) /\ SameControl(u, r) /\ r.users = Served(u)
            BY <3>1, <3>2, <3>3, ApplyChangesStep
        <3> QED
            BY <3>1, <3>2, <3>4 DEF SameControl, Served
    <2> QED
        BY <2>1, <2>2
<1>4. /\ v \in Services /\ Coherent(v) /\ SameControl(r, v) /\ v.users = r.users
      /\ ~r.kernel.running => v = r
    <2>1. CASE v = r
        BY <1>3, <2>1 DEF SameControl
    <2>2. CASE v # r
        <3>1. r.kernel.running /\ \E b \in BOOLEAN : v = failRuntime(r, b)
            BY <1>2, <2>2 DEF Checked
        <3>2. r.config \in Configs
            BY <1>3, <3>1 DEF Coherent
        <3> QED
            BY <1>3, <3>1, <3>2, FailStops
    <2> QED
        BY <2>1, <2>2
<1>5. /\ t \in Services /\ Coherent(t) /\ SameControl(v, t) /\ t.users = v.users
      /\ ~v.kernel.running => ~t.kernel.running
    <2>1. CASE t = v
        BY <1>4, <2>1 DEF SameControl
    <2>2. CASE t # v
        <3> DEFINE no == FALSE
        <3>1. v.applied /\ t = failRuntime(v, no) /\ no \in BOOLEAN
            BY <1>2, <2>2 DEF Enforced
        <3>2. v.config \in Configs
            BY <1>4, <3>1 DEF Coherent
        <3> HIDE DEF no
        <3> QED
            BY <1>4, <3>1, <3>2, FailStops
    <2> QED
        BY <2>1, <2>2
<1> QED
    BY <1>3, <1>4, <1>5 DEF SameControl

\* The bootstrap, applied: its users come with its version.
LEMMA BootedStep ==
    ASSUME ControlTypeOK, boot.snap \in 0 .. Len(past), NEW t \in Booted(Fresh)
    PROVE  /\ t \in Services /\ Coherent(t)
           /\ t.pull.stage # "result"
           /\ \/ t.users = {} /\ t.gate = NoVersion
              \/ /\ boot.snap \in 1 .. Len(past)
                 /\ t.users \subseteq past[boot.snap].users
                 /\ t.gate.epoch = past[boot.snap].epoch /\ t.gate.seq = past[boot.snap].seq
<1>1. Fresh \in Services /\ Coherent(Fresh)
    BY StoppedType DEF Fresh, Services, Coherent, Stopped, NoVersion, NoPull, Gates
<1>2. Fresh.users = {} /\ Fresh.gate = NoVersion /\ Fresh.pull.stage = "idle"
    BY DEF Fresh, NoPull
<1>3. CASE boot.snap = 0
    <2>1. t = Fresh
        BY <1>3 DEF Booted
    <2> QED
        BY <1>1, <1>2, <2>1
<1>4. CASE boot.snap \in 1 .. Len(past)
    <2> DEFINE r == past[boot.snap]
               us == IF r.config \in Landing THEN {} ELSE r.users
               u == [Fresh EXCEPT !.config = r.config, !.users = us]
    <2>1. r \in States
        BY <1>4 DEF ControlTypeOK
    <2>2. /\ r.config \in Configs /\ r.users \in SUBSET UserIds /\ r.epoch \in Nat \ {0}
          /\ r.seq \in Nat /\ us \in SUBSET UserIds /\ us \subseteq r.users
        BY <2>1 DEF States
    <2>3. PICK v \in applyChanges(u) : t = [v EXCEPT !.gate = Accept(@, r)]
        BY <1>4, SMT DEF Booted
    <2> HIDE DEF r, us
    <2>4. /\ u \in Services /\ u.config = r.config /\ u.users = us /\ u.gate = NoVersion
          /\ u.kernel = Stopped /\ u.pull = NoPull
        BY <1>1, <2>2 DEF Services, Fresh
    <2> HIDE DEF u
    <2>5. Settled(u) /\ cert \in Nat
        BY <2>4 DEF Settled, Stopped, ControlTypeOK
    <2>6. /\ v \in Services /\ Coherent(v) /\ SameControl(u, v) /\ v.users = Served(u)
        BY <2>2, <2>4, <2>5, ApplyChangesStep
    <2>7. v.gate = NoVersion /\ v.users \subseteq r.users /\ v.pull.stage # "result"
        BY <2>2, <2>4, <2>6 DEF SameControl, Served, NoPull
    <2>8. NoVersion \in Gates /\ Accepts(NoVersion, r)
        BY <2>2 DEF NoVersion, Gates, Accepts
    <2> DEFINE g == Accept(v.gate, r)
    <2>9. g \in Gates /\ g.epoch = r.epoch /\ g.seq = r.seq
        BY <2>2, <2>7, <2>8, AcceptType
    <2>10. t = [v EXCEPT !.gate = g]
        BY <2>3
    <2> HIDE DEF g
    <2>11. /\ t \in Services /\ SameRuntime(v, t) /\ t.gate = g /\ t.pull = v.pull
        BY <2>6, <2>9, <2>10 DEF Services, SameRuntime
    <2>12. Coherent(t)
        BY <2>6, <2>11, SameRuntimeCoherent
    <2> QED
        BY <1>4, <2>7, <2>9, <2>11, <2>12 DEF SameRuntime, r
<1> QED
    BY <1>3, <1>4

-----------------------------------------------------------------------------
(***************************************************************************)
(* The mailbox, the queues and the panel.                                  *)
(***************************************************************************)
\* A mailbox with changes of the configuration has a configuration.
BoxOK(b) == b \in Boxes /\ (b.dirtyConfig \/ b.snapshot => b.config \in Configs)

\* The empty mailbox.
LEMMA EmptyBoxOK == BoxOK(EmptyBox)
BY DEF BoxOK, EmptyBox, Boxes, NoVersion, Gates

\* NodeMailbox.Apply
LEMMA BoxApplyOK ==
    ASSUME NEW b, BoxOK(b), NEW e \in Events
    PROVE  BoxOK(BoxApply(b, e))
<1> DEFINE g == Accept(b.gate, e)
           c == [b EXCEPT !.gate = g, !.notified = TRUE]
           us == Changed(b.users, e.action, e.users)
<1>1. /\ e.epoch \in Nat /\ e.seq \in Nat /\ e.users \in SUBSET UserIds
      /\ e.type \in {"snapshot", "config", "users", "delta"}
      /\ e.type \in {"snapshot", "config"} => e.config \in Configs
    BY DEF Events
<1>2. b \in Boxes /\ b.gate \in Gates /\ b.users \in SUBSET UserIds
      /\ (b.dirtyConfig \/ b.snapshot => b.config \in Configs)
    BY DEF BoxOK, Boxes
<1>3. g \in Gates /\ us \in SUBSET UserIds
    BY <1>1, <1>2, AcceptType, ChangedType
<1>4. c.users = b.users /\ c.full = b.full
    BY <1>2 DEF Boxes
<1>5. \/ BoxApply(b, e) = b
      \/ /\ e.type = "snapshot"
         /\ BoxApply(b, e) = [c EXCEPT !.config = e.config, !.users = e.users, !.full = TRUE,
                                !.dirtyConfig = TRUE, !.dirtyUsers = TRUE, !.snapshot = TRUE]
      \/ /\ e.type = "config"
         /\ BoxApply(b, e) = [c EXCEPT !.config = e.config, !.dirtyConfig = TRUE]
      \/ BoxApply(b, e) = [c EXCEPT !.users = e.users, !.full = TRUE, !.dirtyUsers = TRUE]
      \/ BoxApply(b, e) = [c EXCEPT !.users = us, !.dirtyUsers = TRUE]
      \/ BoxApply(b, e) = [c EXCEPT !.reconcile = TRUE]
    <2>1. BoxApply(b, e) =
            IF ~Accepts(b.gate, e) THEN b
            ELSE CASE e.type = "snapshot" ->
                        [c EXCEPT !.config = e.config, !.users = e.users, !.full = TRUE,
                           !.dirtyConfig = TRUE, !.dirtyUsers = TRUE, !.snapshot = TRUE]
                   [] e.type = "config" -> [c EXCEPT !.config = e.config, !.dirtyConfig = TRUE]
                   [] e.type = "users" ->
                        [c EXCEPT !.users = e.users, !.full = TRUE, !.dirtyUsers = TRUE]
                   [] e.type = "delta" ->
                        IF b.full THEN [c EXCEPT !.users = us, !.dirtyUsers = TRUE]
                        ELSE [c EXCEPT !.reconcile = TRUE]
        BY <1>2, <1>4 DEF BoxApply, Boxes
    <2> HIDE DEF c, us
    <2> QED
        BY <1>1, <2>1
<1>6. c \in Boxes /\ (c.dirtyConfig \/ c.snapshot => c.config \in Configs)
    <2> HIDE DEF g
    <2> QED
        BY <1>2, <1>3 DEF Boxes
<1> HIDE DEF c, us
<1>7. CASE BoxApply(b, e) = b
    BY <1>7
<1>8. CASE /\ e.type = "snapshot"
           /\ BoxApply(b, e) = [c EXCEPT !.config = e.config, !.users = e.users, !.full = TRUE,
                                  !.dirtyConfig = TRUE, !.dirtyUsers = TRUE, !.snapshot = TRUE]
    BY <1>1, <1>6, <1>8 DEF BoxOK, Boxes
<1>9. CASE /\ e.type = "config"
           /\ BoxApply(b, e) = [c EXCEPT !.config = e.config, !.dirtyConfig = TRUE]
    BY <1>1, <1>6, <1>9 DEF BoxOK, Boxes
<1>10. CASE BoxApply(b, e) = [c EXCEPT !.users = e.users, !.full = TRUE, !.dirtyUsers = TRUE]
    BY <1>1, <1>6, <1>10 DEF BoxOK, Boxes
<1>11. CASE BoxApply(b, e) = [c EXCEPT !.users = us, !.dirtyUsers = TRUE]
    BY <1>3, <1>6, <1>11 DEF BoxOK, Boxes
<1>12. CASE BoxApply(b, e) = [c EXCEPT !.reconcile = TRUE]
    BY <1>6, <1>12 DEF BoxOK, Boxes
<1> QED
    BY <1>5, <1>7, <1>8, <1>9, <1>10, <1>11, <1>12

\* DrainIfReady
LEMMA DrainedOK ==
    ASSUME NEW b, BoxOK(b)
    PROVE  /\ BoxOK(Drained(b)) /\ BoxOK([Drained(b) EXCEPT !.notified = FALSE])
           /\ ~[Drained(b) EXCEPT !.notified = FALSE].notified
<1>1. BoxOK(Drained(b))
    BY DEF BoxOK, Boxes, Drained
<1> DEFINE d == Drained(b)
<1> HIDE DEF d
<1>2. ASSUME BoxOK(d)
      PROVE  BoxOK([d EXCEPT !.notified = FALSE]) /\ ~[d EXCEPT !.notified = FALSE].notified
    BY <1>2 DEF BoxOK, Boxes
<1> QED
    BY <1>1, <1>2 DEF d

\* markMailboxReadyAndDrain gives the mailbox the bootstrap's configuration.
LEMMA SeededOK ==
    ASSUME NEW b, BoxOK(b), NEW s \in Services
    PROVE  BoxOK([SeedBaseline(b, s) EXCEPT !.ready = TRUE, !.notified = TRUE])
<1> DEFINE us == IF b.full THEN b.users ELSE s.users
           c == IF b.config = None THEN s.config ELSE b.config
           d == [b EXCEPT !.users = us, !.full = TRUE, !.config = c]
<1>1. b \in Boxes /\ (b.dirtyConfig \/ b.snapshot => b.config \in Configs)
    BY DEF BoxOK
<1>2. /\ us \in SUBSET UserIds /\ c \in Configs \cup {None}
      /\ b.config \in Configs => c = b.config
    BY <1>1, ControlAssumption DEF Boxes, Services
<1>3. SeedBaseline(b, s) = d
    BY <1>1 DEF SeedBaseline
<1> HIDE DEF us, c
<1>4. d \in Boxes /\ (d.dirtyConfig \/ d.snapshot => d.config \in Configs)
    BY <1>1, <1>2 DEF Boxes
<1> HIDE DEF d
<1>5. BoxOK([d EXCEPT !.ready = TRUE, !.notified = TRUE])
    BY <1>4 DEF BoxOK, Boxes
<1> QED
    BY <1>3, <1>5

\* Appending and taking keep a queue one.
LEMMA QueueType ==
    ASSUME NEW S, NEW queue \in Seq(S)
    PROVE  /\ \A x \in S : Append(queue, x) \in Seq(S)
           /\ queue # <<>> => /\ Tail(queue) \in Seq(S) /\ Head(queue) \in S
                              /\ Len(Tail(queue)) = Len(queue) - 1
                              /\ 1 \in 1 .. Len(queue) /\ Head(queue) = queue[1]
                              /\ \A i \in 1 .. Len(Tail(queue)) :
                                    Tail(queue)[i] = queue[i + 1] /\ i + 1 \in 1 .. Len(queue)
OBVIOUS

\* A status is queued or lost.
LEMMA PostedType ==
    ASSUME NEW queue \in Seq([resync : BOOLEAN]), NEW status \in [resync : BOOLEAN]
    PROVE  Posted(queue, status) \in Seq([resync : BOOLEAN])
<1> DEFINE S == [resync : BOOLEAN]
<1> HIDE DEF S
<1>1. queue \in Seq(S) /\ status \in S => Append(queue, status) \in Seq(S)
    BY QueueType
<1> QED
    BY <1>1 DEF Posted, S

\* A state that is appended is the last.
LEMMA HistoryGrows ==
    ASSUME NEW states \in Seq(States), states # <<>>, NEW q \in States,
           NEW more, more = Append(states, q)
    PROVE  /\ more \in Seq(States) /\ more # <<>> /\ Len(more) = Len(states) + 1
           /\ \A i \in 1 .. Len(states) : more[i] = states[i]
           /\ more[Len(more)] = q
           /\ \A e : KnownIn(states, e) => KnownIn(more, e)
<1>1. /\ more \in Seq(States) /\ Len(more) = Len(states) + 1 /\ Len(states) \in Nat
      /\ \A i \in 1 .. Len(states) : more[i] = states[i]
      /\ more[Len(more)] = q
    OBVIOUS
<1>2. more # <<>>
    BY <1>1
<1>3. \A i \in 1 .. Len(states) : i \in 1 .. Len(more)
    BY <1>1
<1>4. ASSUME NEW e, KnownIn(states, e) PROVE KnownIn(more, e)
    BY <1>1, <1>3, <1>4 DEF KnownIn
<1> QED
    BY <1>1, <1>2, <1>4

\* The panel pushes its new state, or what is new in it.
LEMMA PushesKnown ==
    ASSUME NEW p \in States, NEW q \in States, NEW e \in Pushes(p, q),
           NEW states \in Seq(States), states # <<>>, states[Len(states)] = q
    PROVE  e \in Events /\ KnownIn(states, e)
<1>1. /\ e.type \in {"snapshot", "config", "users", "delta"} /\ e.epoch = q.epoch
      /\ e.seq = q.seq /\ e.config = q.config /\ e.action \in {"add", "remove"}
      /\ e.users \in SUBSET UserIds
      /\ e = [type |-> e.type, epoch |-> e.epoch, seq |-> e.seq, config |-> e.config,
              users |-> e.users, action |-> e.action]
      /\ e.type \in {"snapshot", "users"} => e.users = q.users
      /\ e.type = "delta" /\ e.action = "add" => e.users \subseteq q.users
    <2>1. /\ q.epoch \in Nat /\ q.users \in SUBSET UserIds /\ p.users \in SUBSET UserIds
        BY DEF States
    <2>2. \/ e = Event(q, "snapshot", "add", q.users)
          \/ e = Event(q, "config", "add", {})
          \/ e = Event(q, "users", "add", q.users)
          \/ e = Event(q, "delta", "add", q.users \ p.users)
          \/ e = Event(q, "delta", "remove", p.users \ q.users)
        BY DEF Pushes
    <2> QED
        BY <2>1, <2>2 DEF Event
<1>2. q.epoch \in Nat /\ q.seq \in Nat /\ q.config \in Configs
    BY DEF States
<1>3. e \in Events
    BY <1>1, <1>2 DEF Events
<1>4. Len(states) \in 1 .. Len(states)
    OBVIOUS
<1> QED
    BY <1>1, <1>3, <1>4 DEF KnownIn

-----------------------------------------------------------------------------
(***************************************************************************)
(* The steps keep the invariant.                                           *)
(***************************************************************************)
\* The first state.
LEMMA ControlInitInv == ControlInit => ControlInv
<1> SUFFICES ASSUME ControlInit PROVE ControlInv
    OBVIOUS
<1>1. PICK c \in Configs :
        past = <<[epoch |-> 1, seq |-> 1, config |-> c, users |-> UserIds]>>
    BY DEF ControlInit
<1>2. [epoch |-> 1, seq |-> 1, config |-> c, users |-> UserIds] \in States
    BY DEF States
<1>3. past \in Seq(States) /\ past # <<>> /\ Len(past) = 1
    BY <1>1, <1>2
<1>4. Fresh \in Services /\ Coherent(Fresh) /\ Fresh.pull.stage = "idle"
    BY StoppedType DEF Fresh, Services, Coherent, Stopped, NoVersion, NoPull, Gates
<1>5. BoxOK(EmptyBox) /\ ~EmptyBox.notified
    BY EmptyBoxOK DEF EmptyBox
<1>6. mode \in {"node", "machine"}
    BY ControlAssumption DEF ControlInit
<1>7. boot = [stage |-> "start", snap |-> 0] /\ boot.stage = "start" /\ events = <<>>
      /\ boot \in [stage : {"start", "read", "done"}, snap : Nat]
    BY DEF ControlInit
<1>8. ControlTypeOK
    <2>1. /\ replica = 1 /\ up = FALSE /\ links = 0 /\ events = <<>> /\ statuses = <<>>
          /\ cert = 0 /\ renewed = FALSE /\ svc = Fresh /\ box = EmptyBox
        BY DEF ControlInit
    <2>2. events \in Seq(Events) /\ statuses \in Seq([resync : BOOLEAN])
        BY <2>1
    <2>3. replica \in 1 .. Len(past) /\ links \in Nat /\ cert \in Nat
        BY <1>3, <2>1
    <2> QED
        BY <1>3, <1>4, <1>5, <1>6, <1>7, <2>1, <2>2, <2>3 DEF ControlTypeOK, BoxOK
<1> QED
    BY <1>4, <1>5, <1>7, <1>8 DEF ControlInit, ControlInv, BoxOK

\* The main loop may change the service, take from the queues and drain the
\* mailbox; that is all.
LEMMA LoopInv ==
    ASSUME ControlInv, Running, UNCHANGED <<replicaVars, up, links, certVars, boot>>,
           svc' \in Services, Coherent(svc'),
           svc'.pull.stage = "result" => svc.pull.stage = "result" /\ svc'.pull.snap = svc.pull.snap,
           events' = events \/ (events # <<>> /\ events' = Tail(events)),
           statuses' = statuses \/ (statuses # <<>> /\ statuses' = Tail(statuses)),
           BoxOK(box'), box' = box \/ ~box'.notified
    PROVE  ControlInv'
<1>1. events' \in Seq(Events) /\ \A i \in 1 .. Len(events') : KnownIn(past, events'[i])
    <2>1. events \in Seq(Events) /\ \A i \in 1 .. Len(events) : KnownIn(past, events[i])
        BY DEF ControlInv, ControlTypeOK
    <2>2. CASE events' = events
        BY <2>1, <2>2
    <2>3. CASE events # <<>> /\ events' = Tail(events)
        BY <2>1, <2>3, QueueType
    <2> QED
        BY <2>2, <2>3
<1>2. statuses' \in Seq([resync : BOOLEAN])
    <2> DEFINE S == [resync : BOOLEAN]
    <2>1. statuses \in Seq(S)
        BY DEF ControlInv, ControlTypeOK
    <2> HIDE DEF S
    <2>2. statuses' \in Seq(S)
        BY <2>1, QueueType
    <2> QED
        BY <2>2 DEF S
<1>3. ControlTypeOK'
    BY <1>1, <1>2 DEF ControlInv, ControlTypeOK, BoxOK, replicaVars, certVars
<1>4. Coherent(svc)' /\ boot'.stage = "done"
    BY DEF Running, Coherent
<1>5. (box.dirtyConfig \/ box.snapshot => box.config \in Configs)'
    BY DEF BoxOK
<1>6. (svc.pull.stage = "result" => svc.pull.snap \in 1 .. Len(past))'
    BY DEF ControlInv, replicaVars
<1>7. \A i \in 1 .. Len(events') : KnownIn(past', events'[i])
    BY <1>1 DEF replicaVars
<1>8. (mode = "node" => ~box.notified)'
    BY DEF ControlInv, replicaVars
<1> QED
    BY <1>3, <1>4, <1>5, <1>6, <1>7, <1>8 DEF ControlInv

\* The parts of the invariant that the handlers use.
LEMMA InvParts ==
    ASSUME ControlInv
    PROVE  /\ svc \in Services /\ Coherent(svc) /\ cert \in Nat /\ up \in BOOLEAN
           /\ BoxOK(box) /\ events \in Seq(Events) /\ statuses \in Seq([resync : BOOLEAN])
BY DEF ControlInv, ControlTypeOK, BoxOK

\* handleWSStatus only asks.
LEMMA StatusStep ==
    ASSUME NEW s \in Services, NEW status
    PROVE  /\ handleWSStatus(s, status) \in Services
           /\ SameControl(s, handleWSStatus(s, status))
           /\ SameRuntime(s, handleWSStatus(s, status))
<1> DEFINE u == [s EXCEPT !.sync = FALSE]
           v == IF status.resync THEN requestWSResync(u) ELSE u
<1>1. u \in Services /\ SameControl(s, u) /\ SameRuntime(s, u)
    BY DEF Services, SameControl, SameRuntime
<1>2. handleWSStatus(s, status) = pullViaAPIAsync(v)
    BY DEF handleWSStatus
<1> HIDE DEF u
<1>3. v \in Services /\ SameControl(u, v) /\ SameRuntime(u, v)
    BY <1>1, ResyncStep DEF SameControl, SameRuntime
<1> HIDE DEF v
<1>4. /\ pullViaAPIAsync(v) \in Services /\ SameControl(v, pullViaAPIAsync(v))
      /\ SameRuntime(v, pullViaAPIAsync(v))
    BY <1>3, AskStep DEF SameRuntime
<1> QED
    BY <1>1, <1>2, <1>3, <1>4 DEF SameControl, SameRuntime

\* The cases of the main loop.
LEMMA LoopStepInv ==
    ASSUME ControlInv,
           HandleEvent \/ HandleStatus \/ DrainMailbox \/ PullTick \/ Reconcile \/ PullResult
             \/ trackAndEnforce
    PROVE  ControlInv'
<1>1. /\ svc \in Services /\ Coherent(svc) /\ cert \in Nat /\ up \in BOOLEAN
      /\ BoxOK(box) /\ events \in Seq(Events)
    BY InvParts
<1>2. CASE HandleEvent
    <2>1. Head(events) \in Events
        BY <1>1, <1>2 DEF HandleEvent
    <2>2. Handled(svc, Head(events), svc')
        BY <1>1, <1>2, <2>1, HandleEventStep DEF HandleEvent
    <2> QED
        BY <1>1, <1>2, <2>2, LoopInv DEF HandleEvent, Handled
<1>3. CASE HandleStatus
    <2>1. /\ svc' \in Services /\ SameControl(svc, svc') /\ SameRuntime(svc, svc')
        BY <1>1, <1>3, StatusStep DEF HandleStatus
    <2>2. Coherent(svc')
        BY <1>1, <2>1, SameRuntimeCoherent
    <2> QED
        BY <1>1, <1>3, <2>1, <2>2, LoopInv DEF HandleStatus, SameControl
<1>4. CASE DrainMailbox
    <2>1. /\ svc' \in Services /\ Coherent(svc')
          /\ svc'.pull.stage = "result" =>
               svc.pull.stage = "result" /\ svc'.pull.snap = svc.pull.snap
        BY <1>1, <1>4, DrainStep DEF DrainMailbox, BoxOK
    <2>2. BoxOK(box') /\ ~box'.notified
        BY <1>1, <1>4, DrainedOK DEF DrainMailbox
    <2> QED
        BY <1>4, <2>1, <2>2, LoopInv DEF DrainMailbox, linkVars
<1>5. CASE PullTick \/ Reconcile
    <2>1. /\ svc' \in Services /\ SameControl(svc, svc') /\ SameRuntime(svc, svc')
        BY <1>1, <1>5, AskStep DEF PullTick, Reconcile, SameRuntime
    <2>2. Coherent(svc')
        BY <1>1, <2>1, SameRuntimeCoherent
    <2> QED
        BY <1>1, <1>5, <2>1, <2>2, LoopInv DEF PullTick, Reconcile, SameControl, linkVars
<1>6. CASE PullResult
    <2> DEFINE s == [svc EXCEPT !.pull = NoPull]
               r == past[svc.pull.snap]
    <2>1. s \in Services /\ SameRuntime(svc, s) /\ s.pull = NoPull
        BY <1>1 DEF Services, SameRuntime, NoPull
    <2>2. Coherent(s)
        BY <1>1, <2>1, SameRuntimeCoherent
    <2>3. r \in States
        BY <1>6 DEF PullResult, ControlInv, ControlTypeOK
    <2>4. r.epoch \in Nat /\ r.seq \in Nat /\ r.config \in Configs /\ r.users \in SUBSET UserIds
        BY <2>3 DEF States
    <2>5. svc.pull.stale \in BOOLEAN /\ svc.pull.cert \in BOOLEAN
        BY <1>1 DEF Services
    <2>6. svc' \in applyPullResult(s, r, svc.pull.stale, svc.pull.cert)
        BY <1>6 DEF PullResult
    <2> HIDE DEF s, r
    <2>7. /\ svc' \in Services /\ Coherent(svc')
          /\ svc'.pull.stage = "result" => s.pull.stage = "result"
        BY <1>1, <2>1, <2>2, <2>4, <2>5, <2>6, ApplyPullResultStep
    <2>8. svc'.pull.stage # "result"
        BY <2>1, <2>7 DEF NoPull
    <2> QED
        BY <1>1, <1>6, <2>7, <2>8, LoopInv DEF PullResult, linkVars
<1>7. CASE trackAndEnforce
    <2>1. svc' \in Services /\ Coherent(svc') /\ SameControl(svc, svc')
        BY <1>1, <1>7, TrackStep DEF trackAndEnforce
    <2> QED
        BY <1>1, <1>7, <2>1, LoopInv DEF trackAndEnforce, SameControl, linkVars
<1> QED
    BY <1>2, <1>3, <1>4, <1>5, <1>6, <1>7

\* The bootstrap.
LEMMA BootStepInv ==
    ASSUME ControlInv, InitialPoll \/ initialSetup
    PROVE  ControlInv'
<1>1. /\ svc \in Services /\ Coherent(svc) /\ cert \in Nat /\ up \in BOOLEAN
      /\ BoxOK(box) /\ events \in Seq(Events)
    BY InvParts
<1>2. CASE InitialPoll
    <2>1. PICK i \in {replica, Len(past)} \cup (IF mode = "node" THEN {0} ELSE {}) :
            boot' = [stage |-> "read", snap |-> i]
        BY <1>2 DEF InitialPoll
    <2>2. i \in 0 .. Len(past) /\ Len(past) \in Nat
        BY <2>1 DEF ControlInv, ControlTypeOK
    <2>3. svc = Fresh /\ UNCHANGED <<replicaVars, linkVars, box, certVars, svc>>
        BY <1>2 DEF InitialPoll, ControlInv
    <2>4. ControlTypeOK'
        BY <2>1, <2>2, <2>3 DEF ControlInv, ControlTypeOK, replicaVars, linkVars, certVars
    <2> QED
        BY <2>1, <2>2, <2>3, <2>4 DEF ControlInv, replicaVars, linkVars, Coherent
<1>3. CASE initialSetup
    <2>1. svc = Fresh /\ boot.snap \in 0 .. Len(past) /\ ControlTypeOK
        BY <1>3 DEF initialSetup, ControlInv
    <2>2. PICK s \in Booted(Fresh) :
            IF mode = "machine"
              THEN LET b == [SeedBaseline(box, s) EXCEPT !.ready = TRUE, !.notified = TRUE]
                   IN box' = Drained(b) /\ svc' \in drainMachineMailbox(s, b)
              ELSE svc' = s /\ UNCHANGED box
        BY <1>3, <2>1 DEF initialSetup
    <2>3. s \in Services /\ Coherent(s) /\ s.pull.stage # "result"
        BY <2>1, BootedStep
    <2>4. /\ svc' \in Services /\ Coherent(svc') /\ svc'.pull.stage # "result"
          /\ BoxOK(box') /\ (mode = "node" => box' = box)
        <3>1. CASE mode # "machine"
            BY <1>1, <2>2, <2>3, <3>1
        <3>2. CASE mode = "machine"
            <4> DEFINE b == [SeedBaseline(box, s) EXCEPT !.ready = TRUE, !.notified = TRUE]
            <4>1. box' = Drained(b) /\ svc' \in drainMachineMailbox(s, b)
                BY <2>2, <3>2
            <4>2. BoxOK(b)
                BY <1>1, <2>3, SeededOK
            <4> HIDE DEF b
            <4>3. BoxOK(box')
                BY <4>1, <4>2, DrainedOK
            <4>4. svc' \in Services /\ Coherent(svc') /\ svc'.pull.stage # "result"
                BY <1>1, <2>3, <4>1, <4>2, DrainStep DEF BoxOK
            <4> QED
                BY <3>2, <4>3, <4>4
        <3> QED
            BY <3>1, <3>2
    <2>5. boot' = [stage |-> "done", snap |-> 0]
          /\ UNCHANGED <<replicaVars, linkVars, certVars>>
        BY <1>3 DEF initialSetup
    <2>6. ControlTypeOK'
        BY <2>1, <2>4, <2>5 DEF ControlTypeOK, replicaVars, linkVars, certVars, BoxOK
    <2> QED
        BY <2>4, <2>5, <2>6 DEF ControlInv, replicaVars, linkVars, Coherent, BoxOK
<1> QED
    BY <1>2, <1>3

\* The other goroutines of the node.
LEMMA GoroutineStepInv ==
    ASSUME ControlInv,
           PollAnswered \/ PollFailed \/ BackoffEnds \/ CertRenewed \/ KernelDies
    PROVE  ControlInv'
<1>1. svc \in Services /\ Coherent(svc) /\ ControlTypeOK /\ Len(past) \in Nat
    BY InvParts DEF ControlInv, ControlTypeOK
<1>2. boot.stage # "done" =>
        svc.pull.stage = "idle" /\ svc.backoff = FALSE /\ svc.kernel.running = FALSE
    BY DEF ControlInv, Fresh, NoPull, Stopped
<1>3. ASSUME UNCHANGED <<replicaVars, linkVars, box, cert, boot>>, renewed' \in BOOLEAN,
             boot.stage = "done", svc' \in Services, Coherent(svc'),
             svc'.pull.stage = "result" => svc'.pull.snap \in 1 .. Len(past)
      PROVE  ControlInv'
    <2>1. ControlTypeOK'
        BY <1>1, <1>3 DEF ControlTypeOK, replicaVars, linkVars
    <2> QED
        BY <1>3, <2>1 DEF ControlInv, replicaVars, linkVars, Coherent
<1>4. CASE PollAnswered
    <2>1. PICK i \in {replica, Len(past)} :
            svc' = [svc EXCEPT !.pull = [@ EXCEPT !.stage = "result", !.snap = i,
                                                  !.cert = renewed]]
        BY <1>4 DEF PollAnswered
    <2>2. i \in 1 .. Len(past) /\ i \in Nat /\ renewed \in BOOLEAN
        BY <1>1 DEF ControlTypeOK
    <2>3. i \in Nat /\ renewed \in BOOLEAN
        BY <2>2
    <2>4. svc.pull \in [stage : {"idle", "asked", "result"}, stale : BOOLEAN, snap : Nat,
                       cert : BOOLEAN]
        BY <1>1 DEF Services
    <2> DEFINE p == [svc.pull EXCEPT !.stage = "result", !.snap = i, !.cert = renewed]
    <2>5. /\ p \in [stage : {"idle", "asked", "result"}, stale : BOOLEAN, snap : Nat,
                    cert : BOOLEAN]
          /\ p.snap = i
        BY <2>3, <2>4
    <2>6. svc' = [svc EXCEPT !.pull = p]
        BY <2>1
    <2> HIDE DEF p
    <2>7. svc' \in Services /\ SameRuntime(svc, svc') /\ svc'.pull = p
        BY <1>1, <2>5, <2>6 DEF Services, SameRuntime
    <2>8. Coherent(svc')
        BY <1>1, <2>7, SameRuntimeCoherent
    <2>9. /\ UNCHANGED <<replicaVars, linkVars, box, cert, boot>> /\ renewed' \in BOOLEAN
          /\ boot.stage = "done"
        BY <1>2, <1>4 DEF PollAnswered
    <2> QED
        BY <1>3, <2>2, <2>5, <2>7, <2>8, <2>9
<1>5. CASE PollFailed \/ BackoffEnds
    <2>1. svc' \in Services /\ SameRuntime(svc, svc')
          /\ (svc'.pull.stage = "result" => svc'.pull = svc.pull)
        <3>1. CASE PollFailed
            <4>1. NoPull \in [stage : {"idle", "asked", "result"}, stale : BOOLEAN, snap : Nat,
                              cert : BOOLEAN] /\ NoPull.stage = "idle"
                BY DEF NoPull
            <4>2. svc' = [svc EXCEPT !.pull = NoPull, !.backoff = TRUE]
                BY <3>1 DEF PollFailed
            <4> QED
                BY <1>1, <4>1, <4>2 DEF Services, SameRuntime
        <3>2. CASE BackoffEnds
            <4>1. svc' = [svc EXCEPT !.backoff = FALSE]
                BY <3>2 DEF BackoffEnds
            <4> QED
                BY <1>1, <4>1 DEF Services, SameRuntime
        <3> QED
            BY <1>5, <3>1, <3>2
    <2>2. Coherent(svc')
        BY <1>1, <2>1, SameRuntimeCoherent
    <2>3. UNCHANGED <<replicaVars, linkVars, box, cert, boot, renewed>> /\ boot.stage = "done"
        BY <1>2, <1>5 DEF PollFailed, BackoffEnds, certVars
    <2>4. svc.pull.stage = "result" => svc.pull.snap \in 1 .. Len(past)
        BY DEF ControlInv
    <2>5. renewed' \in BOOLEAN
        BY <1>1, <2>3 DEF ControlTypeOK
    <2> QED
        BY <1>3, <2>1, <2>2, <2>3, <2>4, <2>5
<1>6. CASE KernelDies
    <2>1. /\ svc' \in Services /\ svc'.kernel = Stopped /\ svc'.pull = svc.pull
          /\ svc'.failed = svc.failed /\ svc'.applied = svc.applied
          /\ svc'.config = svc.config /\ svc'.users = svc.users
        BY <1>1, <1>6, StoppedType DEF KernelDies, Services
    <2>2. Coherent(svc')
        BY <1>1, <2>1 DEF Coherent, Stopped
    <2>3. UNCHANGED <<replicaVars, linkVars, box, cert, boot, renewed>> /\ boot.stage = "done"
        BY <1>2, <1>6 DEF KernelDies, certVars
    <2>4. svc.pull.stage = "result" => svc.pull.snap \in 1 .. Len(past)
        BY DEF ControlInv
    <2>5. renewed' \in BOOLEAN
        BY <1>1, <2>3 DEF ControlTypeOK
    <2> QED
        BY <1>3, <2>1, <2>2, <2>3, <2>4, <2>5
<1>7. CASE CertRenewed
    <2>1. /\ UNCHANGED <<replicaVars, linkVars, box, boot, svc>> /\ cert' \in Nat
          /\ renewed' \in BOOLEAN
        BY <1>1, <1>7 DEF CertRenewed, ControlTypeOK
    <2>2. ControlTypeOK'
        BY <1>1, <2>1 DEF ControlTypeOK, replicaVars, linkVars
    <2> QED
        BY <2>1, <2>2 DEF ControlInv, replicaVars, linkVars, Coherent
<1> QED
    BY <1>4, <1>5, <1>6, <1>7

\* The connection and the panel.
LEMMA PanelStepInv ==
    ASSUME ControlInv,
           Connect \/ Disconnect \/ PanelChange \/ PanelRestart \/ ReplicaFollows
    PROVE  ControlInv'
<1>1. /\ ControlTypeOK /\ BoxOK(box) /\ events \in Seq(Events)
      /\ statuses \in Seq([resync : BOOLEAN])
      /\ past \in Seq(States) /\ past # <<>> /\ Len(past) \in Nat /\ panel \in States
    BY InvParts DEF ControlInv, ControlTypeOK, panel
<1>2. \A status \in [resync : BOOLEAN] :
        Posted(statuses, status) \in Seq([resync : BOOLEAN])
    BY <1>1, PostedType
<1>3. CASE Connect \/ Disconnect \/ ReplicaFollows
    <2>1. [resync |-> FALSE] \in [resync : BOOLEAN]
        OBVIOUS
    <2>2. /\ mode' = mode /\ past' = past /\ events' = events /\ box' = box /\ cert' = cert
          /\ renewed' = renewed /\ boot' = boot /\ svc' = svc
          /\ statuses' = statuses \/ statuses' = Posted(statuses, [resync |-> FALSE])
        BY <1>3 DEF Connect, Disconnect, ReplicaFollows, replicaVars, linkVars, certVars
    <2>3. statuses' \in Seq([resync : BOOLEAN])
        BY <1>1, <1>2, <2>1, <2>2
    <2>4. up' \in BOOLEAN
        BY <1>1, <1>3 DEF Connect, Disconnect, ReplicaFollows, ControlTypeOK, linkVars
    <2>5. links' \in Nat
        BY <1>1, <1>3 DEF Connect, Disconnect, ReplicaFollows, ControlTypeOK, linkVars
    <2>6. replica' \in 1 .. Len(past)
        BY <1>1, <1>3 DEF Connect, Disconnect, ReplicaFollows, ControlTypeOK, replicaVars
    <2>7. ControlTypeOK'
        BY <1>1, <2>2, <2>3, <2>4, <2>5, <2>6 DEF ControlTypeOK
    <2> QED
        BY <2>2, <2>7 DEF ControlInv, Coherent
<1>4. ASSUME NEW q \in States, past' = Append(past, q), events' \in Seq(Events),
             \A i \in 1 .. Len(events') : KnownIn(past', events'[i]),
             statuses' \in Seq([resync : BOOLEAN]), BoxOK(box'), up' \in BOOLEAN,
             mode = "node" => box' = box,
             UNCHANGED <<mode, replica, links, certVars, boot, svc>>
      PROVE  ControlInv'
    <2>1. past' \in Seq(States) /\ past' # <<>> /\ Len(past') = Len(past) + 1
        BY <1>1, <1>4, HistoryGrows
    <2>2. /\ replica' \in 1 .. Len(past')
          /\ boot.stage = "read" => boot.snap \in 0 .. Len(past')
          /\ svc.pull.stage = "result" => svc.pull.snap \in 1 .. Len(past')
        BY <1>1, <1>4, <2>1 DEF ControlInv, ControlTypeOK
    <2>3. ControlTypeOK'
        BY <1>1, <1>4, <2>1, <2>2 DEF ControlTypeOK, BoxOK, certVars
    <2> QED
        BY <1>4, <2>2, <2>3 DEF ControlInv, BoxOK, Coherent
<1>5. ASSUME NEW q \in States, past' = Append(past, q), events' = events
      PROVE  \A i \in 1 .. Len(events') : KnownIn(past', events'[i])
    BY <1>1, <1>5, HistoryGrows DEF ControlInv
<1>6. CASE PanelChange
    <2>1. PICK c \in Configs, us \in SUBSET UserIds :
            LET q == [panel EXCEPT !.seq = @ + 1, !.config = c, !.users = us]
            IN /\ past' = Append(past, q)
               /\ \/ up /\ \E e \in Pushes(panel, q) : Pushed(e)
                  \/ ~up /\ UNCHANGED <<events, statuses, box>>
        BY <1>6 DEF PanelChange
    <2> DEFINE q == [panel EXCEPT !.seq = @ + 1, !.config = c, !.users = us]
    <2>2. q \in States
        <3>1. panel.seq + 1 \in Nat
            BY <1>1 DEF States
        <3> DEFINE k == panel.seq + 1
        <3> HIDE DEF k
        <3>2. \A p \in States, n \in Nat :
                [p EXCEPT !.seq = n, !.config = c, !.users = us] \in States
            BY DEF States
        <3>3. [panel EXCEPT !.seq = k, !.config = c, !.users = us] \in States
            BY <1>1, <3>1, <3>2 DEF k
        <3> QED
            BY <3>3 DEF k
    <2>3. /\ past' = Append(past, q)
          /\ \/ \E e \in Pushes(panel, q) : Pushed(e)
             \/ UNCHANGED <<events, statuses, box>>
        BY <2>1
    <2> HIDE DEF q
    <2>4. UNCHANGED <<mode, replica, up, links, certVars, boot, svc>>
        BY <1>6 DEF PanelChange
    <2>5. up' \in BOOLEAN
        BY <1>1, <2>4 DEF ControlTypeOK
    <2>6. CASE UNCHANGED <<events, statuses, box>>
        BY <1>1, <1>4, <1>5, <2>2, <2>3, <2>4, <2>5, <2>6
    <2>7. CASE \E e \in Pushes(panel, q) : Pushed(e)
        <3>1. PICK e \in Pushes(panel, q) : Pushed(e)
            BY <2>7
        <3>2. /\ past' \in Seq(States) /\ past' # <<>> /\ past'[Len(past')] = q
              /\ \A f : KnownIn(past, f) => KnownIn(past', f)
            BY <1>1, <2>2, <2>3, HistoryGrows
        <3>3. e \in Events /\ KnownIn(past', e)
            BY <1>1, <2>2, <3>2, PushesKnown
        <3>4. CASE /\ mode = "machine" /\ box' = BoxApply(box, e)
                   /\ UNCHANGED <<events, statuses>>
            <4>1. BoxOK(box')
                BY <1>1, <3>3, <3>4, BoxApplyOK
            <4> QED
                BY <1>1, <1>4, <1>5, <2>2, <2>3, <2>4, <2>5, <3>4, <4>1
        <3>5. CASE mode = "node" /\ events' = Append(events, e) /\ UNCHANGED <<statuses, box>>
            <4>1. /\ events' \in Seq(Events) /\ Len(events') = Len(events) + 1
                  /\ Len(events) \in Nat
                  /\ \A i \in 1 .. Len(events) : events'[i] = events[i]
                  /\ events'[Len(events')] = e
                BY <1>1, <3>3, <3>5
            <4>2. \A i \in 1 .. Len(events') : i \in 1 .. Len(events) \/ i = Len(events')
                BY <4>1
            <4>3. \A i \in 1 .. Len(events) : KnownIn(past', events[i])
                BY <3>2 DEF ControlInv
            <4>4. \A i \in 1 .. Len(events') : KnownIn(past', events'[i])
                BY <3>3, <4>1, <4>2, <4>3
            <4> QED
                BY <1>1, <1>4, <2>2, <2>3, <2>4, <2>5, <3>5, <4>1, <4>4
        <3>6. CASE /\ mode = "node" /\ statuses' = Posted(statuses, [resync |-> TRUE])
                   /\ UNCHANGED <<events, box>>
            <4>1. [resync |-> TRUE] \in [resync : BOOLEAN]
                OBVIOUS
            <4>2. statuses' \in Seq([resync : BOOLEAN])
                BY <1>2, <3>6, <4>1
            <4> QED
                BY <1>1, <1>4, <1>5, <2>2, <2>3, <2>4, <2>5, <3>6, <4>2
        <3> QED
            BY <3>1, <3>4, <3>5, <3>6 DEF Pushed
    <2> QED
        BY <2>3, <2>6, <2>7
<1>7. CASE PanelRestart
    <2> DEFINE q == [panel EXCEPT !.epoch = @ + 1, !.seq = 1]
    <2>1. q \in States
        <3> DEFINE k == panel.epoch + 1
        <3>1. k \in Nat \ {0}
            BY <1>1 DEF States
        <3> HIDE DEF k
        <3>2. \A p \in States, n \in Nat \ {0} : [p EXCEPT !.epoch = n, !.seq = 1] \in States
            BY DEF States
        <3>3. [panel EXCEPT !.epoch = k, !.seq = 1] \in States
            BY <1>1, <3>1, <3>2
        <3> QED
            BY <3>3 DEF k
    <2>2. /\ past' = Append(past, q) /\ up' = FALSE
          /\ UNCHANGED <<mode, replica, links, events, box, certVars, boot, svc>>
          /\ statuses' = IF up THEN Posted(statuses, [resync |-> FALSE]) ELSE statuses
        BY <1>7 DEF PanelRestart
    <2> HIDE DEF q
    <2>3. [resync |-> FALSE] \in [resync : BOOLEAN]
        OBVIOUS
    <2>4. statuses' \in Seq([resync : BOOLEAN])
        BY <1>1, <1>2, <2>2, <2>3
    <2> QED
        BY <1>1, <1>4, <1>5, <2>1, <2>2, <2>4
<1> QED
    BY <1>3, <1>6, <1>7

\* Every step keeps the invariant.
LEMMA ControlStepInv ==
    ASSUME ControlInv, [ControlNext]_controlVars
    PROVE  ControlInv'
<1>1. CASE UNCHANGED controlVars
    BY <1>1 DEF ControlInv, ControlTypeOK, Coherent, controlVars
<1>2. CASE ControlNext
    BY <1>2, LoopStepInv, BootStepInv, GoroutineStepInv, PanelStepInv DEF ControlNext
<1> QED
    BY <1>1, <1>2

-----------------------------------------------------------------------------
(***************************************************************************)
(* The theorems.                                                           *)
(***************************************************************************)
\* The invariant holds throughout.
THEOREM ControlInvariant == ControlSpec => []ControlInv
BY ControlInitInv, ControlStepInv, PTL DEF ControlSpec

\* Every variable keeps its type: among others, what a poll returns is a state
\* the panel was in and what is queued is a push (service.go).
THEOREM ControlTyped == ControlSpec => []ControlTypeOK
<1>1. ControlInv => ControlTypeOK
    BY DEF ControlInv
<1> QED
    BY <1>1, ControlInvariant, PTL

\* Whatever pushes, polls, failures, restarts and renewals come in between, a
\* kernel that runs has the configuration that is wanted, and the users that
\* are wanted but for those that came with a configuration that did not
\* concern it (applyConfigUpdate, applyUserUpdate, applyUserDelta).
THEOREM DesiredIsRun == ControlSpec => []RunsWhatIsDesired
<1>1. ControlInv => RunsWhatIsDesired
    BY DEF ControlInv, Coherent, RunsWhatIsDesired
<1> QED
    BY <1>1, ControlInvariant, PTL

\* What failed, failed for good: no event, poll or contents of the mailbox
\* starts the same again (runtimeAttemptHash).
LEMMA StepDoesNotRetry ==
    ASSUME ControlInv, [ControlNext]_controlVars,
           svc.failed # None, ~svc.failed.retry, ~svc.kernel.running, svc'.kernel.running
    PROVE  Outcome(svc') # svc.failed.attempt
<1>1. /\ svc \in Services /\ Coherent(svc) /\ cert \in Nat /\ up \in BOOLEAN
      /\ BoxOK(box) /\ events \in Seq(Events)
    BY InvParts
<1>2. CASE HandleEvent
    <2>1. Head(events) \in Events
        BY <1>1, <1>2 DEF HandleEvent
    <2>2. Handled(svc, Head(events), svc')
        BY <1>1, <1>2, <2>1, HandleEventStep DEF HandleEvent
    <2> QED
        BY <2>2 DEF Handled, Started
<1>3. CASE HandleStatus
    BY <1>1, <1>3, StatusStep DEF HandleStatus, SameRuntime
<1>4. CASE DrainMailbox
    BY <1>1, <1>4, DrainStep DEF DrainMailbox, BoxOK, NotAgain
<1>5. CASE PullTick \/ Reconcile
    BY <1>1, <1>5, AskStep DEF PullTick, Reconcile
<1>6. CASE PullResult
    <2> DEFINE s == [svc EXCEPT !.pull = NoPull]
               r == past[svc.pull.snap]
    <2>1. s \in Services /\ SameRuntime(svc, s)
        BY <1>1 DEF Services, SameRuntime, NoPull
    <2>2. Coherent(s)
        BY <1>1, <2>1, SameRuntimeCoherent
    <2>3. r \in States
        BY <1>6 DEF PullResult, ControlInv, ControlTypeOK
    <2>4. r.epoch \in Nat /\ r.seq \in Nat /\ r.config \in Configs /\ r.users \in SUBSET UserIds
        BY <2>3 DEF States
    <2>5. svc.pull.stale \in BOOLEAN /\ svc.pull.cert \in BOOLEAN
        BY <1>1 DEF Services
    <2>6. svc' \in applyPullResult(s, r, svc.pull.stale, svc.pull.cert)
        BY <1>6 DEF PullResult
    <2> HIDE DEF s, r
    <2>7. Started(s, svc')
        BY <1>1, <2>1, <2>2, <2>4, <2>5, <2>6, ApplyPullResultStep
    <2> QED
        BY <2>1, <2>7 DEF Started, SameRuntime
<1>7. CASE trackAndEnforce
    BY <1>1, <1>7, TrackStep DEF trackAndEnforce
<1>8. CASE boot.stage # "done"
    BY <1>8 DEF ControlInv, Fresh
<1>9. CASE PollAnswered \/ PollFailed \/ BackoffEnds
    <2>1. svc'.kernel = svc.kernel
        BY <1>1, <1>9, ZenonT(60) DEF PollAnswered, PollFailed, BackoffEnds, Services
    <2> QED
        BY <2>1
<1>10. CASE KernelDies
    BY <1>10 DEF KernelDies
<1>11. CASE \/ UNCHANGED controlVars \/ CertRenewed \/ Connect \/ Disconnect \/ PanelChange
            \/ PanelRestart \/ ReplicaFollows
    BY <1>11 DEF controlVars, CertRenewed, Connect, Disconnect, PanelChange, PanelRestart,
        ReplicaFollows
<1>12. InitialPoll \/ initialSetup => boot.stage # "done"
    BY DEF InitialPoll, initialSetup
<1> QED
    BY <1>2, <1>3, <1>4, <1>5, <1>6, <1>7, <1>8, <1>9, <1>10, <1>11, <1>12 DEF ControlNext

\* A failed configuration, with its users and its certificate, is not started
\* again, however often it is pushed or polled, unless it was the environment
\* that failed (runtimeAttemptBlocked, retrySourceFirewall).
THEOREM FailedIsLeftAlone == ControlSpec => FailedNotRetried
<1>1. ControlInv /\ [ControlNext]_controlVars =>
        [svc.failed # None /\ ~svc.failed.retry /\ ~svc.kernel.running /\ svc'.kernel.running
          => <<svc'.kernel.config, svc'.kernel.users, svc'.kernel.cert>> # svc.failed.attempt]_controlVars
    BY StepDoesNotRetry DEF Outcome
<1> QED
    BY <1>1, ControlInvariant, PTL DEF ControlSpec, FailedNotRetried

\* The states of the panel have their types.
LEMMA StateType ==
    ASSUME ControlTypeOK, NEW i \in 1 .. Len(past)
    PROVE  /\ past[i].epoch \in Nat \ {0} /\ past[i].seq \in Nat /\ past[i].config \in Configs
           /\ past[i].users \in SUBSET UserIds
<1>1. past \in Seq(States)
    BY DEF ControlTypeOK
<1>2. past[i] \in States
    BY <1>1
<1> QED
    BY <1>2 DEF States

\* On a node of its own, every user a step adds is one the panel had at the
\* version the step leaves, and versions of an epoch do not go back.
LEMMA StepAddsCurrentUsers ==
    ASSUME ControlInv, [ControlNext]_controlVars, mode = "node"
    PROVE  AddsCurrentUsers
<1>1. /\ svc \in Services /\ Coherent(svc) /\ cert \in Nat /\ up \in BOOLEAN
      /\ BoxOK(box) /\ events \in Seq(Events) /\ ControlTypeOK
    BY InvParts DEF ControlInv
<1>2. svc.gate \in Gates /\ svc.gate.seq >= svc.gate.seq
    BY <1>1 DEF Services, Gates
<1>3. ASSUME svc'.gate = svc.gate, svc'.users \subseteq svc.users
      PROVE  AddsCurrentUsers
    BY <1>2, <1>3 DEF AddsCurrentUsers
<1>4. ASSUME past' = past, NEW i \in 1 .. Len(past),
             svc'.gate = Accept(svc.gate, past[i]), Accepts(svc.gate, past[i]),
             svc'.users \subseteq svc.users \cup past[i].users
      PROVE  AddsCurrentUsers
    <2>1. past[i].epoch \in Nat /\ past[i].seq \in Nat
        BY <1>1, StateType
    <2>2. /\ svc'.gate.epoch = past[i].epoch /\ svc'.gate.seq = past[i].seq
          /\ svc'.gate.epoch = svc.gate.epoch => svc'.gate.seq >= svc.gate.seq
        <3> DEFINE v == past[i]
        <3>1. v.epoch \in Nat /\ v.seq \in Nat /\ svc.gate \in Gates /\ Accepts(svc.gate, v)
            BY <1>2, <1>4, <2>1
        <3> HIDE DEF v
        <3>2. /\ Accept(svc.gate, v).epoch = svc.gate.epoch
                 => Accept(svc.gate, v).seq >= svc.gate.seq
              /\ Accept(svc.gate, v).epoch = v.epoch /\ Accept(svc.gate, v).seq = v.seq
            BY ONLY <3>1, AcceptType, Zenon
        <3>3. svc'.gate = Accept(svc.gate, v)
            BY <1>4 DEF v
        <3> QED
            BY ONLY <3>2, <3>3, Zenon DEF v
    <2>3. past[i].users \subseteq AcceptedUsers'
        BY <1>4, <2>2 DEF AcceptedUsers
    <2> QED
        BY <1>4, <2>2, <2>3 DEF AddsCurrentUsers
<1>5. CASE HandleEvent
    <2> DEFINE e == Head(events)
    <2>1. e \in Events /\ KnownIn(past, e)
        BY <1>1, <1>5, QueueType DEF HandleEvent, ControlInv
    <2>2. Handled(svc, e, svc') /\ past' = past
        BY <1>1, <1>5, <2>1, HandleEventStep DEF HandleEvent, replicaVars
    <2> HIDE DEF e
    <2>3. PICK i \in 1 .. Len(past) :
            /\ past[i].epoch = e.epoch /\ past[i].seq = e.seq
            /\ e.type \in {"snapshot", "users"} => e.users = past[i].users
            /\ e.type = "delta" /\ e.action = "add" => e.users \subseteq past[i].users
        BY <2>1 DEF KnownIn
    <2>4. Granted(e) \subseteq past[i].users
        BY <2>3 DEF Granted
    <2>5. Accepts(svc.gate, e) = Accepts(svc.gate, past[i])
          /\ Accept(svc.gate, e) = Accept(svc.gate, past[i])
        BY <2>3 DEF Accepts, Accept
    <2>6. CASE svc'.gate = svc.gate /\ svc'.users = svc.users
        BY <1>3, <2>6
    <2>7. CASE /\ Accepts(svc.gate, e) /\ svc'.gate = Accept(svc.gate, e)
               /\ svc'.users \subseteq svc.users \cup Granted(e)
        BY <1>4, <2>2, <2>4, <2>5, <2>7
    <2> QED
        BY <2>2, <2>6, <2>7 DEF Handled
<1>6. CASE HandleStatus
    BY <1>1, <1>3, <1>6, StatusStep DEF HandleStatus, SameRuntime, SameControl
<1>7. CASE PullTick \/ Reconcile
    BY <1>1, <1>3, <1>7, AskStep DEF PullTick, Reconcile, SameControl
<1>8. CASE PullResult
    <2> DEFINE s == [svc EXCEPT !.pull = NoPull]
               r == past[svc.pull.snap]
    <2>1. s \in Services /\ SameRuntime(svc, s) /\ s.gate = svc.gate
        BY <1>1 DEF Services, SameRuntime, NoPull
    <2>2. Coherent(s)
        BY <1>1, <2>1, SameRuntimeCoherent
    <2>3. svc.pull.snap \in 1 .. Len(past)
        BY <1>8 DEF PullResult, ControlInv
    <2>4. r.epoch \in Nat /\ r.seq \in Nat /\ r.config \in Configs /\ r.users \in SUBSET UserIds
        BY <1>1, <2>3, StateType
    <2>5. svc.pull.stale \in BOOLEAN /\ svc.pull.cert \in BOOLEAN
        BY <1>1 DEF Services
    <2>6. svc' \in applyPullResult(s, r, svc.pull.stale, svc.pull.cert) /\ past' = past
        BY <1>8 DEF PullResult, replicaVars
    <2> HIDE DEF s, r
    <2>7. \/ svc'.gate = s.gate /\ svc'.users = s.users
          \/ /\ Accepts(s.gate, r) /\ svc'.gate = Accept(s.gate, r)
             /\ svc'.users \in {s.users, r.users, {}}
        BY <1>1, <2>1, <2>2, <2>4, <2>5, <2>6, ApplyPullResultStep
    <2>8. CASE svc'.gate = s.gate /\ svc'.users = s.users
        BY <1>3, <2>1, <2>8 DEF SameRuntime
    <2>9. CASE /\ Accepts(s.gate, r) /\ svc'.gate = Accept(s.gate, r)
               /\ svc'.users \in {s.users, r.users, {}}
        <3>1. /\ svc'.gate = Accept(svc.gate, r) /\ Accepts(svc.gate, r)
              /\ svc'.users \subseteq svc.users \cup r.users
            BY <2>1, <2>9 DEF SameRuntime
        <3> QED
            BY <1>4, <2>3, <2>6, <3>1 DEF r
    <2> QED
        BY <2>7, <2>8, <2>9
<1>9. CASE trackAndEnforce
    <2>1. SameControl(svc, svc') /\ svc'.users \in {svc.users, {}}
        BY <1>1, <1>9, TrackStep DEF trackAndEnforce
    <2> QED
        BY <1>3, <2>1 DEF SameControl
<1>10. CASE DrainMailbox
    BY <1>10 DEF DrainMailbox, ControlInv
<1>11. CASE initialSetup
    <2>1. /\ svc = Fresh /\ boot.snap \in 0 .. Len(past) /\ svc' \in Booted(Fresh)
          /\ past' = past
        BY <1>11 DEF initialSetup, ControlInv, replicaVars
    <2>2. \/ svc'.users = {} /\ svc'.gate = NoVersion
          \/ /\ boot.snap \in 1 .. Len(past)
             /\ svc'.users \subseteq past[boot.snap].users
             /\ svc'.gate.epoch = past[boot.snap].epoch /\ svc'.gate.seq = past[boot.snap].seq
        BY <1>1, <2>1, BootedStep
    <2>3. svc.gate = NoVersion /\ svc.users = {}
        BY <2>1 DEF Fresh
    <2>4. CASE svc'.users = {} /\ svc'.gate = NoVersion
        BY <1>3, <2>3, <2>4
    <2>5. CASE /\ boot.snap \in 1 .. Len(past)
               /\ svc'.users \subseteq past[boot.snap].users
               /\ svc'.gate.epoch = past[boot.snap].epoch /\ svc'.gate.seq = past[boot.snap].seq
        <3>1. past[boot.snap].users \subseteq AcceptedUsers'
            BY <2>1, <2>5 DEF AcceptedUsers
        <3>2. past[boot.snap].epoch # 0
            BY <1>1, <2>5, StateType
        <3>3. svc'.gate.epoch # svc.gate.epoch
            BY <2>3, <2>5, <3>2 DEF NoVersion
        <3> QED
            BY <2>5, <3>1, <3>3 DEF AddsCurrentUsers
    <2> QED
        BY <2>2, <2>4, <2>5
<1>12. CASE PollAnswered \/ PollFailed \/ BackoffEnds \/ KernelDies
    <2>1. svc'.gate = svc.gate /\ svc'.users = svc.users
        BY <1>1, <1>12 DEF PollAnswered, PollFailed, BackoffEnds, KernelDies, Services
    <2> QED
        BY <1>3, <2>1
<1>13. CASE \/ UNCHANGED controlVars \/ InitialPoll \/ CertRenewed \/ Connect \/ Disconnect
            \/ PanelChange \/ PanelRestart \/ ReplicaFollows
    <2>1. svc' = svc
        BY <1>13 DEF controlVars, InitialPoll, CertRenewed, Connect, Disconnect, PanelChange,
            PanelRestart, ReplicaFollows
    <2> QED
        BY <1>3, <2>1
<1> QED
    BY <1>5, <1>6, <1>7, <1>8, <1>9, <1>10, <1>11, <1>12, <1>13 DEF ControlNext

\* A user the panel has removed does not come back: not through a late push,
\* a poll from a replica that lags, a lost event or a restart of the panel
\* (VersionGate.accept, handleWSEvent, applyPullResult, initialSetup).
THEOREM RemovedStayRemoved == ControlSpec => NoRemovedUserReturns
<1>1. ControlInv /\ [ControlNext]_controlVars =>
        [mode = "node" => AddsCurrentUsers]_controlVars
    BY StepAddsCurrentUsers
<1> QED
    BY <1>1, ControlInvariant, PTL DEF ControlSpec, NoRemovedUserReturns

=============================================================================
