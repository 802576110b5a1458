----------------------------- MODULE SpeedLimits -----------------------------
(***************************************************************************)
(* Speed limits of one user: the sampler of the user's speed               *)
(* (user_speed.go), the temporary limit that a rule of the plan imposes    *)
(* (autospeed/manager.go, service/auto_speed.go) with its file, and the    *)
(* token bucket the connections share (limiter/speedtracker.go).  The      *)
(* service's loop calls all of it in order; connections ask for the bucket *)
(* at any time in between.  Time is in seconds, Gap stands for the five    *)
(* seconds after which two samples are not adjacent.                       *)
(***************************************************************************)
EXTENDS Naturals, Sequences, FiniteSets

CONSTANTS
    SpeedRules,  \* rules: mode, span (duration or window), hits, hold, target
    NoRule, NoRate,
    Bases,       \* SpeedLimit of the plan; 0 is unlimited
    Threshold,   \* threshold of the rules, in units per second
    Gap,
    MaxSpeedTime, \* bound: seconds
    MaxSpeedFaults \* bound: restarts, failed readings, files not written

Modes == {"continuous", "window"}

ASSUME SpeedAssumption ==
    /\ \A r \in SpeedRules : /\ r.mode \in Modes /\ {r.span, r.hits, r.hold, r.target} \subseteq Nat \ {0}
    /\ Bases \subseteq Nat /\ {Threshold, Gap, MaxSpeedTime, MaxSpeedFaults} \subseteq Nat

VARIABLES
    clock,
        \* the panel and the kernel
    plan,        \* the user in lastUsers: rule and base, or {}
    moved,       \* bytes since the last sample; NoRate after a restart
    sampled,     \* userSpeedSampler: time of the last sample (0: none) and rate
        \* autospeed
    penal,       \* state of the user: rule, since, hits, until; {} if none
    seen,        \* Manager.last, 0 at first
    loaded,      \* the file was read
    readError,   \* readFailed
    saveError,   \* error
    active,      \* penalties in force at the last update, {NoRule} before it
    ruleFile,    \* rule, target and end of the saved penalties
        \* SpeedTracker and Limiter
    limited,     \* Limiter.users: the base, or {}
    temporary,   \* SpeedTracker.temporary: target, or 0
    known,       \* uuidMap has the user
    bucket,      \* buckets[user]: its rate, or {}
    held,        \* connections hold no bucket, this one, or one made before it
    snapshot,    \* UpdateBuckets between its locks: what it read
    stepsLeft,   \* steps of the service still to do
    evidence,    \* history: samples of this rule since the last penalty
    speedFaults

bucketVars == <<limited, temporary, known, bucket, held, snapshot>>
autoVars == <<penal, seen, loaded, readError, saveError, active, ruleFile, evidence>>
speedVars == <<clock, plan, moved, sampled, autoVars, bucketVars, stepsLeft, speedFaults>>

NewPenal(r) == {[rule |-> r, since |-> 0, hits |-> <<>>, until |-> 0]}

SpeedInit ==
    /\ clock = 1 /\ plan = {} /\ moved = NoRate /\ sampled = [at |-> 0, rate |-> NoRate]
    /\ penal = {} /\ seen = 0 /\ loaded = FALSE /\ readError = FALSE /\ saveError = FALSE
    /\ active = {NoRule} /\ ruleFile = {}
    /\ limited = {} /\ temporary = 0 /\ known = FALSE /\ bucket = {}
    /\ held = "none" /\ snapshot = {} /\ stepsLeft = <<>>
    /\ evidence = <<>> /\ speedFaults = 0

-----------------------------------------------------------------------------
(* autospeed.Manager                                                        *)

\* syncRules: a rule that is not the same starts anew.
SyncRules(p, now) ==
    LET rules == {q.rule : q \in now} \ {NoRule} IN
    IF rules = {} THEN {} ELSE IF {s.rule : s \in p} = rules THEN p
    ELSE NewPenal(CHOOSE r \in rules : TRUE)

Last(s) == s[Len(s)]
Within(hits, at, span) == SelectSeq(hits, LAMBDA h : h + span > at)

\* Mutant: hits and the start of the excess survive a gap between samples.
AcrossGap(s, isGap, rate) == s

\* UpdateSample: a sample that is not adjacent to the last one, or has no
\* rates, starts anew.
AfterGap(s, isGap, rate) ==
    IF isGap \/ rate = NoRate THEN [s EXCEPT !.since = 0, !.hits = <<>>] ELSE s

\* One user's share of UpdateSample, for a new sample: the state with the
\* sample in it, and whether the rule now applies.
Consume(s, at, rate) ==
    LET above == rate > Threshold
        hits == LET w == Within(s.hits, at, s.rule.span)
                IN IF above /\ (w = <<>> \/ Last(w) # at) THEN Append(w, at) ELSE w
    IN IF s.rule.mode = "continuous"
       THEN [state |-> [s EXCEPT !.since = IF ~above THEN 0 ELSE IF @ = 0 THEN at ELSE @],
             trigger |-> above /\ s.since # 0 /\ at >= s.since + s.rule.span]
       ELSE [state |-> [s EXCEPT !.hits = hits], trigger |-> Len(hits) >= s.rule.hits]

\* Restore: a saved penalty counts if it is one the rule could have made.
Restored(p) ==
    {IF \E f \in ruleFile : /\ f.rule = s.rule /\ f.target = s.rule.target
                            /\ f.until > clock /\ f.until <= clock + s.rule.hold
     THEN [s EXCEPT !.until = (CHOOSE f \in ruleFile : TRUE).until] ELSE s : s \in p}

\* UpdateSample for the user's state s.
Updated(s, new, isGap) ==
    IF s.until > clock THEN s
    ELSE IF s.until # 0 THEN [s EXCEPT !.until = 0, !.since = 0, !.hits = <<>>]
    ELSE IF ~new THEN s
    ELSE LET t == AfterGap(s, isGap, sampled.rate) IN
         IF sampled.rate = NoRate THEN t
         ELSE LET c == Consume(t, sampled.at, sampled.rate) IN
              IF c.trigger THEN [c.state EXCEPT !.until = clock + s.rule.hold,
                                                !.since = 0, !.hits = <<>>]
              ELSE c.state

InForce(p) == {s \in p : s.until > clock}

\* updateAutoSpeed: the file is read the first time; a change of what is in
\* force goes to the tracker and into the file.
UpdateAutoSpeed ==
    LET synced == SyncRules(penal, plan)
        corrupt == readError'
        begun == IF loaded \/ corrupt THEN synced ELSE Restored(synced)
        new == sampled.at # 0 /\ sampled.at # seen
        isGap == seen = 0 \/ sampled.at > seen + Gap \/ sampled.at < seen
        next == {Updated(s, new, isGap) : s \in begun}
        now == {[rule |-> s.rule, target |-> s.rule.target, until |-> s.until] : s \in InForce(next)}
    IN  /\ IF loaded THEN UNCHANGED readError ELSE readError' \in BOOLEAN
        /\ loaded' = TRUE
        /\ penal' = next
        /\ seen' = IF new THEN sampled.at ELSE seen
        /\ active' = now
        /\ evidence' =
               IF begun = {} \/ {s.rule : s \in penal} # {s.rule : s \in begun} THEN <<>>
               ELSE IF \E s \in begun : s.until # 0 THEN (IF InForce(begun) = {} THEN <<>> ELSE evidence)
               ELSE IF ~new THEN evidence
               ELSE IF sampled.rate = NoRate THEN <<>>
               ELSE Append(evidence, [at |-> sampled.at, above |-> sampled.rate > Threshold])
        /\ IF now = active /\ ~saveError /\ ~readError'
           THEN UNCHANGED <<ruleFile, saveError, temporary>> /\ stepsLeft' = Tail(stepsLeft)
           ELSE /\ temporary' = IF now = {} THEN 0 ELSE (CHOOSE p \in now : TRUE).target
                /\ stepsLeft' = <<"read", "apply">> \o Tail(stepsLeft)
                /\ saveError' \in IF readError' THEN {FALSE} ELSE BOOLEAN
                /\ ruleFile' = IF readError' \/ saveError' THEN ruleFile ELSE now
        \* bound: what cannot be read or written
        /\ speedFaults' = speedFaults + (IF (readError' /\ ~loaded) \/ (saveError' /\ ~saveError) THEN 1 ELSE 0)
        /\ speedFaults' <= MaxSpeedFaults

DoUpdate ==
    /\ stepsLeft # <<>> /\ Head(stepsLeft) = "auto"
    /\ UpdateAutoSpeed
    /\ UNCHANGED <<clock, plan, moved, sampled, limited, known, bucket, held,
                   snapshot>>

-----------------------------------------------------------------------------
(* SpeedTracker and Limiter                                                 *)

Effective(base, t) == IF t > 0 /\ (base = 0 \/ t < base) THEN t ELSE base

\* prepareUserState: Limiter.UpdateUsers, then UpdateBuckets, then lastUsers
\* and updateAutoSpeed; after that the kernel gets the users.
SetUsers(p) ==
    /\ stepsLeft = <<>>
    /\ limited' = {q.base : q \in p}
    /\ stepsLeft' = <<"read", "apply", "auto", "kernel">>
    /\ plan' = p
    /\ UNCHANGED <<clock, moved, sampled, autoVars, temporary, known, bucket, held,
                   snapshot, speedFaults>>

\* The kernel closes the connections of a removed user.
UpdateKernel ==
    /\ stepsLeft # <<>> /\ Head(stepsLeft) = "kernel"
    /\ held' = IF plan = {} THEN "none" ELSE held
    /\ stepsLeft' = Tail(stepsLeft)
    /\ UNCHANGED <<clock, plan, moved, sampled, autoVars, limited, temporary, known, bucket,
                   snapshot, speedFaults>>

\* UpdateBuckets: the users under one lock, the buckets under the other.
ReadUsers ==
    /\ stepsLeft # <<>> /\ Head(stepsLeft) = "read"
    /\ snapshot' = limited /\ stepsLeft' = Tail(stepsLeft)
    /\ UNCHANGED <<clock, plan, moved, sampled, autoVars, limited, temporary, known, bucket,
                   held, speedFaults>>

ApplyBuckets ==
    /\ stepsLeft # <<>> /\ Head(stepsLeft) = "apply"
    /\ known' = (snapshot # {})
    /\ bucket' = IF bucket = {} THEN {} ELSE {Effective(b, temporary) : b \in snapshot}
    /\ held' = IF held = "current" /\ snapshot = {} THEN "stale" ELSE held
    /\ snapshot' = {} /\ stepsLeft' = Tail(stepsLeft)
    /\ UNCHANGED <<clock, plan, moved, sampled, autoVars, limited, temporary, speedFaults>>

\* limiterFor: both locks; the first connection makes the bucket.
GetLimiter ==
    /\ known /\ limited # {}
    /\ bucket' = IF bucket # {} THEN bucket ELSE {Effective(b, temporary) : b \in limited}
    /\ held' = IF held = "none" THEN "current" ELSE held
    /\ UNCHANGED <<clock, plan, moved, sampled, autoVars, limited, temporary, known, snapshot,
                   stepsLeft, speedFaults>>

-----------------------------------------------------------------------------
(* Samples and time                                                         *)

\* collectTraffic and sample: no rates if the counters restarted or too much
\* time went by.  A failed reading forgets the last sample.
Sample ==
    /\ stepsLeft = <<>>
    /\ \/ /\ sampled' = [at |-> clock, rate |->
                IF moved = NoRate \/ sampled.at = 0 \/ clock = sampled.at
                   \/ clock > sampled.at + Gap THEN NoRate
                ELSE moved \div (clock - sampled.at)]
          /\ moved' = 0 /\ stepsLeft' = <<"auto">> /\ UNCHANGED speedFaults
       \/ /\ speedFaults < MaxSpeedFaults /\ speedFaults' = speedFaults + 1
          /\ sampled' = [at |-> 0, rate |-> NoRate] /\ moved' = NoRate /\ UNCHANGED stepsLeft
    /\ UNCHANGED <<clock, plan, autoVars, bucketVars>>

\* Traffic flows fast or not at all while the clock goes on.  A call of the
\* loop takes no time.
Second(fast) ==
    /\ stepsLeft = <<>> /\ clock < MaxSpeedTime /\ clock' = clock + 1
    /\ moved' = IF moved = NoRate THEN moved ELSE IF fast THEN moved + 4 * Threshold ELSE moved
    /\ UNCHANGED <<plan, sampled, autoVars, bucketVars, stepsLeft, speedFaults>>

\* The agent starts anew; only the file is left.
AgentRestarts ==
    /\ speedFaults < MaxSpeedFaults /\ speedFaults' = speedFaults + 1
    /\ moved' = NoRate /\ sampled' = [at |-> 0, rate |-> NoRate]
    /\ plan' = {} /\ penal' = {} /\ seen' = 0 /\ loaded' = FALSE /\ readError' = FALSE
    /\ saveError' = FALSE /\ active' = {NoRule} /\ evidence' = <<>>
    /\ limited' = {} /\ temporary' = 0 /\ known' = FALSE /\ bucket' = {}
    /\ held' = "none" /\ snapshot' = {} /\ stepsLeft' = <<>>
    /\ UNCHANGED <<clock, ruleFile>>

Plans == {{}} \cup {{[rule |-> r, base |-> b]} : r \in SpeedRules \cup {NoRule}, b \in Bases}

SpeedNext ==
    \/ \E p \in Plans : SetUsers(p)
    \/ ReadUsers \/ ApplyBuckets \/ UpdateKernel \/ DoUpdate \/ GetLimiter
    \/ Sample \/ AgentRestarts
    \/ \E fast \in BOOLEAN : Second(fast)

SpeedSpec == SpeedInit /\ [][SpeedNext]_speedVars

-----------------------------------------------------------------------------
(* Properties                                                               *)

\* The samples from i on are adjacent.
Adjacent(i) == \A j \in i..(Len(evidence) - 1) : evidence[j + 1].at <= evidence[j].at + Gap

\* What the rule says of the samples: too fast for the whole of its duration,
\* or in enough of the seconds of its window, without a gap between samples.
Deserved(r) ==
    \E i \in 1..Len(evidence) :
        LET end == Last(evidence).at
            hits == {evidence[j].at : j \in {j \in i..Len(evidence) :
                        evidence[j].above /\ evidence[j].at + r.span > end}}
        IN  /\ Adjacent(i)
            /\ IF r.mode = "window" THEN Cardinality(hits) >= r.hits
               ELSE /\ \A j \in i..Len(evidence) : evidence[j].above
                    /\ end >= evidence[i].at + r.span

\* A temporary limit is imposed if and only if the samples deserve it (one
\* taken over from the file has no samples).
LimitIsDeserved ==
    \A s \in penal : /\ s.until = 0 => ~Deserved(s.rule)
                     /\ s.until # 0 => evidence = <<>> \/ Deserved(s.rule)

\* Between two steps of the service the bucket every connection shares has the
\* speed of the plan and of the temporary limit in force, and what is in force
\* is in the file.
BucketFollows ==
    stepsLeft = <<>> =>
        /\ bucket \subseteq {Effective(b, IF active = {} THEN 0
                                         ELSE (CHOOSE p \in active : TRUE).target) : b \in limited}
        /\ held # "stale"
        /\ loaded /\ ~readError /\ ~saveError => ruleFile = active

\* The properties of the speed limits, together.
SpeedHolds == LimitIsDeserved /\ BucketFollows
=============================================================================
