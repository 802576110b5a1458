--------------------------- MODULE ReportPipeline ---------------------------
(***************************************************************************)
(* How sampled traffic reaches the panel (internal/service/service.go):    *)
(* the main loop samples the kernel and persists, the report timer takes a *)
(* batch, a background goroutine sends it and then remembers or forgets    *)
(* it, shutdown sends the rest.  All of them persist through PendingStore, *)
(* whose file operations interleave with the other actors here.            *)
(*                                                                         *)
(* The panel is external: it books a batch once per report number and      *)
(* answers.  A request may be lost, processed late (after the sender gave  *)
(* up or died) or processed twice (the HTTP fallback of a WebSocket        *)
(* report), and its answer may be lost.                                    *)
(*                                                                         *)
(* A report without traffic is sent too; it is never stored, so its number *)
(* is left out and 0 stands for it.                                        *)
(***************************************************************************)
EXTENDS PendingStore

CONSTANTS
    MaxBytes,     \* bound: traffic the kernel produces in all
    MaxId,        \* bound: report numbers
    MaxCrashes,   \* bound: how often the process dies or restarts
    MaxLevel,     \* apiBackoff: highest backoff level (4)
    MaxAttempts   \* pushFinalBatch: attempts per final batch (3)

ASSUME PipelineAssumption ==
    /\ MaxBytes \in Nat /\ MaxId \in Nat /\ MaxCrashes \in Nat
    /\ MaxLevel \in Nat \ {0} /\ MaxAttempts \in Nat \ {0}
    /\ Batches = [id : 1..MaxId, bytes : 1..MaxBytes]
    /\ NoBatch \notin [id : 0..MaxId, bytes : Nat]
    /\ NoFile \notin Checkpoint
    /\ MaxBytes <= MaxPending

VARIABLES
    produced,    \* history: bytes the kernel has reported in all
    pend,        \* tracker: bytes not yet in a batch
    retry,       \* retryReport: the batch that waits for confirmation
    nextId,      \* the next report number (boot id and sequence, never reused)
    persisted,   \* pendingPersisted and persistedBatch
    stale,       \* the tracker's revision is not persistedRevision
    moved,       \* the revision is not the one persistBatchLocked read last
    mu,          \* holder of reportMu
    main,        \* main loop
    push,        \* sender of a batch: the push goroutine, or main when closing
    pushBatch,   \* the batch it sends
    skip, level, \* pushBackoff
    closing,     \* pushClosing
    rounds,      \* pushReportSync: batches still to take
    attempts,    \* pushFinalBatch: attempts made
    wire,        \* requests the panel may process, any number of times
    booked,      \* panel: numbers it has booked
    billed,      \* panel: bytes it has booked
    owed,        \* history: bytes booked or stored when a save last returned
    strayed,     \* history: journal records were on disk without a checkpoint
    crashes

trackerVars  == <<produced, pend>>
batchVars    == <<retry, nextId>>
cacheVars    == <<persisted, stale, moved>>
senderVars   == <<push, pushBatch>>
backoffVars  == <<skip, level>>
shutdownVars == <<closing, rounds, attempts>>
panelVars    == <<wire, booked, billed>>
historyVars  == <<owed, strayed, crashes>>
pipelineVars == <<trackerVars, batchVars, cacheVars, mu, main, senderVars,
                  backoffVars, shutdownVars, panelVars, historyVars>>
allVars == <<storeVars, pipelineVars>>

\* A batch without traffic is stored as none (pendingBatch.empty).
Stored(b) == IF b = NoBatch \/ b.bytes = 0 THEN NoBatch ELSE b
NotPersisted == [ok |-> FALSE, batch |-> NoBatch]

\* Bytes of batch b the panel has not booked.
Unbooked(b) == IF b = NoBatch \/ b.id \in booked THEN 0 ELSE b.bytes
Outstanding == pend + Unbooked(retry)

-----------------------------------------------------------------------------
PipelineInit ==
    /\ StoreInit
    /\ produced = 0 /\ pend = 0
    /\ retry = NoBatch /\ nextId = 1
    /\ persisted = NotPersisted /\ stale = TRUE /\ moved = FALSE
    /\ mu = "free" /\ main = "restore"
    /\ push = "none" /\ pushBatch = NoBatch
    /\ skip = 0 /\ level = 0
    /\ closing = FALSE /\ rounds = 0 /\ attempts = 0
    /\ wire = {} /\ booked = {} /\ billed = 0
    /\ owed = 0 /\ strayed = FALSE /\ crashes = 0

(***************************************************************************)
(* persistBatchLocked(b) by the actor that holds reportMu.  It ends at     *)
(* once when nothing changed since the last success, when the store holds  *)
(* that value already, or when the store refuses after a failed load;      *)
(* otherwise the store begins its file operations and the actor waits.     *)
(***************************************************************************)
Cached(b) == persisted.ok /\ ~stale /\ b = persisted.batch
Value(b) == [batch |-> Stored(b), pending |-> pend]
Immediate(b) == Cached(b) \/ loadErr \/ SaveUnchanged(Value(b))

\* persistedBatch and persistedRevision after a success; "behind" says
\* whether the tracker has changed since the revision was read.
RememberPersisted(b, behind) ==
    /\ persisted' = [ok |-> TRUE, batch |-> b]
    /\ stale' = behind
KeepPersisted == UNCHANGED <<persisted, stale>>

PersistAtOnce(b) ==
    /\ Immediate(b)
    /\ IF Cached(b) \/ loadErr THEN KeepPersisted ELSE RememberPersisted(b, FALSE)
    /\ UNCHANGED <<storeVars, mu, moved>>

PersistBegins(b, actor) ==
    /\ ~Immediate(b)
    /\ BeginSave(Value(b))
    /\ mu' = actor
    /\ moved' = FALSE
    /\ KeepPersisted

\* The save has returned, with success if its value is the store's last one.
SaveOk == saved /\ lastState = target

PersistReturns(b) ==
    /\ pc = "idle"
    /\ mu' = "free"
    /\ IF SaveOk THEN RememberPersisted(b, moved) ELSE KeepPersisted
    /\ UNCHANGED <<storeVars, moved>>

\* History: when a save succeeds, what is booked or stored must not be lost.
NoteOwed ==
    LET now == billed + target.pending + Unbooked(target.batch)
    IN owed' = IF /\ pc \in {"sweep", "unlink", "append"}
                  /\ pc' = "idle" /\ saved' /\ lastState' = target
                  /\ now > owed
               THEN now ELSE owed

\* History: a save after the checkpoint was removed appends to a journal that
\* load will not look at, and that a later checkpoint does not know.
NoteStrayed == strayed' = (strayed \/ (ckpt' = NoFile /\ journal' # {}))

FileStep ==
    /\ StoreStep
    /\ NoteOwed
    /\ NoteStrayed
    /\ UNCHANGED <<trackerVars, batchVars, cacheVars, mu, main, senderVars,
                   backoffVars, shutdownVars, panelVars, crashes>>

(***************************************************************************)
(* Start: restorePendingReports.                                           *)
(***************************************************************************)
restorePendingReports ==
    /\ main = "restore"
    /\ pc = "idle"
    /\ IF saved
         THEN retry' = lastState.batch /\ pend' = lastState.pending
         ELSE UNCHANGED <<retry, pend>>
    /\ main' = "idle"
    /\ UNCHANGED <<storeVars, produced, nextId, cacheVars, mu, senderVars,
                   backoffVars, shutdownVars, panelVars, historyVars>>

(***************************************************************************)
(* collectTraffic: the tracker adds what the kernel counted, then the      *)
(* pending state is persisted.  pushReportSync calls it once more when the *)
(* sender has ended.                                                       *)
(***************************************************************************)
collectTraffic(n) ==
    /\ main = "idle" \/ (main = "drain" /\ push = "none")
    /\ produced + n <= MaxBytes
    /\ produced' = produced + n
    /\ pend' = pend + n
    /\ stale' = (stale \/ n > 0)
    /\ moved' = (moved \/ n > 0)
    /\ main' = "sampled"
    /\ UNCHANGED <<storeVars, batchVars, persisted, mu, senderVars,
                   backoffVars, shutdownVars, panelVars, historyVars>>

\* Back to the loop, or on to the final batches: one, and one more when an
\* older batch waits.
AfterSample ==
    IF closing
      THEN main' = "finalPush" /\ rounds' = IF retry # NoBatch THEN 2 ELSE 1
      ELSE main' = "idle" /\ UNCHANGED rounds

MainPersist ==
    /\ main = "sampled"
    /\ mu = "free"
    /\ \/ PersistAtOnce(retry) /\ AfterSample
       \/ PersistBegins(retry, "main") /\ main' = "persisting" /\ UNCHANGED rounds
    /\ UNCHANGED <<trackerVars, batchVars, senderVars, backoffVars, closing,
                   attempts, panelVars, historyVars>>

MainPersisted ==
    /\ main = "persisting"
    /\ PersistReturns(retry)
    /\ AfterSample
    /\ UNCHANGED <<trackerVars, batchVars, senderVars, backoffVars, closing,
                   attempts, panelVars, historyVars>>

(***************************************************************************)
(* takeReportBatch: the failed batch first; otherwise everything pending   *)
(* becomes a batch with a new number, stored before it is sent.            *)
(***************************************************************************)
NewBatch == [id |-> IF pend = 0 THEN 0 ELSE nextId, bytes |-> pend]

\* Mutant: a retried batch also takes the traffic that came after it.
TakeRetryMerged ==
    /\ retry # NoBatch
    /\ retry' = [retry EXCEPT !.bytes = @ + pend]
    /\ pushBatch' = retry'
    /\ pend' = 0
    /\ stale' = TRUE
    /\ push' = "persist"
    /\ UNCHANGED <<storeVars, nextId, persisted, moved, mu, main>>

TakeRetry ==
    /\ retry # NoBatch
    /\ pushBatch' = retry
    /\ push' = "persist"
    /\ UNCHANGED <<storeVars, pend, batchVars, cacheVars, mu, main>>

\* Mutant: the value to store is computed before the tracker is flushed.
TakeNewUnflushed ==
    LET value == [batch |-> Stored(NewBatch), pending |-> pend]
    IN /\ retry = NoBatch
       /\ nextId' = IF pend = 0 THEN nextId ELSE nextId + 1
       /\ nextId' <= MaxId + 1
       /\ retry' = NewBatch
       /\ pushBatch' = NewBatch
       /\ pend' = 0
       /\ moved' = FALSE
       /\ IF loadErr \/ SaveUnchanged(value)
            THEN /\ IF loadErr THEN stale' = TRUE /\ UNCHANGED persisted
                               ELSE RememberPersisted(NewBatch, FALSE)
                 /\ push' = "persist"
                 /\ UNCHANGED <<storeVars, mu, main>>
            ELSE /\ BeginSave(value)
                 /\ stale' = TRUE
                 /\ mu' = "main"
                 /\ main' = "taking"
                 /\ UNCHANGED <<persisted, push>>

TakeNew ==
    LET value == [batch |-> Stored(NewBatch), pending |-> 0]
    IN /\ retry = NoBatch
       /\ nextId' = IF pend = 0 THEN nextId ELSE nextId + 1
       /\ nextId' <= MaxId + 1
       /\ retry' = NewBatch
       /\ pushBatch' = NewBatch
       /\ pend' = 0
       /\ moved' = FALSE
       /\ IF loadErr \/ SaveUnchanged(value)
            THEN /\ IF loadErr THEN stale' = TRUE /\ UNCHANGED persisted
                               ELSE RememberPersisted(NewBatch, FALSE)
                 /\ push' = "persist"
                 /\ UNCHANGED <<storeVars, mu, main>>
            ELSE /\ BeginSave(value)
                 /\ stale' = TRUE
                 /\ mu' = "main"
                 /\ main' = "taking"
                 /\ UNCHANGED <<persisted, push>>

takeReportBatch == mu = "free" /\ (TakeRetry \/ TakeNew)

BatchTaken ==
    /\ main = "taking"
    /\ PersistReturns(retry)
    /\ push' = "persist"
    /\ main' = IF closing THEN "finalPush" ELSE "idle"
    /\ UNCHANGED <<trackerVars, batchVars, pushBatch, backoffVars,
                   shutdownVars, panelVars, historyVars>>

\* pushReportAsync: one push at a time; a backoff skips this tick.
pushReportAsync ==
    /\ main = "idle"
    /\ push = "none"
    /\ skip = 0
    /\ takeReportBatch
    /\ UNCHANGED <<produced, backoffVars, shutdownVars, panelVars, historyVars>>

\* Mutant: a skipped tick is not counted.
shouldSkipForever ==
    /\ main = "idle"
    /\ push = "none"
    /\ skip > 0
    /\ UNCHANGED allVars

shouldSkip ==
    /\ main = "idle"
    /\ push = "none"
    /\ skip > 0
    /\ skip' = skip - 1
    /\ UNCHANGED <<storeVars, trackerVars, batchVars, cacheVars, mu, main,
                   senderVars, level, shutdownVars, panelVars, historyVars>>

(***************************************************************************)
(* The sender.  sendReportContext persists first and sends nothing when    *)
(* that fails.  persistBatchLocked reads the revision, then takes its      *)
(* snapshot: the main loop may sample in between.                          *)
(***************************************************************************)
PushPersist ==
    /\ push = "persist"
    /\ mu = "free"
    /\ IF Cached(retry)
         THEN push' = "send" /\ UNCHANGED <<mu, moved>>
         ELSE push' = "snapshot" /\ mu' = "push" /\ moved' = FALSE
    /\ KeepPersisted
    /\ UNCHANGED <<storeVars, trackerVars, batchVars, main, pushBatch,
                   backoffVars, shutdownVars, panelVars, historyVars>>

PushSnapshot ==
    /\ push = "snapshot"
    /\ IF loadErr \/ SaveUnchanged(Value(retry))
         THEN /\ mu' = "free"
              /\ IF loadErr THEN push' = "failed" /\ KeepPersisted
                            ELSE push' = "send" /\ RememberPersisted(retry, moved)
              /\ UNCHANGED storeVars
         ELSE /\ BeginSave(Value(retry))
              /\ push' = "persisting"
              /\ UNCHANGED mu
              /\ KeepPersisted
    /\ UNCHANGED <<trackerVars, batchVars, moved, main, pushBatch,
                   backoffVars, shutdownVars, panelVars, historyVars>>

\* Mutant: the batch is sent although it could not be stored.
PushPersistedAnyway ==
    /\ push = "persisting"
    /\ PersistReturns(retry)
    /\ push' = "send"
    /\ UNCHANGED <<trackerVars, batchVars, main, pushBatch, backoffVars,
                   shutdownVars, panelVars, historyVars>>

PushPersisted ==
    /\ push = "persisting"
    /\ PersistReturns(retry)
    /\ push' = IF SaveOk THEN "send" ELSE "failed"
    /\ UNCHANGED <<trackerVars, batchVars, main, pushBatch, backoffVars,
                   shutdownVars, panelVars, historyVars>>

PushSend ==
    /\ push = "send"
    /\ wire' = wire \cup {pushBatch}
    /\ push' = "wait"
    /\ UNCHANGED <<storeVars, trackerVars, batchVars, cacheVars, mu, main,
                   pushBatch, backoffVars, shutdownVars, booked, billed,
                   historyVars>>

\* The answer arrives; or the request ends with an error, whatever became of it.
PushEnds(result) ==
    /\ push = "wait"
    /\ push' = result
    /\ UNCHANGED <<storeVars, trackerVars, batchVars, cacheVars, mu, main,
                   pushBatch, backoffVars, shutdownVars, panelVars, historyVars>>

\* Mutant: an answer without a booking counts as one.
PushAnsweredUnbooked == PushEnds("acked")

PushAnswered == PushEnds("acked") /\ pushBatch.id \in booked \cup {0}
PushError == PushEnds("failed")

\* apiBackoff.onFailure: 1, 2, 4, 8 skipped ticks, a random quarter on top
\* of the last two.
onFailure ==
    /\ level' = IF level < MaxLevel THEN level + 1 ELSE level
    /\ LET base == 2 ^ (level' - 1)
       IN \E jitter \in 0..(IF base >= 4 THEN base \div 4 ELSE 0) :
              skip' = base + jitter

onSuccess == skip' = 0 /\ level' = 0

\* The goroutine of pushReportAsync ends, or pushFinalBatch tries again or
\* gives up.
AfterFailure ==
    IF main = "finalPush"
      THEN /\ \/ /\ attempts + 1 < MaxAttempts
                 /\ attempts' = attempts + 1
                 /\ push' = "persist"
                 /\ UNCHANGED main
              \/ /\ attempts' = 0
                 /\ push' = "none"
                 /\ main' = "lastPersist"
           /\ UNCHANGED backoffVars
      ELSE push' = "none" /\ onFailure /\ UNCHANGED <<attempts, main>>

AfterSuccess ==
    /\ push' = "none"
    /\ attempts' = 0
    /\ IF main = "finalPush" THEN UNCHANGED backoffVars ELSE onSuccess

rememberFailedReport ==
    /\ push = "failed"
    /\ mu = "free"
    /\ retry' = pushBatch
    /\ \/ PersistAtOnce(pushBatch) /\ AfterFailure
       \/ /\ PersistBegins(pushBatch, "push")
          /\ push' = "remembering"
          /\ UNCHANGED <<backoffVars, attempts, main>>
    /\ UNCHANGED <<trackerVars, nextId, pushBatch, closing, rounds, panelVars,
                   historyVars>>

ReportRemembered ==
    /\ push = "remembering"
    /\ PersistReturns(pushBatch)
    /\ AfterFailure
    /\ UNCHANGED <<trackerVars, batchVars, pushBatch, closing, rounds,
                   panelVars, historyVars>>

\* forgetCompletedReport: the batch leaves the disk before it leaves memory;
\* when the disk refuses, it stays under the same number.
forgetCompletedReport ==
    /\ push = "acked"
    /\ mu = "free"
    /\ \/ /\ retry # pushBatch
          /\ AfterSuccess
          /\ UNCHANGED <<storeVars, retry, cacheVars, mu>>
       \/ /\ retry = pushBatch
          /\ PersistAtOnce(NoBatch)
          /\ retry' = IF loadErr /\ ~Cached(NoBatch) THEN retry ELSE NoBatch
          /\ AfterSuccess
       \/ /\ retry = pushBatch
          /\ PersistBegins(NoBatch, "push")
          /\ push' = "forgetting"
          /\ UNCHANGED <<retry, backoffVars, attempts>>
    /\ UNCHANGED <<trackerVars, nextId, main, pushBatch, closing, rounds,
                   panelVars, historyVars>>

ReportForgotten ==
    /\ push = "forgetting"
    /\ PersistReturns(NoBatch)
    /\ retry' = IF SaveOk THEN NoBatch ELSE retry
    /\ AfterSuccess
    /\ UNCHANGED <<trackerVars, nextId, main, pushBatch, closing, rounds,
                   panelVars, historyVars>>

(***************************************************************************)
(* pushReportSync: no new push starts, the one in flight is waited for,    *)
(* then the kernel is sampled a last time and the final batches are sent.  *)
(***************************************************************************)
MainGoes(from, to) ==
    /\ main = from
    /\ main' = to
    /\ UNCHANGED <<storeVars, trackerVars, batchVars, cacheVars, mu,
                   senderVars, backoffVars, rounds, attempts, panelVars,
                   historyVars>>

pushReportSync ==
    /\ crashes < MaxCrashes
    /\ MainGoes("idle", "drain")
    /\ closing' = TRUE

\* The budget of the shutdown ends while the sender is still busy, or
\* between two final batches.
ShutdownBudgetEnds ==
    /\ \/ MainGoes("drain", "lastPersist")
       \/ MainGoes("finalPush", "lastPersist") /\ push = "none"
    /\ UNCHANGED closing

FinalBatch ==
    /\ main = "finalPush"
    /\ push = "none"
    /\ rounds > 0
    /\ takeReportBatch
    /\ rounds' = rounds - 1
    /\ UNCHANGED <<produced, backoffVars, closing, attempts, panelVars,
                   historyVars>>

\* The deferred persistPending and compact.
LastPersist ==
    /\ main = "lastPersist"
    /\ mu = "free"
    /\ \/ PersistAtOnce(retry) /\ main' = "exit"
       \/ PersistBegins(retry, "main") /\ main' = "lastPersisting"
    /\ UNCHANGED <<trackerVars, batchVars, senderVars, backoffVars,
                   shutdownVars, panelVars, historyVars>>

LastPersisted ==
    /\ main = "lastPersisting"
    /\ PersistReturns(retry)
    /\ main' = "exit"
    /\ UNCHANGED <<trackerVars, batchVars, senderVars, backoffVars,
                   shutdownVars, panelVars, historyVars>>

Compact ==
    /\ main = "exit"
    /\ BeginCompact
    /\ UNCHANGED pipelineVars

\* The process is gone, by a kill at any step or at the end of a shutdown;
\* the next one starts.
Restart ==
    /\ crashes < MaxCrashes
    /\ crashes' = crashes + 1
    /\ Crash
    /\ pend' = 0
    /\ retry' = NoBatch
    /\ persisted' = NotPersisted /\ stale' = TRUE /\ moved' = FALSE
    /\ mu' = "free" /\ main' = "restore"
    /\ push' = "none" /\ pushBatch' = NoBatch
    /\ skip' = 0 /\ level' = 0
    /\ closing' = FALSE /\ rounds' = 0 /\ attempts' = 0
    /\ UNCHANGED <<produced, nextId, panelVars, owed, strayed>>

(***************************************************************************)
(* The panel (external): a request whose number it does not know is booked.*)
(***************************************************************************)
PanelBooks(b) ==
    /\ b \in wire
    /\ b.id # 0 /\ b.id \notin booked
    /\ booked' = booked \cup {b.id}
    /\ billed' = billed + b.bytes
    /\ UNCHANGED <<storeVars, trackerVars, batchVars, cacheVars, mu, main,
                   senderVars, backoffVars, shutdownVars, wire, historyVars>>

PipelineNext ==
    \/ FileStep
    \/ restorePendingReports
    \/ \E n \in 0..MaxBytes : collectTraffic(n)
    \/ MainPersist \/ MainPersisted
    \/ pushReportAsync \/ shouldSkip \/ BatchTaken
    \/ PushPersist \/ PushSnapshot \/ PushPersisted \/ PushSend
    \/ PushAnswered \/ PushError
    \/ rememberFailedReport \/ ReportRemembered
    \/ forgetCompletedReport \/ ReportForgotten
    \/ pushReportSync \/ ShutdownBudgetEnds \/ FinalBatch
    \/ LastPersist \/ LastPersisted \/ Compact
    \/ Restart
    \/ \E b \in wire : PanelBooks(b)

PipelineSpec == PipelineInit /\ [][PipelineNext]_allVars

(***************************************************************************)
(* Fairness.  Running goroutines and file operations go on; a goroutine    *)
(* that waits for reportMu or for its turn in the select of Run gets it in *)
(* the end (Go mutexes and select do not starve); the panel processes what *)
(* reaches it and does not lose every answer; a process that has exited is *)
(* started again by the service manager.                                   *)
(***************************************************************************)
ReportFairness ==
    /\ WF_allVars(FileStep)
    /\ WF_allVars(restorePendingReports)
    /\ SF_allVars(MainPersist) /\ WF_allVars(MainPersisted)
    /\ SF_allVars(pushReportAsync) /\ SF_allVars(shouldSkip)
    /\ WF_allVars(BatchTaken)
    /\ SF_allVars(PushPersist) /\ WF_allVars(PushSnapshot)
    /\ WF_allVars(PushPersisted) /\ WF_allVars(PushSend)
    /\ WF_allVars(\E b \in wire : PanelBooks(b))
    /\ SF_allVars(PushAnswered)
    /\ SF_allVars(rememberFailedReport) /\ WF_allVars(ReportRemembered)
    /\ SF_allVars(forgetCompletedReport) /\ WF_allVars(ReportForgotten)
    /\ WF_allVars(ShutdownBudgetEnds)
    /\ SF_allVars(LastPersist) /\ WF_allVars(LastPersisted)
    /\ WF_allVars(main = "exit" /\ Restart)

FairPipelineSpec == PipelineSpec /\ ReportFairness

-----------------------------------------------------------------------------
(***************************************************************************)
(* Properties.                                                             *)
(***************************************************************************)

\* No double billing: whatever the order of sampling, saving, sending, late
\* or repeated processing at the panel, crashes and restarts, the bytes the
\* panel has booked together with the bytes the agent still holds for it are
\* never more than the kernel produced (service.go:1541-1586, 1809-1827).
\* Journal records without a checkpoint (pending_report.go:107-126, the run
\* lost_after_empty) break this promise too: the first checkpoint of the next
\* process may die half way through removing them and one of them is then
\* replayed over it.
NeverOvercounts == strayed \/ billed + Outstanding <= produced

\* A report number stands for one content for ever, also across restarts:
\* otherwise the panel's deduplication would drop or repeat traffic
\* (service.go:1541-1544).
NumberFixesContent == \A a, b \in wire : a.id = b.id => a = b

\* While a batch with traffic may be at the panel and is not confirmed, the
\* store's last successful value is that batch, so a retry after any failure
\* in this process keeps its number (service.go:1677-1690).
SentIsStored ==
    (push = "wait" /\ pushBatch.bytes > 0) =>
        saved /\ lastState.batch = pushBatch

\* Without a crash nothing is dropped on the way: produced traffic is booked
\* or still held (collectTraffic to forgetCompletedReport).
NothingDropped ==
    crashes = 0 /\ main # "restore" => billed + Outstanding = produced

\* Everything the agent holds is booked in the end, whatever sends failed,
\* were skipped by the backoff or interrupted by a restart on the way.
EventuallyBooked == <>[](Outstanding = 0)

\* Traffic that a successful save has put on disk survives the process: it
\* is booked or restored (pending_report.go:20-24).
SavedTrafficSurvives ==
    main # "restore" => billed + Outstanding >= owed

-----------------------------------------------------------------------------
(***************************************************************************)
(* The inductive invariants behind the safety properties.                  *)
(***************************************************************************)
\* A report; number 0 stands for one without traffic.
Reports == {b \in [id : 0..MaxId, bytes : Nat] : b.id = 0 <=> b.bytes = 0}
MaybeReport == Reports \cup {NoBatch}

MainSaving == {"persisting", "taking", "lastPersisting"}
PushSaving == {"persisting", "remembering", "forgetting"}

\* Type invariant: the Go types, and the report numbers handed out so far.
PipelineTypeOK ==
    /\ produced \in 0..MaxBytes /\ pend \in Nat
    /\ retry \in MaybeReport /\ pushBatch \in MaybeReport
    /\ nextId \in 1..(MaxId + 1)
    /\ persisted \in [ok : BOOLEAN, batch : MaybeReport]
    /\ stale \in BOOLEAN /\ moved \in BOOLEAN
    /\ mu \in {"free", "main", "push"}
    /\ main \in MainSaving \cup {"restore", "idle", "sampled", "drain",
                                 "finalPush", "lastPersist", "exit"}
    /\ push \in PushSaving \cup {"none", "persist", "snapshot", "send", "wait",
                                 "acked", "failed"}
    /\ level \in 0..MaxLevel
    /\ closing \in BOOLEAN /\ rounds \in 0..2 /\ attempts \in 0..(MaxAttempts - 1)
    /\ wire \subseteq Reports /\ booked \subseteq 1..MaxId /\ billed \in Nat
    /\ owed \in Nat /\ strayed \in BOOLEAN /\ crashes \in 0..MaxCrashes

\* What the store holds for this client, in memory and in its files.
HeldValue == [batch : MaybeReport, pending : Nat]
HeldFile == [seq : Nat, state : HeldValue]
HeldRecord == [seq : Nat, changed : BOOLEAN, batch : MaybeReport, delta : Int]
HeldTypeOK ==
    /\ ckpt = NoFile \/ ckpt \in HeldFile
    /\ journal \subseteq HeldRecord /\ todo \subseteq HeldRecord
    /\ lastState \in HeldValue /\ target \in HeldValue /\ file \in HeldFile
    /\ journalSeq \in Nat /\ saved \in BOOLEAN /\ loadErr \in BOOLEAN
    /\ pc \in Phases

\* reportMu and the store's mutex: who saves, who waits for it, and when
\* neither the loop nor the sender may run.
Saving == pc \in {"checkpoint", "sweep", "unlink", "append"}
LockInv ==
    /\ mu = "main" <=> main \in MainSaving
    /\ mu = "push" <=> push \in PushSaving \cup {"snapshot"}
    /\ Saving => main \in MainSaving \/ push \in PushSaving
    /\ Starting => main = "restore"
    /\ pc \in {"compact", "compactSweep"} => main = "exit"
    /\ main = "restore" => push = "none" /\ retry = NoBatch /\ pend = 0 /\ ~persisted.ok
    /\ main \in {"restore", "taking"} => push = "none"
    /\ push # "none" \/ main = "taking" => retry = pushBatch /\ retry # NoBatch

\* Every report anywhere: in memory, on its way, in the store and its files.
MemoryPlaces == {retry, pushBatch, persisted.batch} \cup wire
StorePlaces ==
    {lastState.batch, target.batch, file.state.batch}
    \cup {r.batch : r \in journal} \cup {r.batch : r \in todo}
    \cup IF ckpt = NoFile THEN {} ELSE {ckpt.state.batch}
Places == MemoryPlaces \cup StorePlaces
Known == Places \ {NoBatch}
ContentInv ==
    /\ \A b \in Known : b.id < nextId
    /\ \A a, b \in Known : a.id = b.id => a = b
    /\ \A n \in booked : n < nextId

\* What is saved, is being saved or was saved is the batch in memory.
Returning == ~Saving /\ (main \in MainSaving \/ push \in PushSaving)
StoredInv ==
    /\ Saving => ~SaveOk
    /\ main \in MainSaving \/ push \in PushSaving \ {"forgetting"} =>
           target.batch = Stored(retry)
    /\ push = "forgetting" => target.batch = NoBatch
    /\ persisted.ok /\ ~(Returning /\ SaveOk) =>
           saved /\ lastState.batch = Stored(persisted.batch)
    /\ push \in {"send", "wait"} => saved /\ lastState.batch = Stored(pushBatch)

\* Without a crash the only batch the panel may still book is the one in
\* memory, and an answer comes after the booking.
Settled(b) == b.id \in booked \cup {0}
FlowInv ==
    /\ push \in {"acked", "forgetting"} => Settled(pushBatch)
    /\ crashes = 0 =>
           /\ \A b \in wire : Settled(b) \/ b = retry
           /\ billed + Outstanding = produced
           /\ main = "restore" => ckpt = NoFile /\ ~saved /\ pc # "replay"

PipelineInv ==
    /\ PipelineTypeOK /\ HeldTypeOK /\ LockInv /\ ContentInv /\ StoredInv /\ FlowInv

(***************************************************************************)
(* The inductive invariant behind NeverOvercounts.  A retried or restored  *)
(* value may be sent, so each value the agent may still go on with has to  *)
(* fit what the panel knows: together with what is booked it is not more   *)
(* than was produced, and it holds the batch of every request that may     *)
(* still be booked.                                                        *)
(***************************************************************************)
\* Removing files and reading the checkpoint do not fail; saving one may.
OnlyWritesFail == Faults \subseteq {"write"}

Fits(v) ==
    /\ billed + v.pending + Unbooked(v.batch) <= produced
    /\ \A b \in wire : Settled(b) \/ b = v.batch

InMemory == [batch |-> retry, pending |-> pend]

\* What a process that dies now, or is starting, leaves to the next one while
\* no save is under way.
Recoverable ==
    IF ~Starting THEN IF saved THEN lastState ELSE EmptyState
    ELSE IF promised.known THEN promised.state
    ELSE IF ckpt = NoFile THEN EmptyState ELSE ckpt.state

Live ==
    {Recoverable} \cup (IF Saving THEN {target} ELSE {})
                  \cup (IF main = "restore" THEN {} ELSE {InMemory})

\* The store works for this client, and finds a journal only where its
\* checkpoint is.
UsableStore ==
    /\ StoreInv /\ ~loadErr
    /\ ckpt = NoFile => journal = {}
    /\ ~Starting /\ saved /\ ckpt = NoFile => lastState = EmptyState
    /\ ~Starting /\ ~saved => journal = {} /\ (ckpt = NoFile \/ pc \in {"sweep", "unlink"})
    /\ Starting /\ ~promised.known => journal = {}
    /\ pc = "replay" /\ ~promised.known => todo = {} /\ file = ckpt
    /\ pc \in {"compact", "compactSweep"} => saved
    /\ pc = "unlink" => target = EmptyState

BillingInv ==
    strayed \/ /\ UsableStore
               /\ retry # NoBatch => retry.bytes <= MaxBytes
               /\ \A v \in Live : Fits(v)

(***************************************************************************)
(* The other direction: the strayed journal is the only way to lose saved  *)
(* traffic.  Each value the agent may go on with covers what is owed, and  *)
(* memory is never behind the value being saved.                           *)
(***************************************************************************)
Total(v) == billed + v.pending + Unbooked(v.batch)

\* As long as only writes fail, saved traffic is lost only when journal
\* records were written beside a missing checkpoint (pending_report.go:107-126).
LostOnlyWhenStrayed == strayed \/ SavedTrafficSurvives

SurvivalInv ==
    strayed \/ /\ \A v \in Live : Total(v) >= owed
               /\ Saving => Total(InMemory) >= Total(target)

=============================================================================
