------------------------ MODULE ReportPipelineProofs ------------------------
(***************************************************************************)
(* Proofs about PendingStore, for every set of batches, checkpoint         *)
(* interval, set of faults and bound: the type invariant, and the exact    *)
(* recovery of a store whose cleanup does not fail.  Then proofs about     *)
(* ReportPipeline, which extends it, for every amount of traffic, number   *)
(* of reports, deaths, backoff levels and attempts, every checkpoint       *)
(* interval and, unless a theorem says otherwise, every set of faults.     *)
(***************************************************************************)
EXTENDS ReportPipeline, TLAPS

-----------------------------------------------------------------------------
(***************************************************************************)
(* Type correctness.                                                       *)
(***************************************************************************)
\* A save only starts while there is a number left for it.
TypeInv ==
    /\ StoreTypeOK
    /\ pc \in {"checkpoint", "append"} => journalSeq < MaxSeq

\* The record that diffPending computes is one that journal files may hold.
LEMMA DiffType ==
    ASSUME NEW n \in Seqs, NEW from \in State, NEW to \in State
    PROVE  diffPending(n, from, to) \in Record
BY DEF diffPending, Record, State

\* Replaying a record gives a value again unless it would be negative.
LEMMA ApplyType ==
    ASSUME NEW s \in State, NEW r \in Record,
           applyTrafficDelta(s, r).pending >= 0
    PROVE  applyTrafficDelta(s, r) \in State
BY DEF applyTrafficDelta, Record, State

\* The empty value is a value.
LEMMA EmptyType == EmptyState \in State
BY DEF EmptyState, State

\* The store starts well typed.
LEMMA TypeInit == StoreInit => TypeInv
<1> SUFFICES ASSUME StoreInit PROVE TypeInv
    OBVIOUS
<1>1. 0 \in Seqs
    BY StoreAssumption DEF Seqs
<1>2. [seq |-> 0, state |-> EmptyState] \in Checkpoint /\ NoPromise \in Promise
    BY <1>1, EmptyType DEF Checkpoint, NoPromise, Promise
<1>3. [n \in Seqs |-> EmptyState] \in [Seqs -> State]
    BY EmptyType
<1> QED
    BY <1>1, <1>2, <1>3, EmptyType DEF StoreInit, TypeInv, StoreTypeOK, Phases

\* Every file operation keeps the types; replay counts nothing below zero.
LEMMA TypeStep == TypeInv /\ [Next]_storeVars => TypeInv'
<1> SUFFICES ASSUME TypeInv, [Next]_storeVars
             PROVE  TypeInv'
    OBVIOUS
<1> USE StoreAssumption, EmptyType DEF TypeInv, StoreTypeOK
<1>1. CASE WriteCheckpoint
  <2>1. journalSeq + 1 \in Seqs
      BY <1>1 DEF WriteCheckpoint, Seqs
  <2>2. StartOfHist(journalSeq + 1, target) \in [Seqs -> State]
      BY DEF StartOfHist
  <2> QED
      BY <1>1, <2>1, <2>2 DEF WriteCheckpoint, Checkpoint, Phases, loader
<1>2. CASE JournalRemoved
    BY <1>2 DEF JournalRemoved, SaveDone, Phases, files, loader
<1>3. CASE RemoveCheckpoint
    BY <1>3 DEF RemoveCheckpoint, SaveDone, Phases, loader
<1>4. CASE AppendRecord
  <2>1. journalSeq + 1 \in Seqs
      BY <1>4 DEF AppendRecord, Seqs
  <2>2. diffPending(journalSeq + 1, lastState, target) \in Record
      BY <2>1, DiffType
  <2>3. journal' \subseteq Record
      BY <1>4, <2>2 DEF AppendRecord, PutRecord
  <2>4. hist' \in [Seqs -> State]
      BY <1>4, <2>1 DEF AppendRecord
  <2> QED
      BY <1>4, <2>1, <2>3, <2>4 DEF AppendRecord, SaveDone, Phases, loader
<1>5. CASE SaveFault
    BY <1>5 DEF SaveFault, SaveFailed, Phases, files, loader
<1>6. CASE CompactWrite
  <2>1. StartOfHist(journalSeq, lastState) \in [Seqs -> State]
      BY DEF StartOfHist
  <2> QED
      BY <1>6, <2>1 DEF CompactWrite, Checkpoint, Phases, memory, loader
<1>7. CASE LoadMissing
    BY <1>7 DEF LoadMissing, Phases, files, memory, loader
<1>8. CASE LoadCheckpoint
  <2>1. ckpt \in Checkpoint
      BY <1>8 DEF LoadCheckpoint
  <2>2. hist' \in [Seqs -> State]
      BY <1>8, <2>1 DEF LoadCheckpoint, Checkpoint
  <2> QED
      BY <1>8, <2>1, <2>2 DEF LoadCheckpoint, Phases, files, memory
<1>9. CASE LoadUnreadable
    BY <1>9 DEF LoadUnreadable, Phases, Promise, NoPromise, Seqs, files, memory, loader
<1>10. CASE LoadForeign
    BY <1>10 DEF LoadForeign, Phases, Promise, NoPromise, Seqs, memory, loader
<1>11. CASE LoadDone
    BY <1>11 DEF LoadDone, Phases, Checkpoint, files, loader
<1>12. ASSUME NEW r \in journal, RemoveRecord(r)
       PROVE  TypeInv'
    BY <1>12 DEF RemoveRecord, memory, loader
<1>13. ASSUME NEW r \in todo, ReplayRecord(r)
       PROVE  TypeInv'
  <2> DEFINE next == applyTrafficDelta(file.state, r)
  <2>1. r \in Record /\ r.seq \in Seqs /\ file.state \in State
      BY DEF Record, Checkpoint
  <2>2. CASE UNCHANGED <<file, hist, loadErr, pc>> /\ todo' = todo \ {r}
      BY <1>13, <2>2 DEF ReplayRecord, files
  <2>3. CASE /\ next.pending >= 0
             /\ file' = [seq |-> r.seq, state |-> next]
             /\ todo' = todo \ {r}
             /\ hist' = [hist EXCEPT ![r.seq] = next]
             /\ UNCHANGED <<loadErr, pc>>
    <3>1. next \in State
        BY <2>1, <2>3, ApplyType
    <3>2. file' \in Checkpoint /\ hist' \in [Seqs -> State]
        BY <2>1, <2>3, <3>1 DEF Checkpoint
    <3> HIDE DEF next
    <3> QED
        BY <1>13, <2>3, <3>2 DEF ReplayRecord, files
  <2>4. CASE loadErr' = TRUE /\ pc' = "idle" /\ UNCHANGED <<file, todo, hist>>
      BY <1>13, <2>4 DEF ReplayRecord, files, Phases
  <2> QED
      BY <1>13, <2>2, <2>3, <2>4 DEF ReplayRecord
<1>14. ASSUME NEW s \in ClientStates, BeginSave(s)
       PROVE  TypeInv'
  <2>1. s \in State
      BY DEF ClientStates, State
  <2>2. promised' \in Promise
      BY <1>14 DEF BeginSave, Promise, NoPromise, Seqs
  <2>3. pc' \in Phases
      BY <1>14 DEF BeginSave, Phases
  <2> QED
      BY <1>14, <2>1, <2>2, <2>3 DEF BeginSave, files, memory, loader
<1>15. CASE BeginCompact
    BY <1>15 DEF BeginCompact, Phases, files, memory, loader
<1>16. CASE Crash
  <2>1. OnDisk \in State
      BY DEF OnDisk
  <2>2. promised' \in Promise
      BY <1>16, <2>1 DEF Crash, Promise, NoPromise, Seqs
  <2>3. [seq |-> 0, state |-> EmptyState] \in Checkpoint
      BY DEF Checkpoint, Seqs
  <2>4. 0 \in Seqs
      BY DEF Seqs
  <2> QED
      BY <1>16, <2>2, <2>3, <2>4 DEF Crash, Phases, files
<1>17. CASE UNCHANGED storeVars
    BY <1>17 DEF storeVars
<1> QED
    BY <1>1, <1>2, <1>3, <1>4, <1>5, <1>6, <1>7, <1>8, <1>9, <1>10, <1>11,
       <1>12, <1>13, <1>14, <1>15, <1>16, <1>17 DEF Next, StoreStep

\* The type invariant holds in every reachable state: files and memory of
\* the store (pending_report.go:82-237) always hold what their types allow.
\* In particular no replayed counter is negative.
THEOREM StoreTypesCorrect == Spec => []StoreTypeOK
<1>1. TypeInv => StoreTypeOK
    BY DEF TypeInv
<1> QED
    BY <1>1, TypeInit, TypeStep, PTL DEF Spec

-----------------------------------------------------------------------------
(***************************************************************************)
(* Exact recovery.  StoreInv of PendingStore is inductive when removing    *)
(* the journal directory and an empty checkpoint does not fail.            *)
(***************************************************************************)
\* The central fact about the journal: the record that save computes turns
\* the value it was computed from into the value it was computed for.
LEMMA DiffApplied ==
    ASSUME NEW n \in Seqs, NEW from \in State, NEW to \in State
    PROVE  applyTrafficDelta(from, diffPending(n, from, to)) = to
<1> DEFINE r == diffPending(n, from, to)
<1>1. r.changed = (from.batch # to.batch) /\ r.delta = to.pending - from.pending
    BY DEF diffPending
<1>2. r.changed => r.batch = to.batch
    BY DEF diffPending
<1>3. to = [batch |-> to.batch, pending |-> to.pending]
    BY DEF State
<1>4. from.pending \in Nat /\ to.pending \in Nat
    BY DEF State
<1> HIDE DEF r
<1>5. (IF r.changed THEN r.batch ELSE from.batch) = to.batch
    BY <1>1, <1>2
<1>6. from.pending + r.delta = to.pending
    BY <1>1, <1>4
<1>7. applyTrafficDelta(from, r) = to
    BY <1>3, <1>5, <1>6 DEF applyTrafficDelta
<1> QED
    BY <1>7 DEF r

\* A chain ending where it starts asks nothing of the journal.
LEMMA EmptyChain == ASSUME NEW lo \in Seqs PROVE Chain(lo, lo)
BY DEF Chain, Seqs

\* A store without files satisfies the invariant.
LEMMA InvInit == StoreInit => StoreInv
<1> SUFFICES ASSUME StoreInit PROVE StoreInv
    OBVIOUS
<1>1. StoreTypeOK
    BY TypeInit DEF TypeInv
<1>2. ~promised.known
    BY DEF StoreInit, NoPromise
<1> QED
    BY <1>1, <1>2 DEF StoreInit, StoreInv, RecordsDistinct, PhaseInv, RunningInv,
       ReplayInv, PromiseInv, LoadKeepsPromise, Starting

\* StoreInv contains the type invariant, so a step preserves the types.
LEMMA InvType == StoreInv /\ [Next]_storeVars => StoreTypeOK'
BY TypeStep DEF StoreInv, PhaseInv, TypeInv

\* save chooses between checkpoint and record.
LEMMA StepBeginSave ==
    ASSUME StoreInv, NEW s \in ClientStates, BeginSave(s)
    PROVE  StoreInv'
<1>1. StoreTypeOK'
    BY InvType DEF Next
<1>2. ~promised'.known
    BY DEF BeginSave, NoPromise
<1>3. pc = "idle" /\ pc' \in {"checkpoint", "append"} /\ (pc' = "append" => saved)
    BY DEF BeginSave, NeedsCheckpoint
<1>4. UNCHANGED <<ckpt, journal, saved, lastState, journalSeq, loadErr, hist>>
    BY DEF BeginSave, files, memory
<1>5. journalSeq < MaxSeq
    BY DEF BeginSave
<1>6. RecordsDistinct' /\ PhaseInv' /\ ReplayInv' /\ PromiseInv' /\ LoadKeepsPromise'
    BY <1>2, <1>3, <1>4, <1>5 DEF StoreInv, RecordsDistinct, PhaseInv, ReplayInv,
       PromiseInv, LoadKeepsPromise, Starting
<1>7. RunningInv'
    BY <1>3, <1>4 DEF StoreInv, RunningInv, Starting, OnDisk, DiskHolds, Chain
<1> QED
    BY <1>1, <1>6, <1>7 DEF StoreInv

\* Publishing a checkpoint starts a new history.
LEMMA StepWriteCheckpoint ==
    ASSUME StoreInv, WriteCheckpoint
    PROVE  StoreInv'
<1>1. StoreTypeOK'
    BY InvType DEF Next, StoreStep
<1>2. /\ pc = "checkpoint" /\ pc' = "sweep"
      /\ journalSeq \in Seqs /\ journalSeq < MaxSeq /\ journalSeq' = journalSeq + 1
      /\ ckpt' = [seq |-> journalSeq', state |-> target]
      /\ UNCHANGED <<journal, saved, lastState, loadErr, target, promised>>
      /\ ~promised.known
    BY DEF WriteCheckpoint, StoreInv, PhaseInv, StoreTypeOK
<1>3. journalSeq' \in Seqs
    BY <1>1 DEF StoreTypeOK
<1>4. hist'[journalSeq'] = target
    BY <1>2, <1>3 DEF WriteCheckpoint, StartOfHist
<1>5. RecordsDistinct' /\ PhaseInv' /\ ReplayInv' /\ PromiseInv' /\ LoadKeepsPromise'
    BY <1>2, <1>4 DEF StoreInv, RecordsDistinct, PhaseInv, ReplayInv, PromiseInv,
       LoadKeepsPromise, Starting
<1>6. RunningInv'
  <2> SUFFICES ASSUME saved, ~loadErr
               PROVE  /\ \A r \in journal : r.seq <= journalSeq'
                      /\ ckpt' # NoFile => DiskHolds(journalSeq, OnDisk)'
      BY <1>2 DEF RunningInv
  <2>1. \A r \in journal : r.seq <= journalSeq
      BY <1>2 DEF StoreInv, RunningInv, Starting
  <2>2. \A r \in journal : r.seq \in Int
      BY StoreAssumption DEF StoreInv, StoreTypeOK, Record, Seqs
  <2>3. \A r \in journal : r.seq <= journalSeq'
      BY <1>2, <2>1, <2>2 DEF Seqs
  <2>4. Chain(journalSeq, journalSeq)'
      BY <1>3 DEF Chain, Seqs
  <2> QED
      BY <1>2, <1>3, <1>4, <2>3, <2>4, StoreAssumption DEF DiskHolds, OnDisk, Seqs
<1> QED
    BY <1>1, <1>5, <1>6 DEF StoreInv

\* Removing a record the checkpoint covers changes nothing.
LEMMA StepRemoveRecord ==
    ASSUME StoreInv, NEW r \in journal, RemoveRecord(r)
    PROVE  StoreInv'
<1>1. StoreTypeOK'
    BY InvType DEF Next, StoreStep
<1>2. /\ pc \in {"sweep", "compactSweep"} /\ journal' \subseteq journal
      /\ UNCHANGED <<ckpt, saved, lastState, journalSeq, loadErr, pc, target,
                     hist, promised>>
    BY DEF RemoveRecord, memory
<1>3. RecordsDistinct' /\ PhaseInv' /\ ReplayInv' /\ PromiseInv' /\ LoadKeepsPromise'
    BY <1>2 DEF StoreInv, RecordsDistinct, PhaseInv, ReplayInv, PromiseInv,
       LoadKeepsPromise, Starting
<1>4. RunningInv'
  <2> SUFFICES ASSUME saved, ~loadErr
               PROVE  /\ \A q \in journal' : q.seq <= journalSeq
                      /\ ckpt # NoFile => DiskHolds(journalSeq, OnDisk)'
      BY <1>2 DEF RunningInv
  <2>1. \A q \in journal' : q.seq <= journalSeq
      BY <1>2 DEF StoreInv, RunningInv, Starting
  <2>2. ckpt.seq = journalSeq
      BY <1>2 DEF StoreInv, PhaseInv
  <2>3. Chain(journalSeq, journalSeq)'
      BY <1>1 DEF Chain, Seqs, StoreTypeOK
  <2> QED
      BY <1>2, <2>1, <2>2, <2>3 DEF StoreInv, RunningInv, Starting, DiskHolds, OnDisk
<1> QED
    BY <1>1, <1>3, <1>4 DEF StoreInv

\* The journal is gone; the checkpoint alone holds the value.
LEMMA StepJournalRemoved ==
    ASSUME StoreInv, JournalRemoved
    PROVE  StoreInv'
<1>1. StoreTypeOK'
    BY InvType DEF Next, StoreStep
<1>2. /\ pc = "sweep" /\ journal = {}
      /\ UNCHANGED <<ckpt, journal, journalSeq, loadErr, target, hist, promised>>
      /\ \/ pc' = "unlink" /\ UNCHANGED <<lastState, saved>>
         \/ pc' = "idle" /\ lastState' = target
      /\ ckpt = [seq |-> journalSeq, state |-> target]
      /\ hist[journalSeq] = target
      /\ ~promised.known
    BY DEF JournalRemoved, SaveDone, files, StoreInv, PhaseInv
<1>3. RecordsDistinct' /\ PhaseInv' /\ ReplayInv' /\ PromiseInv' /\ LoadKeepsPromise'
    BY <1>2 DEF StoreInv, RecordsDistinct, PhaseInv, ReplayInv, PromiseInv,
       LoadKeepsPromise, Starting
<1>4. RunningInv'
  <2>1. OnDisk' = target
      BY <1>2 DEF OnDisk
  <2>2. Chain(journalSeq, journalSeq)' /\ journalSeq \in Nat
      BY <1>1, <1>2 DEF Chain, Seqs, StoreTypeOK
  <2> QED
      BY <1>2, <2>1, <2>2 DEF RunningInv, DiskHolds
<1> QED
    BY <1>1, <1>3, <1>4 DEF StoreInv

\* An empty value needs no checkpoint.
LEMMA StepRemoveCheckpoint ==
    ASSUME StoreInv, RemoveCheckpoint
    PROVE  StoreInv'
<1>1. StoreTypeOK'
    BY InvType DEF Next, StoreStep
<1>2. /\ pc = "unlink" /\ pc' = "idle" /\ journal' = {} /\ ckpt' = NoFile
      /\ ~promised'.known
    BY DEF RemoveCheckpoint, SaveDone, StoreInv, PhaseInv
<1> QED
    BY <1>1, <1>2 DEF StoreInv, RecordsDistinct, PhaseInv, RunningInv, ReplayInv,
       PromiseInv, LoadKeepsPromise, Starting

\* A record adds one link to the chain.
LEMMA StepAppendRecord ==
    ASSUME StoreInv, AppendRecord
    PROVE  StoreInv'
<1> DEFINE n == journalSeq + 1
           new == diffPending(n, lastState, target)
<1>1. StoreTypeOK'
    BY InvType DEF Next, StoreStep
<1>2. /\ pc = "append" /\ pc' = "idle" /\ saved /\ ~promised.known
      /\ journalSeq \in Seqs /\ journalSeq < MaxSeq /\ journalSeq' = n
      /\ lastState' = target /\ lastState \in State /\ target \in State
      /\ hist \in [Seqs -> State] /\ hist' = [hist EXCEPT ![n] = target]
      /\ journal' = {q \in journal : q.seq # n} \cup {new} /\ new.seq = n
      /\ UNCHANGED <<ckpt, loadErr, target, promised>>
    BY DEF AppendRecord, SaveDone, PutRecord, diffPending, StoreInv, PhaseInv, StoreTypeOK
<1>3. n \in Seqs /\ n \in Int /\ journalSeq = n - 1 /\ journalSeq \in Nat
    BY <1>2, StoreAssumption DEF Seqs
<1>4. applyTrafficDelta(lastState, new) = target
    BY <1>2, <1>3, DiffApplied
<1> HIDE DEF n, new
<1>5. RecordsDistinct' /\ PhaseInv' /\ ReplayInv' /\ PromiseInv' /\ LoadKeepsPromise'
    BY <1>2 DEF StoreInv, RecordsDistinct, PhaseInv, ReplayInv, PromiseInv,
       LoadKeepsPromise, Starting
<1>6. RunningInv'
  <2> SUFFICES ASSUME ~loadErr
               PROVE  /\ \A q \in journal' : q.seq <= n
                      /\ ckpt # NoFile => DiskHolds(journalSeq, OnDisk)'
      BY <1>2 DEF RunningInv
  <2>1. \A q \in journal : q.seq <= journalSeq /\ q.seq \in Int
      BY <1>2, StoreAssumption
         DEF StoreInv, RunningInv, Starting, StoreTypeOK, Record, Seqs
  <2>2. \A q \in journal' : q.seq <= n
      BY <1>2, <1>3, <2>1
  <2>3. ASSUME ckpt # NoFile PROVE DiskHolds(journalSeq, OnDisk)'
    <3>1. /\ ckpt.seq <= journalSeq /\ hist[ckpt.seq] = ckpt.state
          /\ Chain(ckpt.seq, journalSeq) /\ hist[journalSeq] = lastState
        BY <1>2, <2>3 DEF StoreInv, RunningInv, Starting, DiskHolds, OnDisk
    <3>2. ckpt.seq \in Seqs /\ ckpt.seq \in Nat
        BY <2>3, StoreAssumption DEF StoreInv, StoreTypeOK, Checkpoint, Seqs
    <3>3. hist'[n] = target /\ \A k \in Seqs : k # n => hist'[k] = hist[k]
        BY <1>2, <1>3
    <3>4. Chain(ckpt.seq, journalSeq)'
      <4> SUFFICES ASSUME NEW k \in Seqs, ckpt.seq < k, k <= n
                   PROVE  \E r \in journal' :
                            r.seq = k /\ applyTrafficDelta(hist'[k-1], r) = hist'[k]
          BY <1>2 DEF Chain
      <4>1. k \in Int /\ k - 1 \in Seqs /\ k - 1 # n
          BY <3>2, <1>3, StoreAssumption DEF Seqs
      <4>2. CASE k = n
        <5>1. hist'[k - 1] = lastState
            BY <4>1, <4>2, <1>3, <3>1, <3>3
        <5> QED
            BY <4>2, <5>1, <1>2, <1>4, <3>3
      <4>3. CASE k # n
        <5>1. k <= journalSeq
            BY <4>1, <4>3, <1>3
        <5>2. PICK r \in journal :
                 r.seq = k /\ applyTrafficDelta(hist[k - 1], r) = hist[k]
            BY <5>1, <3>1 DEF Chain
        <5> QED
            BY <5>2, <4>1, <4>3, <3>3, <1>2
      <4> QED
          BY <4>2, <4>3
    <3>5. ckpt.seq <= n /\ ckpt.seq # n
        BY <3>1, <3>2, <1>3
    <3>6. OnDisk' = target
        BY <1>2 DEF OnDisk
    <3> QED
        BY <1>2, <2>2, <2>3, <3>1, <3>2, <3>3, <3>4, <3>5, <3>6 DEF DiskHolds
  <2> QED
      BY <2>2, <2>3
<1> QED
    BY <1>1, <1>5, <1>6 DEF StoreInv

\* A failed write leaves the files as they were.
LEMMA StepSaveFault ==
    ASSUME CleanupWorks, StoreInv, SaveFault
    PROVE  StoreInv'
<1>1. StoreTypeOK'
    BY InvType DEF Next, StoreStep
<1>2. /\ pc \in {"checkpoint", "append"} /\ pc' = "idle" /\ ~promised.known
      /\ UNCHANGED <<ckpt, journal, saved, lastState, journalSeq, loadErr,
                     target, hist, promised>>
    BY DEF SaveFault, SaveFailed, CleanupWorks, files, StoreInv, PhaseInv
<1>3. RecordsDistinct' /\ PhaseInv' /\ ReplayInv' /\ PromiseInv' /\ LoadKeepsPromise'
    BY <1>2 DEF StoreInv, RecordsDistinct, PhaseInv, ReplayInv, PromiseInv,
       LoadKeepsPromise, Starting
<1>4. RunningInv'
    BY <1>2 DEF StoreInv, RunningInv, Starting, OnDisk, DiskHolds, Chain
<1> QED
    BY <1>1, <1>3, <1>4 DEF StoreInv

\* compact begins.
LEMMA StepBeginCompact ==
    ASSUME StoreInv, BeginCompact
    PROVE  StoreInv'
<1>1. StoreTypeOK'
    BY InvType DEF Next
<1>2. /\ pc = "idle" /\ pc' = "compact"
      /\ UNCHANGED <<ckpt, journal, saved, lastState, journalSeq, loadErr,
                     target, hist, promised>>
    BY DEF BeginCompact, files, memory
<1>3. RecordsDistinct' /\ PhaseInv' /\ ReplayInv' /\ PromiseInv' /\ LoadKeepsPromise'
    BY <1>2 DEF StoreInv, RecordsDistinct, PhaseInv, ReplayInv, PromiseInv,
       LoadKeepsPromise, Starting
<1>4. RunningInv'
    BY <1>2 DEF StoreInv, RunningInv, Starting, OnDisk, DiskHolds, Chain
<1> QED
    BY <1>1, <1>3, <1>4 DEF StoreInv

\* compact publishes the saved value.
LEMMA StepCompactWrite ==
    ASSUME StoreInv, CompactWrite
    PROVE  StoreInv'
<1>1. StoreTypeOK'
    BY InvType DEF Next, StoreStep
<1>2. /\ pc = "compact" /\ pc' = "compactSweep"
      /\ ckpt' = [seq |-> journalSeq, state |-> lastState]
      /\ UNCHANGED <<journal, saved, lastState, journalSeq, loadErr, target, promised>>
      /\ journalSeq \in Seqs
    BY DEF CompactWrite, memory, StoreInv, StoreTypeOK
<1>3. hist'[journalSeq] = lastState
    BY <1>2 DEF CompactWrite, StartOfHist
<1>4. RecordsDistinct' /\ PhaseInv' /\ ReplayInv' /\ PromiseInv' /\ LoadKeepsPromise'
    BY <1>2 DEF StoreInv, RecordsDistinct, PhaseInv, ReplayInv, PromiseInv,
       LoadKeepsPromise, Starting
<1>5. RunningInv'
  <2> SUFFICES ASSUME saved, ~loadErr
               PROVE  /\ \A r \in journal : r.seq <= journalSeq
                      /\ ckpt' # NoFile => DiskHolds(journalSeq, OnDisk)'
      BY <1>2 DEF RunningInv
  <2>1. \A r \in journal : r.seq <= journalSeq
      BY <1>2 DEF StoreInv, RunningInv, Starting
  <2>2. Chain(journalSeq, journalSeq)'
      BY <1>2 DEF Chain, Seqs
  <2>3. OnDisk' = lastState
      BY <1>2 DEF OnDisk
  <2> QED
      BY <1>2, <1>3, <2>1, <2>2, <2>3, StoreAssumption DEF DiskHolds, Seqs
<1> QED
    BY <1>1, <1>4, <1>5 DEF StoreInv

\* A process that dies leaves the promise RunningInv makes about its files.
LEMMA StepCrash ==
    ASSUME StoreInv, Crash
    PROVE  StoreInv'
<1>1. StoreTypeOK'
    BY InvType DEF Next
<1>2. /\ pc' = "load" /\ saved' = FALSE /\ loadErr' = FALSE
      /\ UNCHANGED <<ckpt, journal, hist>>
    BY DEF Crash, files
<1>3. RecordsDistinct' /\ PhaseInv' /\ RunningInv' /\ ReplayInv' /\ LoadKeepsPromise'
    BY <1>2 DEF StoreInv, RecordsDistinct, PhaseInv, RunningInv, ReplayInv,
       LoadKeepsPromise, Starting
<1>4. promised'.known => DiskHolds(promised'.seq, promised'.state)
  <2>1. CASE Starting
      BY <2>1 DEF Crash, Starting, StoreInv, PromiseInv
  <2>2. CASE ~Starting /\ Anchored
    <3>1. promised' = [known |-> TRUE, seq |-> journalSeq, state |-> OnDisk]
        BY <2>2 DEF Crash, Starting
    <3>2. DiskHolds(journalSeq, OnDisk)
        BY <2>2 DEF StoreInv, RunningInv, Anchored
    <3> QED
        BY <3>1, <3>2
  <2>3. CASE ~Starting /\ ~Anchored
      BY <2>3 DEF Crash, Starting, NoPromise
  <2> QED
      BY <2>1, <2>2, <2>3
<1>5. PromiseInv'
    BY <1>2, <1>4 DEF PromiseInv, Starting, DiskHolds, Chain
<1> QED
    BY <1>1, <1>3, <1>5 DEF StoreInv

\* A promise implies a checkpoint, so finding none breaks no promise.
LEMMA StepLoadMissing ==
    ASSUME StoreInv, LoadMissing
    PROVE  StoreInv'
<1>1. StoreTypeOK'
    BY InvType DEF Next, StoreStep
<1>2. ~promised.known
    BY DEF LoadMissing, StoreInv, PromiseInv, DiskHolds, Starting
<1> QED
    BY <1>1, <1>2 DEF LoadMissing, files, memory, StoreInv, RecordsDistinct,
       PhaseInv, RunningInv, ReplayInv, PromiseInv, LoadKeepsPromise, Starting

\* load fails or finds nothing.
LEMMA StepLoadGivesUp ==
    ASSUME StoreInv, LoadUnreadable \/ LoadForeign
    PROVE  StoreInv'
<1>1. StoreTypeOK'
    BY InvType DEF Next, StoreStep
<1>2. /\ pc = "load" /\ pc' = "idle" /\ ~saved' /\ ~promised'.known
      /\ journal' \subseteq journal
    BY DEF LoadUnreadable, LoadForeign, NoPromise, files, memory, StoreInv,
       PhaseInv, Starting
<1> QED
    BY <1>1, <1>2 DEF StoreInv, RecordsDistinct, PhaseInv, RunningInv, ReplayInv,
       PromiseInv, LoadKeepsPromise, Starting

\* load reads the checkpoint.
LEMMA StepLoadCheckpoint ==
    ASSUME StoreInv, LoadCheckpoint
    PROVE  StoreInv'
<1>1. StoreTypeOK'
    BY InvType DEF Next, StoreStep
<1>2. /\ pc = "load" /\ pc' = "replay" /\ ckpt # NoFile
      /\ file' = ckpt /\ todo' = journal
      /\ hist' = [hist EXCEPT ![ckpt.seq] = ckpt.state]
      /\ UNCHANGED <<ckpt, journal, saved, loadErr, promised>>
    BY DEF LoadCheckpoint, files, memory
<1>3. ckpt.seq \in Seqs /\ ckpt.state \in State /\ hist \in [Seqs -> State]
    BY <1>2 DEF StoreInv, StoreTypeOK, Checkpoint
<1>4. hist'[ckpt.seq] = ckpt.state
    BY <1>2, <1>3
<1>5. RecordsDistinct' /\ PhaseInv' /\ RunningInv' /\ LoadKeepsPromise'
    BY <1>2 DEF StoreInv, RecordsDistinct, PhaseInv, RunningInv, LoadKeepsPromise, Starting
<1>6. ReplayInv'
  <2>1. Chain(ckpt.seq, file.seq)'
      BY <1>2, <1>3 DEF Chain, Seqs
  <2> QED
      BY <1>2, <1>3, <1>4, <2>1, StoreAssumption DEF ReplayInv, Seqs
<1>7. PromiseInv'
  <2> SUFFICES ASSUME promised.known
               PROVE  DiskHolds(promised.seq, promised.state)' /\ file'.seq <= promised.seq
      BY <1>2 DEF PromiseInv
  <2>1. DiskHolds(promised.seq, promised.state)
      BY <1>2 DEF StoreInv, PromiseInv, Starting
  <2>2. hist' = hist
      BY <1>2, <1>3, <2>1 DEF DiskHolds
  <2> QED
      BY <1>2, <2>1, <2>2 DEF DiskHolds, Chain
<1> QED
    BY <1>1, <1>5, <1>6, <1>7 DEF StoreInv

\* What a promise tells the loader: a record it has not replayed yet and
\* that is next in the journal is the record of the next number, and
\* replaying it gives the value the history has for that number.
LEMMA PromisedRecord ==
    ASSUME StoreInv, pc = "replay", promised.known,
           NEW r \in todo, \A q \in todo : r.seq <= q.seq, r.seq > file.seq
    PROVE  /\ r.seq = file.seq + 1
           /\ r.seq <= promised.seq
           /\ applyTrafficDelta(file.state, r) = hist[r.seq]
<1>1. /\ DiskHolds(promised.seq, promised.state)
      /\ ckpt.seq <= file.seq /\ hist[file.seq] = file.state
      /\ todo \subseteq journal
      /\ \A q \in journal \ todo : q.seq <= file.seq
    BY DEF StoreInv, PromiseInv, ReplayInv, Starting
<1>2. /\ ckpt.seq \in Seqs /\ file.seq \in Seqs /\ promised.seq \in Seqs
      /\ \A q \in journal : q.seq \in Seqs
    BY <1>1 DEF StoreInv, StoreTypeOK, Checkpoint, Promise, Record, DiskHolds
<1>3. r.seq <= promised.seq
    BY <1>1 DEF DiskHolds
<1>4. /\ file.seq + 1 \in Seqs /\ ckpt.seq < file.seq + 1
      /\ file.seq + 1 <= promised.seq
    BY <1>1, <1>2, <1>3, StoreAssumption DEF Seqs
<1>5. PICK q \in journal :
         /\ q.seq = file.seq + 1
         /\ applyTrafficDelta(hist[(file.seq + 1) - 1], q) = hist[file.seq + 1]
  <2>1. Chain(ckpt.seq, promised.seq)
      BY <1>1 DEF DiskHolds
  <2> QED
      BY <1>4, <2>1 DEF Chain
<1>6. (file.seq + 1) - 1 = file.seq
    BY <1>2 DEF Seqs
<1>7. q \in todo
    BY <1>1, <1>2, <1>5 DEF Seqs
<1>8. r.seq = file.seq + 1
    BY <1>1, <1>2, <1>5, <1>7 DEF Seqs
<1>9. q = r
    BY <1>1, <1>5, <1>8 DEF StoreInv, RecordsDistinct
<1> QED
    BY <1>1, <1>3, <1>5, <1>6, <1>8, <1>9

\* replayJournal applies the next record of the chain.
LEMMA StepReplayRecord ==
    ASSUME StoreInv, NEW r \in todo, ReplayRecord(r)
    PROVE  StoreInv'
<1> DEFINE next == applyTrafficDelta(file.state, r)
<1>1. StoreTypeOK'
    BY InvType DEF Next, StoreStep
<1>2. /\ pc = "replay" /\ \A q \in todo : r.seq <= q.seq
      /\ UNCHANGED <<ckpt, journal, saved, lastState, journalSeq, target, promised>>
      /\ ~saved
    BY DEF ReplayRecord, files, StoreInv, PhaseInv, Starting
<1>3. /\ ckpt # NoFile /\ ckpt.seq <= file.seq /\ hist[ckpt.seq] = ckpt.state
      /\ hist[file.seq] = file.state /\ Chain(ckpt.seq, file.seq)
      /\ todo \subseteq journal /\ \A q \in journal \ todo : q.seq <= file.seq
    BY <1>2 DEF StoreInv, ReplayInv
<1>4. /\ ckpt.seq \in Seqs /\ file.seq \in Seqs /\ r \in journal /\ r \in Record
      /\ \A q \in journal : q.seq \in Seqs
      /\ hist \in [Seqs -> State] /\ file.state \in State
    BY <1>3 DEF StoreInv, StoreTypeOK, Checkpoint, Record
<1>5. RecordsDistinct'
    BY <1>2 DEF StoreInv, RecordsDistinct
<1>6. CASE /\ r.seq <= file.seq
           /\ todo' = todo \ {r}
           /\ UNCHANGED <<file, hist, loadErr, pc>>
  <2>1. PhaseInv' /\ RunningInv' /\ LoadKeepsPromise'
      BY <1>2, <1>6 DEF StoreInv, PhaseInv, RunningInv, LoadKeepsPromise, Starting
  <2>2. ReplayInv' /\ PromiseInv'
      BY <1>2, <1>6 DEF StoreInv, ReplayInv, PromiseInv, Starting, DiskHolds, Chain
  <2> QED
      BY <1>1, <1>5, <2>1, <2>2 DEF StoreInv
<1>7. CASE /\ r.seq = file.seq + 1
           /\ next.pending >= 0
           /\ file' = [seq |-> r.seq, state |-> next]
           /\ todo' = todo \ {r}
           /\ hist' = [hist EXCEPT ![r.seq] = next]
           /\ UNCHANGED <<loadErr, pc>>
  <2> HIDE DEF next
  <2>1. PhaseInv' /\ RunningInv' /\ LoadKeepsPromise'
      BY <1>2, <1>7 DEF StoreInv, PhaseInv, RunningInv, LoadKeepsPromise, Starting
  <2>2. /\ r.seq \in Seqs /\ r.seq \in Int /\ file.seq = r.seq - 1 /\ file.seq \in Nat
        /\ file'.seq = r.seq /\ file'.state = next
    <3>1. r.seq \in Seqs /\ file.seq \in Seqs /\ r.seq = file.seq + 1
        BY <1>4, <1>7
    <3>2. r.seq \in Int /\ file.seq = r.seq - 1 /\ file.seq \in Nat
        BY <3>1, StoreAssumption DEF Seqs
    <3>3. file'.seq = r.seq /\ file'.state = next
        BY <1>7
    <3> QED
        BY <3>1, <3>2, <3>3
  <2>3. hist'[r.seq] = next /\ \A k \in Seqs : k # r.seq => hist'[k] = hist[k]
      BY <1>4, <1>7, <2>2
  <2>4. ckpt.seq # r.seq /\ ckpt.seq <= r.seq /\ file.seq # r.seq
      BY <1>3, <1>4, <2>2 DEF Seqs
  <2>5. ReplayInv'
    <3>1. Chain(ckpt.seq, file.seq)'
      <4> SUFFICES ASSUME NEW k \in Seqs, ckpt.seq < k, k <= r.seq
                   PROVE  \E q \in journal :
                            q.seq = k /\ applyTrafficDelta(hist'[k - 1], q) = hist'[k]
          BY <1>2, <2>2 DEF Chain
      <4>1. k \in Int /\ k - 1 \in Seqs /\ k - 1 # r.seq
          BY <1>4, <2>2, StoreAssumption DEF Seqs
      <4>2. CASE k = r.seq
        <5>1. hist'[k - 1] = file.state
            BY <1>3, <1>4, <2>2, <2>3, <2>4, <4>2
        <5> QED
            BY <1>4, <2>3, <4>2, <5>1 DEF next
      <4>3. CASE k # r.seq
        <5>1. k <= file.seq
            BY <2>2, <4>1, <4>3
        <5>2. PICK q \in journal :
                 q.seq = k /\ applyTrafficDelta(hist[k - 1], q) = hist[k]
            BY <1>3, <5>1 DEF Chain
        <5> QED
            BY <2>3, <4>1, <4>3, <5>2
      <4> QED
          BY <4>2, <4>3
    <3>2. \A q \in journal \ todo' : q.seq <= r.seq
        BY <1>3, <1>4, <1>7, <2>2 DEF Seqs
    <3> QED
        BY <1>2, <1>3, <1>4, <1>7, <2>2, <2>3, <2>4, <3>1, <3>2 DEF ReplayInv
  <2>6. PromiseInv'
    <3> SUFFICES ASSUME promised.known
                 PROVE  DiskHolds(promised.seq, promised.state)' /\ file'.seq <= promised.seq
        BY <1>2, <1>7 DEF PromiseInv
    <3>1. r.seq > file.seq
        BY <2>2
    <3>2. r.seq <= promised.seq /\ next = hist[r.seq]
        BY <1>2, <3>1, PromisedRecord DEF next
    <3>3. hist' = hist
        BY <1>4, <1>7, <2>2, <3>2
    <3>4. DiskHolds(promised.seq, promised.state)
        BY <1>2 DEF StoreInv, PromiseInv, Starting
    <3> QED
        BY <1>2, <2>2, <3>2, <3>3, <3>4 DEF DiskHolds, Chain
  <2> QED
      BY <1>1, <1>5, <2>1, <2>5, <2>6 DEF StoreInv
<1>8. CASE /\ r.seq > file.seq
           /\ r.seq # file.seq + 1 \/ next.pending < 0
           /\ loadErr' = TRUE
           /\ pc' = "idle"
           /\ UNCHANGED <<file, todo, hist>>
  <2>1. ~promised.known
    <3> SUFFICES ASSUME promised.known PROVE FALSE
        OBVIOUS
    <3>1. r.seq = file.seq + 1 /\ next = hist[r.seq]
        BY <1>2, <1>8, PromisedRecord
    <3>2. next.pending \in Nat
        BY <1>4, <3>1 DEF State
    <3> HIDE DEF next
    <3> QED
        BY <1>8, <3>1, <3>2
  <2> QED
      BY <1>1, <1>2, <1>5, <1>8, <2>1 DEF StoreInv, PhaseInv, RunningInv, ReplayInv,
         PromiseInv, LoadKeepsPromise, Starting
<1> QED
    BY <1>6, <1>7, <1>8 DEF ReplayRecord

\* At the end of the journal the loader stands at the promised number.
LEMMA StepLoadDone ==
    ASSUME StoreInv, LoadDone
    PROVE  StoreInv'
<1>1. StoreTypeOK'
    BY InvType DEF Next, StoreStep
<1>2. /\ pc = "replay" /\ pc' = "idle" /\ todo = {} /\ saved' = TRUE /\ ~loadErr
      /\ lastState' = file.state /\ journalSeq' = file.seq
      /\ UNCHANGED <<ckpt, journal, loadErr, hist, promised>>
    BY DEF LoadDone, files, StoreInv, PhaseInv, Starting
<1>3. /\ ckpt # NoFile /\ ckpt.seq <= file.seq /\ hist[ckpt.seq] = ckpt.state
      /\ hist[file.seq] = file.state /\ Chain(ckpt.seq, file.seq)
      /\ \A q \in journal : q.seq <= file.seq
    BY <1>2 DEF StoreInv, ReplayInv
<1>4. RecordsDistinct' /\ PhaseInv' /\ ReplayInv' /\ PromiseInv'
    BY <1>2 DEF StoreInv, RecordsDistinct, PhaseInv, ReplayInv, PromiseInv, Starting
<1>5. RunningInv'
    BY <1>2, <1>3 DEF RunningInv, DiskHolds, Chain, OnDisk
<1>6. LoadKeepsPromise'
  <2> SUFFICES ASSUME promised.known PROVE file.state = promised.state
      BY <1>2 DEF LoadKeepsPromise
  <2>1. DiskHolds(promised.seq, promised.state) /\ file.seq <= promised.seq
      BY <1>2 DEF StoreInv, PromiseInv, Starting
  <2>2. file.seq \in Seqs /\ promised.seq \in Seqs /\ ckpt.seq \in Seqs
      BY <1>3 DEF StoreInv, StoreTypeOK, Checkpoint, Promise
  <2>3. file.seq = promised.seq
    <3> SUFFICES ASSUME file.seq < promised.seq PROVE FALSE
        BY <2>1, <2>2 DEF Seqs
    <3>1. /\ file.seq + 1 \in Seqs /\ ckpt.seq < file.seq + 1
          /\ file.seq + 1 <= promised.seq
        BY <1>3, <2>2, StoreAssumption DEF Seqs
    <3>2. \E q \in journal : q.seq = file.seq + 1
        BY <2>1, <3>1 DEF DiskHolds, Chain
    <3> QED
        BY <1>3, <2>2, <3>2 DEF Seqs
  <2> QED
      BY <1>3, <2>1, <2>3 DEF DiskHolds
<1> QED
    BY <1>1, <1>4, <1>5, <1>6 DEF StoreInv

\* Every step keeps the invariant.
LEMMA InvStep == CleanupWorks /\ StoreInv /\ [Next]_storeVars => StoreInv'
<1> SUFFICES ASSUME CleanupWorks, StoreInv, [Next]_storeVars PROVE StoreInv'
    OBVIOUS
<1>1. CASE UNCHANGED storeVars
  <2>1. StoreTypeOK'
      BY InvType
  <2>2. RecordsDistinct' /\ PhaseInv' /\ LoadKeepsPromise'
      BY <1>1 DEF storeVars, StoreInv, RecordsDistinct, PhaseInv, LoadKeepsPromise, Starting
  <2>3. RunningInv' /\ ReplayInv' /\ PromiseInv'
      BY <1>1 DEF storeVars, StoreInv, RunningInv, ReplayInv, PromiseInv, Starting,
         DiskHolds, Chain, OnDisk
  <2> QED
      BY <2>1, <2>2, <2>3 DEF StoreInv
<1>2. CASE StoreStep
    BY <1>2, StepWriteCheckpoint, StepRemoveRecord, StepJournalRemoved,
       StepRemoveCheckpoint, StepAppendRecord, StepSaveFault, StepCompactWrite,
       StepLoadMissing, StepLoadCheckpoint, StepLoadGivesUp, StepReplayRecord,
       StepLoadDone DEF StoreStep
<1> QED
    BY <1>1, <1>2, StepBeginSave, StepBeginCompact, StepCrash DEF Next

\* Exact recovery: when removing obsolete files does not fail, a process
\* that dies at any file operation of save, compact or load while its
\* checkpoint is on disk leaves files from which load
\* (pending_report.go:197-237) rebuilds exactly the value they stood for, and
\* replayJournal (pending_journal.go:82-140) reports no error.
THEOREM RecoveryIsExact == CleanupWorks => (Spec => []LoadKeepsPromise)
<1> SUFFICES ASSUME CleanupWorks PROVE Spec => []LoadKeepsPromise
    OBVIOUS
<1>1. StoreInv /\ [Next]_storeVars => StoreInv'
    BY InvStep
<1>2. StoreInv => LoadKeepsPromise
    BY DEF StoreInv
<1> QED
    BY <1>1, <1>2, InvInit, PTL DEF Spec

-----------------------------------------------------------------------------
(***************************************************************************)
(* Helpers.                                                                *)
(***************************************************************************)
LEMMA NoReport == NoBatch \notin Reports
BY PipelineAssumption DEF Reports

\* The bounds are numbers.
LEMMA Bounds ==
    /\ MaxBytes \in Nat /\ MaxId \in Nat /\ MaxCrashes \in Nat
    /\ MaxLevel \in Nat /\ MaxLevel > 0 /\ MaxAttempts \in Nat /\ MaxAttempts > 0
BY PipelineAssumption

\* What is stored of a report is one.
LEMMA StoredType == ASSUME NEW b \in MaybeReport PROVE Stored(b) \in MaybeReport
BY DEF Stored, MaybeReport

\* The empty value is one the pipeline holds.
LEMMA EmptyHeld == EmptyState \in HeldValue
BY DEF EmptyState, HeldValue, MaybeReport

\* What a step of the pipeline does to the store: a file operation, a save of
\* some value, the merge of the journal at exit, or the death of the process.
StoreMove ==
    \/ StoreStep
    \/ \E s \in HeldValue : BeginSave(s)
    \/ BeginCompact
    \/ Crash
    \/ UNCHANGED storeVars

\* A new batch is a report (nextReportIDLocked).
LEMMA NewBatchType ==
    ASSUME PipelineTypeOK, pend = 0 \/ nextId <= MaxId
    PROVE  NewBatch \in Reports
BY PipelineAssumption DEF NewBatch, Reports, PipelineTypeOK

\* The batch just taken is a report.
LEMMA BatchTakenType ==
    ASSUME PipelineTypeOK, TakeNew
    PROVE  NewBatch \in Reports
<1>1. pend = 0 \/ nextId <= MaxId
    BY PipelineAssumption DEF TakeNew, PipelineTypeOK
<1> QED
    BY <1>1, NewBatchType

\* What persistBatchLocked saves is a value.
LEMMA ValueHeld ==
    ASSUME PipelineTypeOK, NEW b \in MaybeReport
    PROVE  Value(b) \in HeldValue
BY StoredType DEF Value, HeldValue, PipelineTypeOK

\* A step of the pipeline's file operations is a step of the store.
LEMMA PipelineStoreMove ==
    ASSUME PipelineTypeOK, [PipelineNext]_allVars
    PROVE  StoreMove
<1> USE DEF StoreMove
<1>1. ASSUME NEW b \in MaybeReport, NEW a, PersistBegins(b, a)
      PROVE  StoreMove
    BY <1>1, ValueHeld DEF PersistBegins
<1>2. ASSUME NEW b \in MaybeReport, PersistAtOnce(b)
      PROVE  StoreMove
    BY <1>2 DEF PersistAtOnce
<1>3. retry \in MaybeReport /\ pushBatch \in MaybeReport /\ NoBatch \in MaybeReport
    BY DEF PipelineTypeOK, MaybeReport
<1>4. CASE FileStep
    BY <1>4 DEF FileStep
<1>5. CASE MainPersist
    BY <1>1, <1>2, <1>3, <1>5 DEF MainPersist
<1>6. ASSUME takeReportBatch PROVE StoreMove
  <2>1. CASE TakeRetry
      BY <2>1 DEF TakeRetry
  <2>2. CASE TakeNew
    <3>1. Stored(NewBatch) \in MaybeReport
        BY <2>2, BatchTakenType, StoredType DEF MaybeReport
    <3>2. [batch |-> Stored(NewBatch), pending |-> 0] \in HeldValue
        BY <3>1 DEF HeldValue
    <3> QED
        BY <2>2, <3>2 DEF TakeNew
  <2> QED
      BY <1>6, <2>1, <2>2 DEF takeReportBatch
<1>7. CASE pushReportAsync \/ FinalBatch
    BY <1>6, <1>7 DEF pushReportAsync, FinalBatch
<1>8. CASE PushSnapshot
    BY <1>3, <1>8, ValueHeld DEF PushSnapshot
<1>9. CASE rememberFailedReport
    BY <1>1, <1>2, <1>3, <1>9 DEF rememberFailedReport
<1>10. CASE forgetCompletedReport
    BY <1>1, <1>2, <1>3, <1>10 DEF forgetCompletedReport
<1>11. CASE LastPersist
    BY <1>1, <1>2, <1>3, <1>11 DEF LastPersist
<1>12. CASE Compact
    BY <1>12 DEF Compact
<1>13. CASE Restart
    BY <1>13 DEF Restart
<1>14. CASE UNCHANGED allVars
    BY <1>14 DEF allVars
<1>15. CASE \/ restorePendingReports \/ \E n \in 0..MaxBytes : collectTraffic(n)
            \/ MainPersisted \/ shouldSkip \/ BatchTaken
            \/ PushPersist \/ PushPersisted \/ PushSend \/ PushAnswered \/ PushError
            \/ ReportRemembered \/ ReportForgotten \/ pushReportSync
            \/ ShutdownBudgetEnds \/ LastPersisted \/ \E b \in wire : PanelBooks(b)
    BY <1>15 DEF restorePendingReports, collectTraffic, MainPersisted, PersistReturns,
           shouldSkip, BatchTaken, PushPersist, PushPersisted, PushSend, PushAnswered,
           PushError, PushEnds, ReportRemembered, ReportForgotten, pushReportSync,
           MainGoes, ShutdownBudgetEnds, LastPersisted, PanelBooks
<1> QED
    BY <1>4, <1>5, <1>7, <1>8, <1>9, <1>10, <1>11, <1>12, <1>13, <1>14, <1>15 DEF PipelineNext

-----------------------------------------------------------------------------
(***************************************************************************)
(* Type correctness.                                                       *)
(***************************************************************************)
LEMMA HeldStep ==
    ASSUME HeldTypeOK, StoreMove
    PROVE  HeldTypeOK'
<1> USE EmptyHeld, StoreAssumption DEF HeldTypeOK
<1>1. CASE WriteCheckpoint
    BY <1>1 DEF WriteCheckpoint, HeldFile, Phases, loader
<1>2. CASE JournalRemoved
    BY <1>2 DEF JournalRemoved, SaveDone, Phases, files, loader
<1>3. CASE RemoveCheckpoint
    BY <1>3 DEF RemoveCheckpoint, SaveDone, Phases, loader
<1>4. CASE AppendRecord
  <2>1. diffPending(journalSeq + 1, lastState, target) \in HeldRecord
      BY DEF diffPending, HeldRecord, HeldValue, MaybeReport
  <2>2. journal' \subseteq HeldRecord
      BY <1>4, <2>1 DEF AppendRecord, PutRecord
  <2> QED
      BY <1>4, <2>2 DEF AppendRecord, SaveDone, Phases, loader
<1>5. CASE SaveFault
    BY <1>5 DEF SaveFault, SaveFailed, Phases, files, loader
<1>6. CASE CompactWrite
    BY <1>6 DEF CompactWrite, HeldFile, Phases, memory, loader
<1>7. CASE LoadMissing
    BY <1>7 DEF LoadMissing, Phases, files, memory, loader
<1>8. CASE LoadCheckpoint
    BY <1>8 DEF LoadCheckpoint, Phases, files, memory
<1>9. CASE LoadUnreadable
    BY <1>9 DEF LoadUnreadable, Phases, files, memory, loader
<1>10. CASE LoadForeign
    BY <1>10 DEF LoadForeign, Phases, memory, loader
<1>11. CASE LoadDone
    BY <1>11 DEF LoadDone, Phases, HeldFile, files, loader
<1>12. ASSUME NEW r \in journal, RemoveRecord(r)
       PROVE  HeldTypeOK'
    BY <1>12 DEF RemoveRecord, memory, loader
<1>13. ASSUME NEW r \in todo, ReplayRecord(r)
       PROVE  HeldTypeOK'
  <2> DEFINE next == applyTrafficDelta(file.state, r)
  <2>1. r \in HeldRecord /\ file.state \in HeldValue /\ r.seq \in Nat
      BY DEF HeldFile, HeldRecord
  <2>2. CASE UNCHANGED <<file, hist, loadErr, pc>> /\ todo' = todo \ {r}
      BY <1>13, <2>2 DEF ReplayRecord, files
  <2>3. CASE /\ next.pending >= 0
             /\ file' = [seq |-> r.seq, state |-> next]
             /\ todo' = todo \ {r}
             /\ UNCHANGED <<loadErr, pc>>
    <3>1. next \in HeldValue
        BY <2>1, <2>3 DEF applyTrafficDelta, HeldValue, HeldRecord
    <3>2. file' \in HeldFile
        BY <2>1, <2>3, <3>1 DEF HeldFile
    <3> HIDE DEF next
    <3> QED
        BY <1>13, <2>3, <3>2 DEF ReplayRecord, files
  <2>4. CASE loadErr' = TRUE /\ pc' = "idle" /\ UNCHANGED <<file, todo, hist>>
      BY <1>13, <2>4 DEF ReplayRecord, files, Phases
  <2> QED
      BY <1>13, <2>2, <2>3, <2>4 DEF ReplayRecord
<1>14. ASSUME NEW s \in HeldValue, BeginSave(s)
       PROVE  HeldTypeOK'
    BY <1>14 DEF BeginSave, Phases, files, memory, loader
<1>15. CASE BeginCompact
    BY <1>15 DEF BeginCompact, Phases, files, memory, loader
<1>16. CASE Crash
  <2>1. [seq |-> 0, state |-> EmptyState] \in HeldFile
      BY DEF HeldFile
  <2> QED
      BY <1>16, <2>1 DEF Crash, Phases, files
<1>17. CASE UNCHANGED storeVars
    BY <1>17 DEF storeVars
<1> QED
    BY <1>1, <1>2, <1>3, <1>4, <1>5, <1>6, <1>7, <1>8, <1>9, <1>10, <1>11, <1>12,
       <1>13, <1>14, <1>15, <1>16, <1>17 DEF StoreMove, StoreStep

\* The store starts well typed.
LEMMA HeldInit == PipelineInit => HeldTypeOK
<1>1. [seq |-> 0, state |-> EmptyState] \in HeldFile /\ 0 \in Nat
    BY EmptyHeld DEF HeldFile
<1> QED
    BY <1>1, EmptyHeld DEF PipelineInit, StoreInit, HeldTypeOK, Phases

\* The pipeline starts well typed.
LEMMA PipelineTypeInit == PipelineInit => PipelineTypeOK
<1> SUFFICES ASSUME PipelineInit PROVE PipelineTypeOK
    OBVIOUS
<1>1. NotPersisted \in [ok : BOOLEAN, batch : MaybeReport]
    BY DEF NotPersisted, MaybeReport
<1>2. /\ 0 \in 0..MaxBytes /\ 0 \in Nat /\ 1 \in 1..(MaxId + 1) /\ 0 \in 0..MaxLevel
      /\ 0 \in 0..2 /\ 0 \in 0..(MaxAttempts - 1) /\ 0 \in 0..MaxCrashes
    BY Bounds
<1> QED
    BY <1>1, <1>2 DEF PipelineInit, PipelineTypeOK, MaybeReport

\* What persistBatchLocked leaves of its cache keeps the cache's type.
LEMMA PersistType ==
    ASSUME PipelineTypeOK, NEW b \in MaybeReport,
           \/ PersistAtOnce(b)
           \/ PersistReturns(b)
           \/ PersistBegins(b, "main")
           \/ PersistBegins(b, "push")
    PROVE  /\ persisted' \in [ok : BOOLEAN, batch : MaybeReport]
           /\ stale' \in BOOLEAN /\ moved' \in BOOLEAN
           /\ mu' \in {"free", "main", "push"}
<1>1. [ok |-> TRUE, batch |-> b] \in [ok : BOOLEAN, batch : MaybeReport]
    OBVIOUS
<1>2. /\ persisted \in [ok : BOOLEAN, batch : MaybeReport]
      /\ stale \in BOOLEAN /\ moved \in BOOLEAN /\ mu \in {"free", "main", "push"}
    BY DEF PipelineTypeOK
<1>3. CASE PersistAtOnce(b)
    BY <1>1, <1>2, <1>3 DEF PersistAtOnce, RememberPersisted, KeepPersisted
<1>4. CASE PersistReturns(b)
    BY <1>1, <1>2, <1>4 DEF PersistReturns, RememberPersisted, KeepPersisted
<1>5. CASE PersistBegins(b, "main") \/ PersistBegins(b, "push")
    BY <1>2, <1>5 DEF PersistBegins, KeepPersisted
<1> QED
    BY <1>3, <1>4, <1>5

\* Every step keeps the types.
LEMMA PipelineTypeStep ==
    PipelineTypeOK /\ HeldTypeOK /\ LockInv /\ [PipelineNext]_allVars => PipelineTypeOK'
<1>a. SUFFICES ASSUME PipelineTypeOK, HeldTypeOK, LockInv, [PipelineNext]_allVars
               PROVE  PipelineTypeOK'
    OBVIOUS
<1>b. retry \in MaybeReport /\ pushBatch \in MaybeReport /\ NoBatch \in MaybeReport
    BY <1>a DEF PipelineTypeOK, MaybeReport
<1>c. ASSUME AfterFailure
      PROVE  /\ push' \in {"none", "persist"}
             /\ main' \in {main, "lastPersist"}
             /\ level' \in 0..MaxLevel
             /\ attempts' \in 0..(MaxAttempts - 1)
  <2>1. CASE main = "finalPush"
      BY <1>a, <1>c, <2>1, Bounds DEF AfterFailure, backoffVars, PipelineTypeOK
  <2>2. CASE main # "finalPush"
      BY <1>a, <1>c, <2>2, Bounds DEF AfterFailure, onFailure, PipelineTypeOK
  <2> QED
      BY <2>1, <2>2
<1>d. ASSUME AfterSuccess
      PROVE  push' = "none" /\ level' \in 0..MaxLevel /\ attempts' \in 0..(MaxAttempts - 1)
    BY <1>a, <1>d, Bounds DEF AfterSuccess, onSuccess, backoffVars, PipelineTypeOK
<1>1. CASE FileStep
  <2>1. target.pending \in Nat /\ Unbooked(target.batch) \in Nat /\ billed \in Nat /\ owed \in Nat
      BY <1>a DEF HeldTypeOK, HeldValue, Unbooked, MaybeReport, Reports, PipelineTypeOK
  <2>2. owed' \in Nat
      BY <1>1, <2>1 DEF FileStep, NoteOwed
  <2>3. strayed' \in BOOLEAN
      BY <1>1 DEF FileStep, NoteStrayed
  <2> QED
      BY <1>a, <1>1, <2>2, <2>3 DEF PipelineTypeOK, FileStep, trackerVars, batchVars, cacheVars,
             senderVars, backoffVars, shutdownVars, panelVars
<1>2. CASE restorePendingReports
    BY <1>a, <1>2 DEF PipelineTypeOK, restorePendingReports, HeldTypeOK, HeldValue, cacheVars,
           senderVars, backoffVars, shutdownVars, panelVars, historyVars
<1>3. ASSUME NEW n \in 0..MaxBytes, collectTraffic(n)
      PROVE  PipelineTypeOK'
  <2>1. produced' \in 0..MaxBytes /\ pend' \in Nat
      BY <1>a, <1>3, Bounds DEF collectTraffic, PipelineTypeOK
  <2>2. stale' \in BOOLEAN /\ moved' \in BOOLEAN
      BY <1>3 DEF collectTraffic
  <2> QED
      BY <1>a, <1>3, <2>1, <2>2 DEF PipelineTypeOK, collectTraffic, batchVars, senderVars,
             backoffVars, shutdownVars, panelVars, historyVars
<1>e. ASSUME AfterSample
      PROVE  main' \in {"finalPush", "idle"} /\ rounds' \in 0..2
    BY <1>a, <1>e DEF AfterSample, PipelineTypeOK
<1>4. CASE MainPersist
  <2>1. main' \in MainSaving \cup {"finalPush", "idle"} /\ rounds' \in 0..2
      BY <1>a, <1>e, <1>4 DEF MainPersist, MainSaving, PipelineTypeOK
  <2>2. PersistAtOnce(retry) \/ PersistBegins(retry, "main")
      BY <1>4 DEF MainPersist
  <2> QED
      BY <1>a, <1>b, <1>4, <2>1, <2>2, PersistType DEF PipelineTypeOK, MainPersist, trackerVars,
             batchVars, senderVars, backoffVars, panelVars, historyVars
<1>5. CASE MainPersisted
  <2>1. main' \in {"finalPush", "idle"} /\ rounds' \in 0..2 /\ PersistReturns(retry)
      BY <1>e, <1>5 DEF MainPersisted
  <2> QED
      BY <1>a, <1>b, <1>5, <2>1, PersistType DEF PipelineTypeOK, MainPersisted, trackerVars,
             batchVars, senderVars, backoffVars, panelVars, historyVars
<1>6. ASSUME takeReportBatch, UNCHANGED <<produced, backoffVars, closing, attempts, panelVars,
                                          historyVars>>,
             rounds' \in 0..2
      PROVE  PipelineTypeOK'
  <2>1. CASE TakeRetry
      BY <1>a, <1>6, <2>1 DEF PipelineTypeOK, TakeRetry, batchVars, cacheVars, backoffVars,
             panelVars, historyVars
  <2>2. CASE TakeNew
    <3>1. NewBatch \in MaybeReport
        BY <1>a, <2>2, BatchTakenType DEF MaybeReport
    <3>2. nextId' \in 1..(MaxId + 1) /\ 0 \in Nat
        BY <1>a, <2>2, Bounds DEF TakeNew, PipelineTypeOK
    <3>3. [ok |-> TRUE, batch |-> NewBatch] \in [ok : BOOLEAN, batch : MaybeReport]
        BY <3>1
    <3>4. /\ persisted' \in [ok : BOOLEAN, batch : MaybeReport]
          /\ stale' \in BOOLEAN /\ moved' \in BOOLEAN
        BY <1>a, <2>2, <3>3 DEF TakeNew, RememberPersisted, PipelineTypeOK
    <3>5. /\ mu' \in {"free", "main", "push"}
          /\ main' \in {main, "taking"} /\ push' \in {push, "persist"}
        BY <1>a, <2>2 DEF TakeNew, PipelineTypeOK
    <3>6. pend' = 0 /\ retry' = NewBatch /\ pushBatch' = NewBatch
        BY <2>2 DEF TakeNew
    <3> QED
        BY <1>a, <1>6, <3>1, <3>2, <3>4, <3>5, <3>6 DEF PipelineTypeOK, MainSaving, backoffVars,
               panelVars, historyVars
  <2> QED
      BY <1>6, <2>1, <2>2 DEF takeReportBatch
<1>7. CASE pushReportAsync
    BY <1>a, <1>6, <1>7 DEF pushReportAsync, shutdownVars, PipelineTypeOK
<1>8. CASE FinalBatch
  <2>1. rounds' \in 0..2
      BY <1>a, <1>8 DEF FinalBatch, PipelineTypeOK
  <2> QED
      BY <1>6, <1>8, <2>1 DEF FinalBatch
<1>9. CASE shouldSkip
    BY <1>a, <1>9 DEF PipelineTypeOK, shouldSkip, trackerVars, batchVars, cacheVars, senderVars,
           shutdownVars, panelVars, historyVars
<1>10. CASE BatchTaken
  <2>1. main' \in {"finalPush", "idle"} /\ push' = "persist" /\ PersistReturns(retry)
      BY <1>10 DEF BatchTaken
  <2> QED
      BY <1>a, <1>b, <1>10, <2>1, PersistType DEF PipelineTypeOK, BatchTaken, trackerVars,
             batchVars, backoffVars, shutdownVars, panelVars, historyVars
<1>11. CASE PushPersist
  <2>1. /\ push' \in {"send", "snapshot"} /\ mu' \in {"free", "main", "push"}
        /\ moved' \in BOOLEAN
      BY <1>a, <1>11 DEF PushPersist, PipelineTypeOK
  <2> QED
      BY <1>a, <1>11, <2>1 DEF PipelineTypeOK, PushPersist, KeepPersisted, trackerVars,
             batchVars, backoffVars, shutdownVars, panelVars, historyVars
<1>12. CASE PushSnapshot
  <2>1. [ok |-> TRUE, batch |-> retry] \in [ok : BOOLEAN, batch : MaybeReport]
      BY <1>b
  <2>2. /\ push' \in PushSaving \cup {"send", "failed"} /\ mu' \in {"free", "main", "push"}
        /\ persisted' \in [ok : BOOLEAN, batch : MaybeReport]
        /\ stale' \in BOOLEAN
      BY <1>a, <1>12, <2>1 DEF PushSnapshot, KeepPersisted, RememberPersisted, PushSaving,
             PipelineTypeOK
  <2> QED
      BY <1>a, <1>12, <2>2 DEF PipelineTypeOK, PushSnapshot, trackerVars, batchVars,
             backoffVars, shutdownVars, panelVars, historyVars
<1>13. CASE PushPersisted
  <2>1. push' \in {"send", "failed"} /\ PersistReturns(retry)
      BY <1>13 DEF PushPersisted
  <2> QED
      BY <1>a, <1>b, <1>13, <2>1, PersistType DEF PipelineTypeOK, PushPersisted, trackerVars,
             batchVars, backoffVars, shutdownVars, panelVars, historyVars
<1>14. CASE PushSend
  <2>1. pushBatch \in Reports
      BY <1>a, <1>b, <1>14 DEF PushSend, LockInv, MaybeReport
  <2> QED
      BY <1>a, <1>14, <2>1 DEF PipelineTypeOK, PushSend, trackerVars, batchVars, cacheVars,
             backoffVars, shutdownVars, historyVars
<1>15. CASE PushAnswered \/ PushError
  <2>1. push' \in {"acked", "failed"}
      BY <1>15 DEF PushAnswered, PushError, PushEnds
  <2> QED
      BY <1>a, <1>15, <2>1 DEF PipelineTypeOK, PushAnswered, PushError, PushEnds, trackerVars,
             batchVars, cacheVars, backoffVars, shutdownVars, panelVars, historyVars
<1>18. CASE rememberFailedReport
  <2>1. PersistAtOnce(pushBatch) \/ PersistBegins(pushBatch, "push")
      BY <1>18 DEF rememberFailedReport
  <2>2. /\ push' \in PushSaving \cup {"none", "persist"} /\ main' \in {main, "lastPersist"}
        /\ level' \in 0..MaxLevel /\ attempts' \in 0..(MaxAttempts - 1)
      BY <1>a, <1>c, <1>18 DEF rememberFailedReport, backoffVars, PushSaving, PipelineTypeOK
  <2> QED
      BY <1>a, <1>b, <1>18, <2>1, <2>2, PersistType DEF PipelineTypeOK, rememberFailedReport,
             trackerVars, panelVars, historyVars
<1>19. CASE ReportRemembered
  <2>1. PersistReturns(pushBatch) /\ AfterFailure
      BY <1>19 DEF ReportRemembered
  <2> QED
      BY <1>a, <1>b, <1>c, <1>19, <2>1, PersistType DEF PipelineTypeOK, ReportRemembered,
             trackerVars, batchVars, panelVars, historyVars
<1>20. CASE forgetCompletedReport
  <2>1. /\ persisted' \in [ok : BOOLEAN, batch : MaybeReport]
        /\ stale' \in BOOLEAN /\ moved' \in BOOLEAN
        /\ mu' \in {"free", "main", "push"}
    <3>1. CASE UNCHANGED <<cacheVars, mu>>
        BY <1>a, <3>1 DEF PipelineTypeOK, cacheVars
    <3>2. CASE PersistAtOnce(NoBatch) \/ PersistBegins(NoBatch, "push")
        BY <1>a, <1>b, <3>2, PersistType
    <3> QED
        BY <1>20, <3>1, <3>2 DEF forgetCompletedReport
  <2>2. /\ push' \in PushSaving \cup {"none"} /\ retry' \in {retry, NoBatch}
        /\ level' \in 0..MaxLevel /\ attempts' \in 0..(MaxAttempts - 1)
      BY <1>a, <1>d, <1>20 DEF forgetCompletedReport, backoffVars, PushSaving, PipelineTypeOK
  <2> QED
      BY <1>a, <1>b, <1>20, <2>1, <2>2 DEF PipelineTypeOK, forgetCompletedReport, trackerVars,
             panelVars, historyVars
<1>21. CASE ReportForgotten
  <2>1. PersistReturns(NoBatch) /\ AfterSuccess /\ retry' \in {retry, NoBatch}
      BY <1>21 DEF ReportForgotten
  <2> QED
      BY <1>a, <1>b, <1>d, <1>21, <2>1, PersistType DEF PipelineTypeOK, ReportForgotten,
             trackerVars, panelVars, historyVars
<1>22. CASE pushReportSync \/ ShutdownBudgetEnds
  <2>1. main' \in {"drain", "lastPersist"} /\ closing' \in BOOLEAN
      BY <1>a, <1>22 DEF pushReportSync, ShutdownBudgetEnds, MainGoes, PipelineTypeOK
  <2> QED
      BY <1>a, <1>22, <2>1 DEF PipelineTypeOK, pushReportSync, ShutdownBudgetEnds, MainGoes,
             trackerVars, batchVars, cacheVars, senderVars, backoffVars, panelVars, historyVars
<1>23. CASE LastPersist
  <2>1. PersistAtOnce(retry) \/ PersistBegins(retry, "main")
      BY <1>23 DEF LastPersist
  <2>2. main' \in MainSaving \cup {"exit"}
      BY <1>23 DEF LastPersist, MainSaving
  <2> QED
      BY <1>a, <1>b, <1>23, <2>1, <2>2, PersistType DEF PipelineTypeOK, LastPersist, trackerVars,
             batchVars, senderVars, backoffVars, shutdownVars, panelVars, historyVars
<1>24. CASE LastPersisted
  <2>1. PersistReturns(retry)
      BY <1>24 DEF LastPersisted
  <2> QED
      BY <1>a, <1>b, <1>24, <2>1, PersistType DEF PipelineTypeOK, LastPersisted, trackerVars,
             batchVars, senderVars, backoffVars, shutdownVars, panelVars, historyVars
<1>25. CASE Compact \/ UNCHANGED allVars
    BY <1>a, <1>25 DEF PipelineTypeOK, Compact, allVars, pipelineVars, trackerVars, batchVars,
           cacheVars, senderVars, backoffVars, shutdownVars, panelVars, historyVars
<1>26. CASE Restart
  <2>1. NotPersisted \in [ok : BOOLEAN, batch : MaybeReport]
      BY DEF NotPersisted, MaybeReport
  <2>2. /\ 0 \in Nat /\ 0 \in 0..MaxLevel /\ 0 \in 0..2 /\ 0 \in 0..(MaxAttempts - 1)
        /\ crashes' \in 0..MaxCrashes
      BY <1>a, <1>26, Bounds DEF Restart, PipelineTypeOK
  <2> QED
      BY <1>a, <1>b, <1>26, <2>1, <2>2 DEF PipelineTypeOK, Restart, panelVars
<1>27. ASSUME NEW b \in wire, PanelBooks(b)
       PROVE  PipelineTypeOK'
  <2>1. b \in Reports
      BY <1>a DEF PipelineTypeOK
  <2>2. b.id \in 1..MaxId /\ b.bytes \in Nat
      BY <1>27, <2>1, Bounds DEF PanelBooks, Reports
  <2>3. booked \subseteq 1..MaxId /\ billed \in Nat
      BY <1>a DEF PipelineTypeOK
  <2>4. booked' = booked \cup {b.id} /\ billed' = billed + b.bytes
      BY <1>27 DEF PanelBooks
  <2>5. booked' \subseteq 1..MaxId
      BY <2>2, <2>3, <2>4
  <2>6. billed' \in Nat
      BY <2>2, <2>3, <2>4
  <2> QED
      BY <1>a, <1>27, <2>5, <2>6 DEF PipelineTypeOK, PanelBooks, trackerVars, batchVars, cacheVars,
             senderVars, backoffVars, shutdownVars, historyVars
<1> QED
    BY <1>a, <1>1, <1>2, <1>3, <1>4, <1>5, <1>7, <1>8, <1>9, <1>10, <1>11, <1>12, <1>13, <1>14,
       <1>15, <1>18, <1>19, <1>20, <1>21, <1>22, <1>23, <1>24, <1>25, <1>26, <1>27
    DEF PipelineNext

-----------------------------------------------------------------------------
(***************************************************************************)
(* Who holds the two mutexes.                                              *)
(***************************************************************************)
\* A file operation does not begin a save, a load or a merge.
LEMMA FilePhase ==
    ASSUME StoreStep
    PROVE  /\ Saving' => Saving
           /\ Starting' => Starting
           /\ pc' \in {"compact", "compactSweep"} => pc \in {"compact", "compactSweep"}
<1> USE DEF Saving, Starting
<1>1. CASE WriteCheckpoint \/ AppendRecord \/ RemoveCheckpoint
    BY <1>1 DEF WriteCheckpoint, AppendRecord, RemoveCheckpoint, SaveDone
<1>2. CASE JournalRemoved
    BY <1>2 DEF JournalRemoved, SaveDone
<1>3. CASE SaveFault \/ CompactWrite
    BY <1>3 DEF SaveFault, SaveFailed, CompactWrite
<1>4. CASE LoadMissing \/ LoadCheckpoint \/ LoadUnreadable \/ LoadForeign \/ LoadDone
    BY <1>4 DEF LoadMissing, LoadCheckpoint, LoadUnreadable, LoadForeign, LoadDone
<1>5. CASE \E r \in journal : RemoveRecord(r)
    BY <1>5 DEF RemoveRecord
<1>6. CASE \E r \in todo : ReplayRecord(r)
    BY <1>6 DEF ReplayRecord
<1> QED
    BY <1>1, <1>2, <1>3, <1>4, <1>5, <1>6 DEF StoreStep

\* A save begins only in an idle store.
LEMMA BeginPhase ==
    ASSUME NEW s, BeginSave(s)
    PROVE  pc = "idle" /\ Saving' /\ ~Starting' /\ pc' \notin {"compact", "compactSweep"}
BY DEF BeginSave, Saving, Starting

\* persistBatchLocked leaves the store idle or saving.
LEMMA PersistPhase ==
    ASSUME NEW b
    PROVE  /\ PersistAtOnce(b) => pc' = pc /\ mu' = mu /\ UNCHANGED storeVars
           /\ \A a : PersistBegins(b, a) => BeginSave(Value(b)) /\ mu' = a
           /\ PersistReturns(b) => pc = "idle" /\ pc' = "idle" /\ mu' = "free"
BY DEF PersistAtOnce, PersistBegins, PersistReturns, storeVars

\* Nobody holds reportMu at first.
LEMMA LockInit == PipelineInit => LockInv
BY DEF PipelineInit, StoreInit, LockInv, MainSaving, PushSaving, Saving, Starting, NotPersisted

\* Every step keeps what reportMu promises.
LEMMA LockStep ==
    PipelineTypeOK /\ LockInv /\ [PipelineNext]_allVars => LockInv'
<1>a. SUFFICES ASSUME PipelineTypeOK, LockInv, [PipelineNext]_allVars
               PROVE  LockInv'
    OBVIOUS
<1> USE DEF MainSaving, PushSaving
<1>1. CASE FileStep
  <2>1. /\ Saving' => Saving
        /\ Starting' => Starting
        /\ pc' \in {"compact", "compactSweep"} => pc \in {"compact", "compactSweep"}
      BY <1>1, FilePhase DEF FileStep
  <2>2. UNCHANGED <<mu, main, push, retry, pushBatch, pend, persisted>>
      BY <1>1 DEF FileStep, trackerVars, batchVars, cacheVars, senderVars
  <2> QED
      BY <1>a, <2>1, <2>2 DEF LockInv
<1>2. CASE restorePendingReports
    BY <1>a, <1>2 DEF LockInv, Saving, Starting, restorePendingReports, cacheVars, senderVars,
           storeVars
<1>3. CASE \E n \in 0..MaxBytes : collectTraffic(n)
    BY <1>a, <1>3 DEF LockInv, Saving, Starting, collectTraffic, batchVars, senderVars, storeVars
<1>4. CASE MainPersist
  <2>1. UNCHANGED <<retry, pushBatch, push, pend>> /\ main = "sampled" /\ mu = "free"
      BY <1>4 DEF MainPersist, batchVars, senderVars, trackerVars
  <2>2. CASE PersistAtOnce(retry) /\ AfterSample
    <3>1. pc' = pc /\ mu' = mu /\ main' \in {"idle", "finalPush"}
        BY <2>2, PersistPhase DEF AfterSample
    <3> QED
        BY <1>a, <2>1, <3>1 DEF LockInv, Saving, Starting
  <2>3. CASE PersistBegins(retry, "main") /\ main' = "persisting"
    <3>1. /\ pc = "idle" /\ Saving' /\ ~Starting' /\ pc' \notin {"compact", "compactSweep"}
          /\ mu' = "main"
        BY <2>3, PersistPhase, BeginPhase
    <3> QED
        BY <1>a, <2>1, <2>3, <3>1 DEF LockInv
  <2> QED
      BY <1>4, <2>2, <2>3 DEF MainPersist
<1>5. CASE MainPersisted
  <2>1. UNCHANGED <<retry, pushBatch, push, pend>> /\ main = "persisting" /\ pc' = pc /\ pc = "idle"
        /\ mu' = "free" /\ main' \in {"idle", "finalPush"}
      BY <1>5, PersistPhase DEF MainPersisted, batchVars, senderVars, trackerVars, AfterSample
  <2> QED
      BY <1>a, <2>1 DEF LockInv, Saving, Starting
<1>6. ASSUME takeReportBatch, push = "none", main \in {"idle", "finalPush"}
      PROVE  LockInv'
  <2>1. CASE TakeRetry
    <3>1. /\ UNCHANGED <<pc, mu, main, retry>> /\ pushBatch' = retry /\ retry # NoBatch
          /\ push' = "persist"
        BY <2>1 DEF TakeRetry, batchVars, storeVars
    <3> QED
        BY <1>a, <1>6, <3>1 DEF LockInv, Saving, Starting
  <2>2. CASE TakeNew
    <3>1. retry' = NewBatch /\ pushBatch' = NewBatch /\ NewBatch # NoBatch
        BY <1>a, <2>2, BatchTakenType, NoReport DEF TakeNew
    <3>2. CASE UNCHANGED <<storeVars, mu, main>> /\ push' = "persist"
      <4>1. UNCHANGED <<pc, mu, main>> /\ push' = "persist"
          BY <3>2 DEF storeVars
      <4> QED
          BY <1>a, <1>6, <3>1, <4>1 DEF LockInv, Saving, Starting
    <3>3. CASE /\ BeginSave([batch |-> Stored(NewBatch), pending |-> 0])
               /\ mu' = "main" /\ main' = "taking" /\ push' = push
      <4>1. pc = "idle" /\ Saving' /\ ~Starting' /\ pc' \notin {"compact", "compactSweep"}
          BY <3>3, BeginPhase
      <4> QED
          BY <1>a, <1>6, <3>1, <3>3, <4>1 DEF LockInv
    <3> QED
        BY <2>2, <3>2, <3>3 DEF TakeNew
  <2> QED
      BY <1>6, <2>1, <2>2 DEF takeReportBatch
<1>7. CASE pushReportAsync \/ FinalBatch
    BY <1>6, <1>7 DEF pushReportAsync, FinalBatch
<1>8. CASE shouldSkip
    BY <1>a, <1>8 DEF LockInv, Saving, Starting, shouldSkip, trackerVars, batchVars, cacheVars,
           senderVars, storeVars
<1>9. CASE BatchTaken
  <2>1. /\ UNCHANGED <<retry, pushBatch, pend>> /\ main = "taking" /\ pc' = pc /\ pc = "idle"
        /\ mu' = "free" /\ main' \in {"idle", "finalPush"} /\ push' = "persist"
      BY <1>9, PersistPhase DEF BatchTaken, batchVars, trackerVars
  <2> QED
      BY <1>a, <2>1 DEF LockInv, Saving, Starting
<1>10. CASE PushPersist
  <2>1. /\ UNCHANGED <<pc, main, retry, pushBatch, pend>> /\ push = "persist" /\ mu = "free"
        /\ \/ push' = "send" /\ mu' = mu
           \/ push' = "snapshot" /\ mu' = "push"
      BY <1>10 DEF PushPersist, batchVars, trackerVars, storeVars
  <2> QED
      BY <1>a, <2>1 DEF LockInv, Saving, Starting
<1>11. CASE PushSnapshot
  <2>1. UNCHANGED <<main, retry, pushBatch, pend>> /\ push = "snapshot"
      BY <1>11 DEF PushSnapshot, batchVars, trackerVars
  <2>2. CASE mu' = "free" /\ push' \in {"failed", "send"} /\ UNCHANGED storeVars
      BY <1>a, <2>1, <2>2 DEF LockInv, Saving, Starting, storeVars
  <2>3. CASE BeginSave(Value(retry)) /\ push' = "persisting" /\ mu' = mu
    <3>1. pc = "idle" /\ Saving' /\ ~Starting' /\ pc' \notin {"compact", "compactSweep"}
        BY <2>3, BeginPhase
    <3> QED
        BY <1>a, <2>1, <2>3, <3>1 DEF LockInv
  <2> QED
      BY <1>11, <2>2, <2>3 DEF PushSnapshot
<1>12. CASE PushPersisted
  <2>1. /\ UNCHANGED <<main, retry, pushBatch, pend>> /\ push = "persisting" /\ pc' = pc
        /\ pc = "idle" /\ mu' = "free" /\ push' \in {"send", "failed"}
      BY <1>12, PersistPhase DEF PushPersisted, batchVars, trackerVars
  <2> QED
      BY <1>a, <2>1 DEF LockInv, Saving, Starting
<1>13. CASE PushSend \/ PushAnswered \/ PushError
  <2>1. /\ UNCHANGED <<pc, mu, main, retry, pushBatch, pend>>
        /\ push \in {"send", "wait"} /\ push' \in {"wait", "acked", "failed"}
      BY <1>13 DEF PushSend, PushAnswered, PushError, PushEnds, batchVars, trackerVars, storeVars
  <2> QED
      BY <1>a, <2>1 DEF LockInv, Saving, Starting
<1>14. ASSUME AfterFailure
       PROVE  \/ main = "finalPush" /\ main' \in {"finalPush", "lastPersist"}
                 /\ push' \in {"persist", "none"}
              \/ main' = main /\ push' = "none"
    BY <1>14 DEF AfterFailure
<1>15. CASE rememberFailedReport
  <2>1. UNCHANGED <<pushBatch, pend>> /\ push = "failed" /\ mu = "free" /\ retry' = pushBatch
      BY <1>15 DEF rememberFailedReport, trackerVars
  <2>2. CASE PersistAtOnce(pushBatch) /\ AfterFailure
    <3>1. pc' = pc /\ mu' = mu
        BY <2>2, PersistPhase
    <3> QED
        BY <1>a, <1>14, <2>1, <2>2, <3>1 DEF LockInv, Saving, Starting
  <2>3. CASE PersistBegins(pushBatch, "push") /\ push' = "remembering" /\ main' = main
    <3>1. /\ pc = "idle" /\ Saving' /\ ~Starting' /\ pc' \notin {"compact", "compactSweep"}
          /\ mu' = "push"
        BY <2>3, PersistPhase, BeginPhase
    <3> QED
        BY <1>a, <2>1, <2>3, <3>1 DEF LockInv
  <2> QED
      BY <1>15, <2>2, <2>3 DEF rememberFailedReport
<1>16. CASE ReportRemembered
  <2>1. /\ UNCHANGED <<retry, pushBatch, pend>> /\ push = "remembering" /\ pc' = pc
        /\ pc = "idle" /\ mu' = "free" /\ AfterFailure
      BY <1>16, PersistPhase DEF ReportRemembered, batchVars, trackerVars
  <2> QED
      BY <1>a, <1>14, <2>1 DEF LockInv, Saving, Starting
<1>17. ASSUME AfterSuccess PROVE push' = "none"
    BY <1>17 DEF AfterSuccess
<1>18. CASE forgetCompletedReport
  <2>1. UNCHANGED <<main, pend>> /\ push = "acked" /\ mu = "free" /\ pushBatch' = pushBatch
      BY <1>18 DEF forgetCompletedReport, trackerVars
  <2>2. CASE AfterSuccess /\ UNCHANGED <<pc, mu>>
      BY <1>a, <1>17, <2>1, <2>2 DEF LockInv, Saving, Starting
  <2>3. CASE PersistAtOnce(NoBatch) /\ AfterSuccess
    <3>1. UNCHANGED <<pc, mu>>
        BY <2>3, PersistPhase
    <3> QED
        BY <2>2, <2>3, <3>1
  <2>4. CASE PersistBegins(NoBatch, "push") /\ push' = "forgetting" /\ retry' = retry
    <3>1. /\ pc = "idle" /\ Saving' /\ ~Starting' /\ pc' \notin {"compact", "compactSweep"}
          /\ mu' = "push"
        BY <2>4, PersistPhase, BeginPhase
    <3> QED
        BY <1>a, <2>1, <2>4, <3>1 DEF LockInv
  <2> QED
      BY <1>18, <2>2, <2>3, <2>4 DEF forgetCompletedReport, storeVars
<1>19. CASE ReportForgotten
  <2>1. /\ UNCHANGED <<main, pushBatch, pend>> /\ push = "forgetting" /\ pc' = pc
        /\ pc = "idle" /\ mu' = "free" /\ push' = "none"
      BY <1>19, <1>17, PersistPhase DEF ReportForgotten, trackerVars
  <2> QED
      BY <1>a, <2>1 DEF LockInv, Saving, Starting
<1>20. CASE pushReportSync \/ ShutdownBudgetEnds
  <2>1. /\ UNCHANGED <<pc, mu, push, retry, pushBatch, pend>>
        /\ main \in {"idle", "drain", "finalPush"} /\ main' \in {"drain", "lastPersist"}
      BY <1>20 DEF pushReportSync, ShutdownBudgetEnds, MainGoes, storeVars, batchVars,
             trackerVars, senderVars
  <2> QED
      BY <1>a, <2>1 DEF LockInv, Saving, Starting
<1>21. CASE LastPersist
  <2>1. UNCHANGED <<retry, pushBatch, push, pend>> /\ main = "lastPersist" /\ mu = "free"
      BY <1>21 DEF LastPersist, batchVars, senderVars, trackerVars
  <2>2. CASE PersistAtOnce(retry) /\ main' = "exit"
    <3>1. pc' = pc /\ mu' = mu
        BY <2>2, PersistPhase
    <3> QED
        BY <1>a, <2>1, <2>2, <3>1 DEF LockInv, Saving, Starting
  <2>3. CASE PersistBegins(retry, "main") /\ main' = "lastPersisting"
    <3>1. /\ pc = "idle" /\ Saving' /\ ~Starting' /\ pc' \notin {"compact", "compactSweep"}
          /\ mu' = "main"
        BY <2>3, PersistPhase, BeginPhase
    <3> QED
        BY <1>a, <2>1, <2>3, <3>1 DEF LockInv
  <2> QED
      BY <1>21, <2>2, <2>3 DEF LastPersist
<1>22. CASE LastPersisted
  <2>1. /\ UNCHANGED <<retry, pushBatch, push, pend>> /\ main = "lastPersisting" /\ pc' = pc
        /\ pc = "idle" /\ mu' = "free" /\ main' = "exit"
      BY <1>22, PersistPhase DEF LastPersisted, batchVars, senderVars, trackerVars
  <2> QED
      BY <1>a, <2>1 DEF LockInv, Saving, Starting
<1>23. CASE Compact
  <2>1. UNCHANGED <<mu, main, push, retry, pushBatch, pend, persisted>>
      BY <1>23 DEF Compact, pipelineVars, batchVars, senderVars, trackerVars, cacheVars
  <2>2. main = "exit" /\ pc = "idle" /\ pc' = "compact"
      BY <1>23 DEF Compact, BeginCompact
  <2> QED
      BY <1>a, <2>1, <2>2 DEF LockInv, Saving, Starting
<1>24. CASE Restart
    BY <1>24 DEF LockInv, Saving, Starting, Restart, Crash, NotPersisted
<1>25. CASE \E b \in wire : PanelBooks(b)
  <2>1. UNCHANGED <<pc, mu, main, push, retry, pushBatch, pend, persisted>>
      BY <1>25 DEF PanelBooks, storeVars, batchVars, senderVars, trackerVars, cacheVars
  <2> QED
      BY <1>a, <2>1 DEF LockInv, Saving, Starting
<1>26. CASE UNCHANGED allVars
  <2>1. UNCHANGED <<pc, mu, main, push, retry, pushBatch, pend, persisted>>
      BY <1>26 DEF allVars, pipelineVars, storeVars, batchVars, senderVars, trackerVars, cacheVars
  <2> QED
      BY <1>a, <2>1 DEF LockInv, Saving, Starting
<1> QED
    BY <1>a, <1>1, <1>2, <1>3, <1>4, <1>5, <1>7, <1>8, <1>9, <1>10, <1>11, <1>12, <1>13, <1>15,
       <1>16, <1>18, <1>19, <1>20, <1>21, <1>22, <1>23, <1>24, <1>25, <1>26
    DEF PipelineNext

-----------------------------------------------------------------------------
(***************************************************************************)
(* A number names one content.                                             *)
(***************************************************************************)
\* The store only moves, drops and records batches it was given.
LEMMA StorePlacesStep ==
    ASSUME StoreStep \/ BeginCompact \/ Crash \/ UNCHANGED storeVars
    PROVE  StorePlaces' \subseteq StorePlaces \cup {NoBatch}
<1> USE DEF StorePlaces
<1>1. CASE WriteCheckpoint
    BY <1>1 DEF WriteCheckpoint, loader
<1>2. CASE JournalRemoved
    BY <1>2 DEF JournalRemoved, SaveDone, files, loader
<1>3. CASE RemoveCheckpoint
    BY <1>3 DEF RemoveCheckpoint, SaveDone, loader
<1>4. CASE AppendRecord
  <2>1. diffPending(journalSeq + 1, lastState, target).batch \in {target.batch, NoBatch}
      BY DEF diffPending
  <2> HIDE DEF StorePlaces
  <2>2. {r.batch : r \in journal'} \subseteq {r.batch : r \in journal} \cup {target.batch, NoBatch}
      BY <1>4, <2>1 DEF AppendRecord, PutRecord
  <2>3. lastState' = target /\ UNCHANGED <<ckpt, target, file, todo>>
      BY <1>4 DEF AppendRecord, SaveDone, loader
  <2> QED
      BY <2>2, <2>3 DEF StorePlaces
<1>5. CASE SaveFault
    BY <1>5 DEF SaveFault, SaveFailed, files, loader
<1>6. CASE CompactWrite
    BY <1>6 DEF CompactWrite, memory, loader
<1>7. CASE LoadMissing \/ LoadUnreadable
    BY <1>7 DEF LoadMissing, LoadUnreadable, files, memory, loader
<1>8. CASE LoadCheckpoint
    BY <1>8 DEF LoadCheckpoint, files, memory
<1>9. CASE LoadForeign
    BY <1>9 DEF LoadForeign, memory, loader
<1>10. CASE LoadDone
    BY <1>10 DEF LoadDone, files, loader
<1>11. ASSUME NEW r \in journal, RemoveRecord(r)
       PROVE  StorePlaces' \subseteq StorePlaces \cup {NoBatch}
    BY <1>11 DEF RemoveRecord, memory, loader
<1>12. ASSUME NEW r \in todo, ReplayRecord(r)
       PROVE  StorePlaces' \subseteq StorePlaces \cup {NoBatch}
  <2>1. UNCHANGED <<lastState, target, journal, ckpt>> /\ todo' \subseteq todo
      BY <1>12 DEF ReplayRecord, files
  <2>2. file'.state.batch \in {file.state.batch, r.batch}
      BY <1>12 DEF ReplayRecord, applyTrafficDelta
  <2> QED
      BY <2>1, <2>2
<1>13. CASE BeginCompact
    BY <1>13 DEF BeginCompact, files, memory, loader
<1>14. CASE Crash
    BY <1>14 DEF Crash, EmptyState, files
<1>15. CASE UNCHANGED storeVars
    BY <1>15 DEF storeVars
<1> QED
    BY <1>1, <1>2, <1>3, <1>4, <1>5, <1>6, <1>7, <1>8, <1>9, <1>10, <1>11, <1>12, <1>13,
       <1>14, <1>15 DEF StoreStep

\* Where the saved batch is while the store works.
LEMMA StorePlacesSave ==
    ASSUME NEW s, BeginSave(s)
    PROVE  StorePlaces' \subseteq StorePlaces \cup {s.batch}
BY DEF BeginSave, StorePlaces, files, memory, loader

\* persistBatchLocked brings in no other batch than the one it is called with.
LEMMA PersistPlaces ==
    ASSUME NEW b, PersistAtOnce(b) \/ PersistReturns(b) \/ \E a : PersistBegins(b, a)
    PROVE  /\ StorePlaces' \subseteq StorePlaces \cup {b, NoBatch}
           /\ persisted'.batch \in {persisted.batch, b}
<1>1. CASE PersistAtOnce(b)
  <2>1. StorePlaces' \subseteq StorePlaces \cup {NoBatch}
      BY <1>1, StorePlacesStep DEF PersistAtOnce
  <2> QED
      BY <1>1, <2>1 DEF PersistAtOnce, RememberPersisted, KeepPersisted
<1>2. CASE PersistReturns(b)
  <2>1. StorePlaces' \subseteq StorePlaces \cup {NoBatch}
      BY <1>2, StorePlacesStep DEF PersistReturns
  <2> QED
      BY <1>2, <2>1 DEF PersistReturns, RememberPersisted, KeepPersisted
<1>3. CASE \E a : PersistBegins(b, a)
  <2>1. StorePlaces' \subseteq StorePlaces \cup {Value(b).batch}
      BY <1>3, StorePlacesSave DEF PersistBegins
  <2>2. Value(b).batch \in {b, NoBatch}
      BY DEF Value, Stored
  <2> QED
      BY <1>3, <2>1, <2>2 DEF PersistBegins, KeepPersisted
<1> QED
    BY <1>1, <1>2, <1>3

\* Every step moves or drops batches, or makes one with the next number.
LEMMA KnownStep ==
    ASSUME PipelineTypeOK, [PipelineNext]_allVars
    PROVE  \/ Known' \subseteq Known /\ nextId' = nextId
           \/ /\ Known' \subseteq Known \cup {NewBatch}
              /\ nextId' = IF pend = 0 THEN nextId ELSE nextId + 1
<1> DEFINE Kept == Known' \subseteq Known /\ nextId' = nextId
<1> SUFFICES Kept \/ (/\ Known' \subseteq Known \cup {NewBatch}
                      /\ nextId' = IF pend = 0 THEN nextId ELSE nextId + 1)
    OBVIOUS
<1>a. ASSUME StorePlaces' \subseteq StorePlaces \cup {retry, pushBatch, NoBatch},
             MemoryPlaces' \subseteq Places \cup {NoBatch},
             nextId' = nextId
      PROVE  Kept
    BY <1>a DEF Known, Places, MemoryPlaces
<1>b. ASSUME UNCHANGED <<retry, pushBatch, wire>>, NEW b \in {retry, pushBatch, NoBatch},
             persisted'.batch \in {persisted.batch, b}
      PROVE  MemoryPlaces' \subseteq Places \cup {NoBatch}
    BY <1>b DEF MemoryPlaces, Places
<1>c. ASSUME NEW b \in {retry, pushBatch, NoBatch}, nextId' = nextId,
             PersistAtOnce(b) \/ PersistReturns(b) \/ \E a : PersistBegins(b, a),
             retry' \in {retry, pushBatch, NoBatch}, UNCHANGED <<pushBatch, wire>>
      PROVE  Kept
  <2>1. /\ StorePlaces' \subseteq StorePlaces \cup {b, NoBatch}
        /\ persisted'.batch \in {persisted.batch, b}
      BY <1>c, PersistPlaces
  <2>2. MemoryPlaces' \subseteq Places \cup {NoBatch}
      BY <1>c, <2>1 DEF MemoryPlaces, Places
  <2> QED
      BY <1>a, <1>c, <2>1, <2>2
<1>d. ASSUME UNCHANGED storeVars, nextId' = nextId,
             MemoryPlaces' \subseteq Places \cup {NoBatch}
      PROVE  Kept
    BY <1>a, <1>d, StorePlacesStep
<1>1. CASE FileStep
  <2>1. UNCHANGED <<retry, pushBatch, wire, persisted, nextId>>
      BY <1>1 DEF FileStep, batchVars, senderVars, panelVars, cacheVars
  <2>2. StorePlaces' \subseteq StorePlaces \cup {NoBatch}
      BY <1>1, StorePlacesStep DEF FileStep
  <2> QED
      BY <1>a, <2>1, <2>2 DEF MemoryPlaces, Places
<1>2. CASE restorePendingReports
  <2>1. retry' \in {retry, lastState.batch} /\ UNCHANGED <<pushBatch, wire, persisted, nextId>>
      BY <1>2 DEF restorePendingReports, senderVars, panelVars, cacheVars
  <2> QED
      BY <1>2, <1>d, <2>1 DEF restorePendingReports, MemoryPlaces, Places, StorePlaces
<1>3. CASE \/ \E n \in 0..MaxBytes : collectTraffic(n)
           \/ shouldSkip \/ PushPersist \/ PushSend \/ PushAnswered \/ PushError
           \/ pushReportSync \/ ShutdownBudgetEnds \/ \E b \in wire : PanelBooks(b)
  <2>1. UNCHANGED <<retry, pushBatch, persisted, nextId>> /\ wire' \subseteq wire \cup {pushBatch}
      BY <1>3 DEF collectTraffic, shouldSkip, PushPersist, KeepPersisted, PushSend, PushAnswered,
             PushError, PushEnds, pushReportSync, ShutdownBudgetEnds, MainGoes, PanelBooks,
             batchVars, senderVars, panelVars, cacheVars
  <2>2. UNCHANGED storeVars
      BY <1>3 DEF collectTraffic, shouldSkip, PushPersist, PushSend, PushAnswered, PushError,
             PushEnds, pushReportSync, ShutdownBudgetEnds, MainGoes, PanelBooks
  <2> QED
      BY <1>d, <2>1, <2>2 DEF MemoryPlaces, Places
<1>4. CASE \/ MainPersist \/ MainPersisted \/ BatchTaken \/ PushPersisted
           \/ LastPersist \/ LastPersisted
  <2>1. /\ UNCHANGED <<retry, pushBatch, wire, nextId>>
        /\ PersistAtOnce(retry) \/ PersistReturns(retry) \/ \E a : PersistBegins(retry, a)
      BY <1>4 DEF MainPersist, MainPersisted, BatchTaken, PushPersisted, LastPersist,
             LastPersisted, batchVars, senderVars, panelVars
  <2> QED
      BY <1>c, <2>1
<1>5. CASE rememberFailedReport \/ ReportRemembered
  <2>1. /\ UNCHANGED <<pushBatch, wire, nextId>> /\ retry' \in {retry, pushBatch}
        /\ PersistAtOnce(pushBatch) \/ PersistReturns(pushBatch)
           \/ \E a : PersistBegins(pushBatch, a)
      BY <1>5 DEF rememberFailedReport, ReportRemembered, batchVars, panelVars
  <2> QED
      BY <1>c, <2>1
<1>6. CASE forgetCompletedReport \/ ReportForgotten
  <2>1. UNCHANGED <<pushBatch, wire, nextId>> /\ retry' \in {retry, NoBatch}
      BY <1>6 DEF forgetCompletedReport, ReportForgotten, panelVars
  <2>2. CASE PersistAtOnce(NoBatch) \/ PersistReturns(NoBatch) \/ \E a : PersistBegins(NoBatch, a)
      BY <1>c, <2>1, <2>2
  <2>3. CASE UNCHANGED <<storeVars, retry, cacheVars, mu>>
      BY <1>d, <2>1, <2>3 DEF MemoryPlaces, Places, cacheVars
  <2> QED
      BY <1>6, <2>2, <2>3 DEF forgetCompletedReport, ReportForgotten
<1>7. CASE PushSnapshot
  <2>1. UNCHANGED <<retry, pushBatch, wire, nextId>> /\ persisted'.batch \in {persisted.batch, retry}
      BY <1>7 DEF PushSnapshot, RememberPersisted, KeepPersisted, batchVars, panelVars
  <2>2. MemoryPlaces' \subseteq Places \cup {NoBatch}
      BY <1>b, <2>1
  <2>3. CASE UNCHANGED storeVars
      BY <1>d, <2>1, <2>2, <2>3
  <2>4. CASE BeginSave(Value(retry))
    <3>1. Value(retry).batch \in {retry, NoBatch}
        BY DEF Value, Stored
    <3>2. StorePlaces' \subseteq StorePlaces \cup {retry, NoBatch}
        BY <2>4, <3>1, StorePlacesSave
    <3> QED
        BY <1>a, <2>1, <2>2, <3>2
  <2> QED
      BY <1>7, <2>3, <2>4 DEF PushSnapshot
<1>8. ASSUME takeReportBatch, UNCHANGED wire
      PROVE  Kept \/ (/\ Known' \subseteq Known \cup {NewBatch}
                      /\ nextId' = IF pend = 0 THEN nextId ELSE nextId + 1)
  <2>1. CASE TakeRetry
    <3>1. UNCHANGED <<retry, nextId, persisted>> /\ pushBatch' = retry
        BY <2>1 DEF TakeRetry, batchVars, cacheVars
    <3> QED
        BY <1>8, <1>d, <2>1, <3>1 DEF TakeRetry, MemoryPlaces, Places
  <2>2. CASE TakeNew
    <3>1. /\ retry' = NewBatch /\ pushBatch' = NewBatch
          /\ persisted'.batch \in {persisted.batch, NewBatch}
          /\ nextId' = IF pend = 0 THEN nextId ELSE nextId + 1
        BY <2>2 DEF TakeNew, RememberPersisted
    <3>2. StorePlaces' \subseteq StorePlaces \cup {NewBatch, NoBatch}
      <4>1. CASE UNCHANGED storeVars
          BY <4>1, StorePlacesStep
      <4>2. CASE BeginSave([batch |-> Stored(NewBatch), pending |-> 0])
          BY <4>2, StorePlacesSave DEF Stored
      <4> QED
          BY <2>2, <4>1, <4>2 DEF TakeNew
    <3> QED
        BY <1>8, <3>1, <3>2 DEF Known, Places, MemoryPlaces
  <2> QED
      BY <1>8, <2>1, <2>2 DEF takeReportBatch
<1>9. CASE pushReportAsync \/ FinalBatch
    BY <1>8, <1>9 DEF pushReportAsync, FinalBatch, panelVars
<1>10. CASE Compact
  <2>1. UNCHANGED <<retry, pushBatch, wire, persisted, nextId>>
      BY <1>10 DEF Compact, pipelineVars, batchVars, senderVars, panelVars, cacheVars
  <2>2. StorePlaces' \subseteq StorePlaces \cup {NoBatch}
      BY <1>10, StorePlacesStep DEF Compact
  <2> QED
      BY <1>a, <2>1, <2>2 DEF MemoryPlaces, Places
<1>11. CASE Restart
  <2>1. /\ retry' = NoBatch /\ pushBatch' = NoBatch /\ persisted'.batch = NoBatch
        /\ UNCHANGED <<wire, nextId>>
      BY <1>11 DEF Restart, NotPersisted, panelVars
  <2>2. StorePlaces' \subseteq StorePlaces \cup {NoBatch}
      BY <1>11, StorePlacesStep DEF Restart
  <2> QED
      BY <1>a, <2>1, <2>2 DEF MemoryPlaces, Places
<1>12. CASE UNCHANGED allVars
    BY <1>d, <1>12 DEF allVars, pipelineVars, batchVars, senderVars, panelVars, cacheVars,
           MemoryPlaces, Places
<1> QED
    BY <1>1, <1>2, <1>3, <1>4, <1>5, <1>6, <1>7, <1>9, <1>10, <1>11, <1>12 DEF PipelineNext

\* Everything known is a report.
LEMMA KnownReports == PipelineTypeOK /\ HeldTypeOK => Known \subseteq Reports
<1> SUFFICES ASSUME PipelineTypeOK, HeldTypeOK PROVE Known \subseteq Reports
    OBVIOUS
<1>1. MemoryPlaces \subseteq MaybeReport
    BY DEF PipelineTypeOK, MemoryPlaces, MaybeReport
<1>2. StorePlaces \subseteq MaybeReport
    BY DEF HeldTypeOK, StorePlaces, HeldValue, HeldFile, HeldRecord
<1> QED
    BY <1>1, <1>2 DEF Known, Places, MaybeReport

\* No number is used at first.
LEMMA ContentInit == PipelineInit => ContentInv
BY DEF PipelineInit, StoreInit, ContentInv, Known, Places, MemoryPlaces, StorePlaces,
       NotPersisted, EmptyState

\* Only the panel books.
LEMMA PanelStep ==
    ASSUME [PipelineNext]_allVars
    PROVE  UNCHANGED <<booked, billed>> \/ \E b \in wire : PanelBooks(b)
<1>1. CASE \/ FileStep \/ restorePendingReports \/ \E n \in 0..MaxBytes : collectTraffic(n)
           \/ MainPersist \/ MainPersisted \/ pushReportAsync \/ shouldSkip \/ BatchTaken
    BY <1>1 DEF FileStep, restorePendingReports, collectTraffic, MainPersist, MainPersisted,
           pushReportAsync, shouldSkip, BatchTaken, panelVars
<1>2. CASE \/ PushPersist \/ PushSnapshot \/ PushPersisted \/ PushSend \/ PushAnswered
           \/ PushError \/ rememberFailedReport \/ ReportRemembered
    BY <1>2 DEF PushPersist, PushSnapshot, PushPersisted, PushSend, PushAnswered, PushError,
           PushEnds, rememberFailedReport, ReportRemembered, panelVars
<1>3. CASE \/ forgetCompletedReport \/ ReportForgotten \/ pushReportSync \/ ShutdownBudgetEnds
           \/ FinalBatch \/ LastPersist \/ LastPersisted \/ Compact \/ Restart
           \/ UNCHANGED allVars
    BY <1>3 DEF forgetCompletedReport, ReportForgotten, pushReportSync, ShutdownBudgetEnds,
           MainGoes, FinalBatch, LastPersist, LastPersisted, Compact, Restart, allVars,
           pipelineVars, panelVars
<1> QED
    BY <1>1, <1>2, <1>3 DEF PipelineNext

\* A new number is fresh, and nothing else changes a report.
LEMMA ContentStep ==
    PipelineTypeOK /\ HeldTypeOK /\ ContentInv /\ [PipelineNext]_allVars => ContentInv'
<1>a. SUFFICES ASSUME PipelineTypeOK, HeldTypeOK, ContentInv, [PipelineNext]_allVars
               PROVE  ContentInv'
    OBVIOUS
<1>1. Known \subseteq Reports /\ nextId \in Nat /\ pend \in Nat /\ nextId > 0
    BY <1>a, KnownReports, Bounds DEF PipelineTypeOK
<1>2. \A b \in Known : b.id \in Nat /\ b.id < nextId
    BY <1>a, <1>1, Bounds DEF Reports, ContentInv
<1>3. nextId' \in Nat /\ nextId' >= nextId
    BY <1>a, <1>1, KnownStep
<1>4. \A n \in booked' : n < nextId'
  <2>1. \A n \in booked : n \in Nat /\ n < nextId
      BY <1>a, Bounds DEF PipelineTypeOK, ContentInv
  <2>2. CASE booked' = booked
      BY <1>1, <1>3, <2>1, <2>2
  <2>3. ASSUME NEW b \in wire, PanelBooks(b)
        PROVE  \A n \in booked' : n < nextId'
    <3>1. b \in Known
        BY <1>a, <2>3, NoReport DEF PipelineTypeOK, Known, Places, MemoryPlaces
    <3>2. booked' = booked \cup {b.id}
        BY <2>3 DEF PanelBooks
    <3> QED
        BY <1>1, <1>2, <1>3, <2>1, <3>1, <3>2
  <2> QED
      BY <1>a, <2>2, <2>3, PanelStep
<1>5. CASE Known' \subseteq Known /\ nextId' = nextId
    BY <1>a, <1>4, <1>5 DEF ContentInv
<1>6. CASE /\ Known' \subseteq Known \cup {NewBatch}
           /\ nextId' = IF pend = 0 THEN nextId ELSE nextId + 1
  <2>1. CASE pend = 0
    <3>1. NewBatch = [id |-> 0, bytes |-> 0]
        BY <2>1 DEF NewBatch
    <3>2. \A b \in Known : b.id = 0 => b = [id |-> 0, bytes |-> 0]
        BY <1>1 DEF Reports
    <3> QED
        BY <1>a, <1>1, <1>2, <1>3, <1>4, <1>6, <2>1, <3>1, <3>2 DEF ContentInv
  <2>2. CASE pend # 0
    <3>1. NewBatch.id = nextId
        BY <2>2 DEF NewBatch
    <3>2. \A b \in Known' : b.id < nextId'
        BY <1>1, <1>2, <1>6, <2>2, <3>1
    <3>3. \A a, b \in Known' : a.id = b.id => a = b
        BY <1>a, <1>1, <1>2, <1>6, <3>1 DEF ContentInv
    <3> QED
        BY <1>4, <3>2, <3>3 DEF ContentInv
  <2> QED
      BY <2>1, <2>2
<1> QED
    BY <1>a, <1>5, <1>6, KnownStep

-----------------------------------------------------------------------------
(***************************************************************************)
(* What is sent is stored.                                                 *)
(***************************************************************************)
\* What a file operation may change in the store's memory.
LEMMA FileMemory ==
    ASSUME StoreStep
    PROVE  /\ target' = target
           /\ \/ UNCHANGED <<saved, lastState>> /\ (Saving' => Saving)
              \/ Saving /\ pc' = "idle" /\ lastState' = target /\ saved' = TRUE
              \/ Starting /\ pc' = "idle"
<1> USE DEF Saving, Starting
<1>1. CASE WriteCheckpoint \/ CompactWrite
    BY <1>1 DEF WriteCheckpoint, CompactWrite, memory
<1>2. CASE JournalRemoved
    BY <1>2 DEF JournalRemoved, SaveDone
<1>3. CASE RemoveCheckpoint \/ AppendRecord
    BY <1>3 DEF RemoveCheckpoint, AppendRecord, SaveDone
<1>4. CASE SaveFault
    BY <1>4 DEF SaveFault, SaveFailed
<1>5. CASE LoadMissing \/ LoadUnreadable \/ LoadForeign \/ LoadDone
    BY <1>5 DEF LoadMissing, LoadUnreadable, LoadForeign, LoadDone
<1>6. CASE LoadCheckpoint
    BY <1>6 DEF LoadCheckpoint, memory
<1>7. CASE \E r \in journal : RemoveRecord(r)
    BY <1>7 DEF RemoveRecord, memory
<1>8. CASE \E r \in todo : ReplayRecord(r)
    BY <1>8 DEF ReplayRecord
<1> QED
    BY <1>1, <1>2, <1>3, <1>4, <1>5, <1>6, <1>7, <1>8 DEF StoreStep

\* A save that begins is not done yet.
LEMMA BeginMemory ==
    ASSUME NEW s, BeginSave(s)
    PROVE  target' = s /\ UNCHANGED <<saved, lastState>> /\ ~SaveOk' /\ Saving'
BY DEF BeginSave, SaveUnchanged, SaveOk, memory, Saving

\* persistBatchLocked(b) leaves the cache true, whichever way it goes.
Remembered(b) ==
    /\ persisted' = [ok |-> TRUE, batch |-> b]
    /\ saved /\ lastState.batch = Stored(b)

\* persistBatchLocked without anything to write: the file stays, the batch is remembered or not.
LEMMA AtOnceCache ==
    ASSUME NEW b, PersistAtOnce(b)
    PROVE  /\ UNCHANGED <<pc, mu, saved, lastState, target>>
           /\ persisted' = persisted \/ Remembered(b)
BY DEF PersistAtOnce, Immediate, SaveUnchanged, Value, RememberPersisted, KeepPersisted,
       Remembered, storeVars

\* A save that ended is remembered (persistBatchLocked).
LEMMA ReturnsCache ==
    ASSUME NEW b, PersistReturns(b), target.batch = Stored(b)
    PROVE  /\ UNCHANGED <<pc, saved, lastState, target>> /\ pc = "idle" /\ mu' = "free"
           /\ \/ SaveOk /\ Remembered(b)
              \/ ~SaveOk /\ persisted' = persisted
BY DEF PersistReturns, SaveOk, RememberPersisted, KeepPersisted, Remembered, storeVars

\* A save that begins leaves the cache.
LEMMA BeginsCache ==
    ASSUME NEW b, NEW a, PersistBegins(b, a)
    PROVE  /\ persisted' = persisted /\ UNCHANGED <<saved, lastState>>
           /\ target'.batch = Stored(b) /\ ~SaveOk' /\ Saving' /\ mu' = a
<1>1. BeginSave(Value(b))
    BY DEF PersistBegins
<1> QED
    BY <1>1, BeginMemory DEF PersistBegins, KeepPersisted, Value

\* Nothing is on its way at first.
LEMMA StoredInit == PipelineInit => StoredInv
BY DEF PipelineInit, StoreInit, StoredInv, MainSaving, PushSaving, Saving, NotPersisted

\* What is sent was saved before.
LEMMA StoredStep ==
    PipelineTypeOK /\ LockInv /\ StoredInv /\ [PipelineNext]_allVars => StoredInv'
<1>a. SUFFICES ASSUME PipelineTypeOK, LockInv, StoredInv, [PipelineNext]_allVars
               PROVE  StoredInv'
    OBVIOUS
<1> USE DEF MainSaving, PushSaving
\* Nobody else saves while reportMu is free or the sender takes its snapshot.
<1>b. mu = "free" => main \notin MainSaving /\ push \notin PushSaving \cup {"snapshot"}
    BY <1>a DEF LockInv
<1>c. push \in PushSaving \cup {"snapshot"} => main \notin MainSaving
    BY <1>a DEF LockInv
<1>d. (mu = "free" \/ push = "snapshot") /\ persisted.ok =>
          saved /\ lastState.batch = Stored(persisted.batch)
    BY <1>a, <1>b, <1>c DEF StoredInv, Returning
<1>s. push # "none" \/ main = "taking" => retry = pushBatch
    BY <1>a DEF LockInv
\* Steps that leave the store's memory and the cache alone.
<1>e. ASSUME UNCHANGED <<pc, saved, lastState, target, persisted>>,
             main' \in MainSaving => main \in MainSaving /\ retry' = retry,
             push' \in PushSaving => push' = push /\ retry' = retry,
             push' \in {"send", "wait"} => push \in {"send", "wait"} /\ pushBatch' = pushBatch,
             push \in PushSaving => push' = push,
             main \in MainSaving => main' \in MainSaving
      PROVE  StoredInv'
    BY <1>a, <1>e DEF StoredInv, Returning, Saving, SaveOk
<1>1. CASE FileStep
  <2>1. UNCHANGED <<main, push, retry, pushBatch, persisted>>
      BY <1>1 DEF FileStep, batchVars, senderVars, cacheVars
  <2>2. target' = target
      BY <1>1, FileMemory DEF FileStep
  <2>3. CASE UNCHANGED <<saved, lastState>> /\ (Saving' => Saving)
      BY <1>a, <2>1, <2>2, <2>3 DEF StoredInv, Returning, SaveOk
  <2>4. CASE Saving /\ pc' = "idle" /\ lastState' = target /\ saved' = TRUE
    <3>1. main \in MainSaving \/ push \in PushSaving
        BY <1>a, <2>4 DEF LockInv
    <3>2. Returning' /\ SaveOk' /\ ~Saving'
        BY <2>1, <2>2, <2>4, <3>1 DEF Returning, SaveOk, Saving
    <3>3. push \in {"send", "wait"} => target.batch = Stored(pushBatch)
        BY <1>a, <1>s, <3>1 DEF StoredInv
    <3> QED
        BY <1>a, <2>1, <2>2, <2>4, <3>2, <3>3 DEF StoredInv
  <2>5. CASE Starting /\ pc' = "idle"
    <3>1. main = "restore" /\ push = "none" /\ ~persisted.ok
        BY <1>a, <2>5 DEF LockInv
    <3> QED
        BY <2>1, <2>5, <3>1 DEF StoredInv, Saving
  <2> QED
      BY <1>1, <2>3, <2>4, <2>5, FileMemory DEF FileStep
<1>2. CASE \/ restorePendingReports \/ \E n \in 0..MaxBytes : collectTraffic(n)
           \/ shouldSkip \/ PushSend \/ PushAnswered \/ PushError
           \/ pushReportSync \/ ShutdownBudgetEnds
           \/ \E b \in wire : PanelBooks(b)
    BY <1>2, <1>a, <1>e DEF restorePendingReports, collectTraffic, shouldSkip, PushSend,
           PushAnswered, PushError, PushEnds, pushReportSync, ShutdownBudgetEnds, MainGoes,
           PanelBooks, storeVars, cacheVars, senderVars, batchVars, LockInv
<1>3. CASE MainPersist
  <2>1. UNCHANGED <<push, retry, pushBatch>> /\ mu = "free" /\ main = "sampled"
      BY <1>3 DEF MainPersist, senderVars, batchVars
  <2>2. CASE PersistAtOnce(retry) /\ AfterSample
    <3>1. main' \in {"idle", "finalPush"}
        BY <2>2 DEF AfterSample
    <3> QED
        BY <1>a, <1>b, <1>d, <2>1, <2>2, <3>1, AtOnceCache
        DEF StoredInv, Remembered, SaveOk, Saving
  <2>3. CASE PersistBegins(retry, "main") /\ main' = "persisting"
      BY <1>a, <1>b, <1>d, <2>1, <2>3, BeginsCache DEF StoredInv
  <2> QED
      BY <1>3, <2>2, <2>3 DEF MainPersist
<1>4. ASSUME PersistReturns(retry), main \in MainSaving, main' \notin MainSaving,
             UNCHANGED <<retry, pushBatch>>, push' = push \/ push' = "persist"
      PROVE  StoredInv'
  <2>1. target.batch = Stored(retry) /\ push \notin PushSaving
      BY <1>a, <1>c, <1>4 DEF StoredInv
  <2> QED
      BY <1>a, <1>4, <2>1, ReturnsCache DEF StoredInv, Remembered, SaveOk, Saving, Returning
<1>5. CASE MainPersisted \/ BatchTaken \/ LastPersisted
    BY <1>4, <1>5 DEF MainPersisted, BatchTaken, LastPersisted, AfterSample, batchVars,
           senderVars
<1>6. ASSUME takeReportBatch, push = "none"
      PROVE  StoredInv'
  <2>1. mu = "free" /\ main \notin MainSaving
      BY <1>b, <1>6 DEF takeReportBatch
  <2>2. CASE TakeRetry
    <3>1. UNCHANGED <<pc, saved, lastState, target, persisted, retry, main>> /\ push' = "persist"
        BY <2>2 DEF TakeRetry, storeVars, cacheVars, batchVars
    <3> QED
        BY <1>e, <1>6, <3>1
  <2>3. CASE TakeNew
    <3>1. retry' = NewBatch
        BY <2>3 DEF TakeNew
    <3>2. CASE /\ UNCHANGED <<storeVars, mu, main>> /\ push' = "persist"
               /\ \/ persisted' = persisted
                  \/ /\ SaveUnchanged([batch |-> Stored(NewBatch), pending |-> 0])
                     /\ persisted' = [ok |-> TRUE, batch |-> NewBatch]
        BY <1>a, <1>d, <2>1, <3>1, <3>2 DEF StoredInv, SaveUnchanged, SaveOk, Saving, storeVars
    <3>3. CASE /\ BeginSave([batch |-> Stored(NewBatch), pending |-> 0])
               /\ main' = "taking" /\ UNCHANGED <<persisted, push>>
      <4>1. target'.batch = Stored(NewBatch) /\ UNCHANGED <<saved, lastState>> /\ ~SaveOk'
          BY <3>3, BeginMemory
      <4> QED
          BY <1>6, <1>d, <2>1, <3>1, <3>3, <4>1 DEF StoredInv
    <3> QED
        BY <2>3, <3>2, <3>3 DEF TakeNew, RememberPersisted
  <2> QED
      BY <1>6, <2>2, <2>3 DEF takeReportBatch
<1>7. CASE pushReportAsync \/ FinalBatch
    BY <1>6, <1>7 DEF pushReportAsync, FinalBatch
<1>8. CASE PushPersist
  <2>1. /\ UNCHANGED <<pc, saved, lastState, target, persisted, retry, pushBatch, main>>
        /\ push = "persist" /\ mu = "free"
        /\ push' = "snapshot" \/ (Cached(retry) /\ push' = "send")
      BY <1>8 DEF PushPersist, KeepPersisted, storeVars, batchVars
  <2>2. push' = "send" => saved /\ lastState.batch = Stored(pushBatch)
      BY <1>d, <1>s, <2>1 DEF Cached
  <2> QED
      BY <1>a, <1>b, <1>d, <2>1, <2>2 DEF StoredInv, SaveOk, Saving
<1>9. CASE PushSnapshot
  <2>1. UNCHANGED <<retry, pushBatch, main>> /\ push = "snapshot"
      BY <1>9 DEF PushSnapshot, batchVars
  <2>2. CASE UNCHANGED storeVars /\ push' = "failed" /\ persisted' = persisted
      BY <1>a, <1>c, <1>d, <2>1, <2>2 DEF StoredInv, SaveOk, Saving, storeVars
  <2>3. CASE /\ UNCHANGED storeVars /\ push' = "send" /\ SaveUnchanged(Value(retry))
             /\ persisted' = [ok |-> TRUE, batch |-> retry]
      BY <1>a, <1>c, <1>s, <2>1, <2>3 DEF StoredInv, SaveOk, Saving, storeVars, SaveUnchanged, Value
  <2>4. CASE BeginSave(Value(retry)) /\ push' = "persisting" /\ persisted' = persisted
    <3>1. target'.batch = Stored(retry) /\ UNCHANGED <<saved, lastState>> /\ ~SaveOk'
        BY <2>4, BeginMemory DEF Value
    <3> QED
        BY <1>c, <1>d, <2>1, <2>4, <3>1 DEF StoredInv
  <2> QED
      BY <1>9, <2>2, <2>3, <2>4 DEF PushSnapshot, KeepPersisted, RememberPersisted
<1>10. ASSUME NEW b, PersistReturns(b), push \in PushSaving, target.batch = Stored(b),
              UNCHANGED main,
              push' \notin PushSaving, push' = "send" => SaveOk /\ b = pushBatch /\ pushBatch' = b,
              push' # "wait"
       PROVE  StoredInv'
    BY <1>a, <1>c, <1>10, ReturnsCache DEF StoredInv, Remembered, SaveOk, Saving, Returning
<1>11. CASE PushPersisted
  <2>1. target.batch = Stored(retry) /\ retry = pushBatch
      BY <1>a, <1>s, <1>11 DEF PushPersisted, StoredInv
  <2> QED
      BY <1>10, <1>11, <2>1 DEF PushPersisted
<1>12. CASE rememberFailedReport
  <2>1. /\ pushBatch' = pushBatch /\ retry' = retry /\ retry = pushBatch /\ push = "failed"
        /\ mu = "free"
      BY <1>s, <1>12 DEF rememberFailedReport
  <2>2. CASE PersistAtOnce(pushBatch) /\ AfterFailure
    <3>1. push' \in {"none", "persist"} /\ main' \in {main, "lastPersist"}
        BY <2>2 DEF AfterFailure
    <3> QED
        BY <1>a, <1>b, <1>d, <2>1, <2>2, <3>1, AtOnceCache
        DEF StoredInv, Remembered, SaveOk, Saving
  <2>3. CASE PersistBegins(pushBatch, "push") /\ push' = "remembering" /\ main' = main
      BY <1>a, <1>b, <1>d, <2>1, <2>3, BeginsCache DEF StoredInv
  <2> QED
      BY <1>12, <2>2, <2>3 DEF rememberFailedReport
<1>13. CASE ReportRemembered
  <2>1. /\ target.batch = Stored(pushBatch) /\ PersistReturns(pushBatch)
        /\ UNCHANGED <<retry, pushBatch>> /\ push = "remembering"
      BY <1>a, <1>s, <1>13 DEF ReportRemembered, StoredInv, batchVars
  <2>2. push' \in {"none", "persist"} /\ main' \in {main, "lastPersist"}
      BY <1>13 DEF ReportRemembered, AfterFailure
  <2> QED
      BY <1>a, <1>c, <2>1, <2>2, ReturnsCache
      DEF StoredInv, Remembered, SaveOk, Saving, Returning
<1>14. CASE forgetCompletedReport
  <2>1. UNCHANGED <<main, pushBatch>> /\ push = "acked" /\ mu = "free"
      BY <1>14 DEF forgetCompletedReport
  <2>2. CASE AfterSuccess /\ UNCHANGED <<storeVars, cacheVars>>
      BY <1>b, <1>e, <2>1, <2>2 DEF AfterSuccess, storeVars, cacheVars
  <2>3. CASE PersistAtOnce(NoBatch) /\ AfterSuccess
      BY <1>a, <1>b, <1>d, <2>1, <2>3, AtOnceCache
      DEF AfterSuccess, StoredInv, Remembered, SaveOk, Saving
  <2>4. CASE PersistBegins(NoBatch, "push") /\ push' = "forgetting"
    <3>1. Stored(NoBatch) = NoBatch
        BY DEF Stored
    <3> QED
        BY <1>a, <1>b, <1>d, <2>1, <2>4, <3>1, BeginsCache DEF StoredInv
  <2> QED
      BY <1>14, <2>2, <2>3, <2>4 DEF forgetCompletedReport
<1>15. CASE ReportForgotten
  <2>1. target.batch = Stored(NoBatch)
      BY <1>a, <1>15 DEF ReportForgotten, StoredInv, Stored
  <2> QED
      BY <1>10, <1>15, <2>1 DEF ReportForgotten, AfterSuccess
<1>16. CASE LastPersist
  <2>1. UNCHANGED <<push, retry, pushBatch>> /\ mu = "free" /\ main = "lastPersist"
      BY <1>16 DEF LastPersist, senderVars, batchVars
  <2>2. CASE PersistAtOnce(retry) /\ main' = "exit"
      BY <1>a, <1>b, <1>d, <2>1, <2>2, AtOnceCache
      DEF StoredInv, Remembered, SaveOk, Saving
  <2>3. CASE PersistBegins(retry, "main") /\ main' = "lastPersisting"
      BY <1>a, <1>b, <1>d, <2>1, <2>3, BeginsCache DEF StoredInv
  <2> QED
      BY <1>16, <2>2, <2>3 DEF LastPersist
<1>17. CASE Compact
  <2>1. UNCHANGED <<main, push, retry, pushBatch, persisted>>
      BY <1>17 DEF Compact, pipelineVars, batchVars, senderVars, cacheVars
  <2>2. pc = "idle" /\ pc' = "compact" /\ UNCHANGED <<saved, lastState, target>>
      BY <1>17 DEF Compact, BeginCompact, memory
  <2> QED
      BY <1>a, <2>1, <2>2 DEF StoredInv, Returning, Saving, SaveOk
<1>18. CASE Restart
    BY <1>18 DEF Restart, Crash, NotPersisted, StoredInv, Saving
<1>19. CASE UNCHANGED allVars
    BY <1>e, <1>19 DEF allVars, pipelineVars, storeVars, batchVars, senderVars, cacheVars
<1> QED
    BY <1>a, <1>1, <1>2, <1>3, <1>5, <1>7, <1>8, <1>9, <1>11, <1>12, <1>13, <1>14, <1>15,
       <1>16, <1>17, <1>18, <1>19 DEF PipelineNext

-----------------------------------------------------------------------------
(***************************************************************************)
(* Nothing is dropped on the way.                                          *)
(***************************************************************************)
LEMMA FlowInit == PipelineInit => FlowInv
BY DEF PipelineInit, StoreInit, FlowInv, Outstanding, Unbooked

\* Without a checkpoint the loader only finds that there is none.
LEMMA LoadsNothing ==
    ASSUME StoreStep, ckpt = NoFile, ~saved, pc \in {"load", "idle"}
    PROVE  ckpt' = NoFile /\ ~saved' /\ pc' # "replay"
BY DEF StoreStep, WriteCheckpoint, JournalRemoved, RemoveCheckpoint, AppendRecord, SaveFault,
       CompactWrite, LoadMissing, LoadCheckpoint, LoadUnreadable, LoadForeign, LoadDone,
       RemoveRecord, ReplayRecord, files, memory

\* No step but a death drops traffic.
LEMMA FlowStep ==
    PipelineTypeOK /\ HeldTypeOK /\ LockInv /\ ContentInv /\ FlowInv /\ [PipelineNext]_allVars
        => FlowInv'
<1>a. SUFFICES ASSUME PipelineTypeOK, HeldTypeOK, LockInv, ContentInv, FlowInv,
                      [PipelineNext]_allVars
               PROVE  FlowInv'
    OBVIOUS
<1>b. /\ produced \in Nat /\ pend \in Nat /\ billed \in Nat /\ retry \in MaybeReport
      /\ wire \subseteq Reports /\ nextId \in Nat /\ nextId > 0 /\ booked \subseteq Nat
      /\ 0 \notin booked /\ \A n \in booked : n < nextId
    BY <1>a, Bounds DEF PipelineTypeOK, ContentInv
<1>c. \A b \in Reports : /\ b.id \in Nat /\ b.bytes \in Nat /\ b # NoBatch
                         /\ b.id = 0 <=> b.bytes = 0
    BY NoReport, Bounds DEF Reports
<1>d. Unbooked(retry) \in Nat
    BY <1>b, <1>c DEF Unbooked, MaybeReport
<1>s. push # "none" => retry = pushBatch /\ retry \in Reports
    BY <1>a, <1>b DEF LockInv, MaybeReport
\* Steps that change neither the traffic held nor what the panel knows.
<1>e. ASSUME UNCHANGED <<produced, pend, billed, booked, retry, pushBatch, wire, crashes>>,
             push' \in {"acked", "forgetting"} => push \in {"acked", "forgetting"},
             main' = "restore" =>
                 main = "restore" /\ (crashes = 0 => ckpt' = NoFile /\ ~saved' /\ pc' # "replay")
      PROVE  FlowInv'
    BY <1>a, <1>e DEF FlowInv, Settled, Outstanding, Unbooked
<1>1. CASE FileStep
  <2>1. UNCHANGED <<produced, pend, billed, booked, retry, pushBatch, wire, crashes, push, main>>
      BY <1>1 DEF FileStep, trackerVars, batchVars, senderVars, panelVars
  <2>2. main = "restore" => pc \in {"load", "replay", "idle"}
      BY <1>a DEF LockInv, MainSaving, PushSaving, Saving, HeldTypeOK, Phases
  <2>3. ASSUME main = "restore", crashes = 0
        PROVE  ckpt' = NoFile /\ ~saved' /\ pc' # "replay"
      BY <1>1, <1>a, <2>2, <2>3, LoadsNothing DEF FileStep, FlowInv
  <2> QED
      BY <1>e, <2>1, <2>3
<1>2. CASE restorePendingReports
  <2>1. /\ UNCHANGED <<produced, billed, booked, pushBatch, wire, crashes, push>>
        /\ main = "restore" /\ main' = "idle" /\ push = "none"
        /\ ~saved => retry' = retry /\ pend' = pend
      BY <1>a, <1>2 DEF restorePendingReports, senderVars, panelVars, historyVars, LockInv
  <2> QED
      BY <1>a, <2>1 DEF FlowInv, Settled, Outstanding, Unbooked
<1>3. ASSUME NEW n \in 0..MaxBytes, collectTraffic(n)
      PROVE  FlowInv'
  <2>1. /\ UNCHANGED <<billed, booked, retry, pushBatch, wire, crashes, push>>
        /\ produced' = produced + n /\ pend' = pend + n
        /\ main # "restore" /\ main' # "restore" /\ n \in Nat
      BY <1>3, Bounds DEF collectTraffic, batchVars, senderVars, panelVars, historyVars
  <2>2. crashes = 0 => billed + (pend + Unbooked(retry)) = produced
      BY <1>a DEF FlowInv, Outstanding
  <2>3. Unbooked(retry)' = Unbooked(retry)
      BY <2>1 DEF Unbooked
  <2>4. crashes = 0 => (billed + Outstanding = produced)'
      BY <1>b, <1>d, <2>1, <2>2, <2>3 DEF Outstanding
  <2> QED
      BY <1>a, <2>1, <2>4 DEF FlowInv, Settled
<1>4. CASE MainPersist \/ MainPersisted \/ LastPersist \/ LastPersisted \/ BatchTaken
           \/ PushPersist \/ PushSnapshot \/ PushPersisted
  <2>1. /\ UNCHANGED <<produced, pend, billed, booked, retry, pushBatch, wire, crashes>>
        /\ push' = push \/ push' \in {"persist", "send", "snapshot", "failed", "persisting"}
        /\ main' = main \/ main' \in {"idle", "finalPush", "persisting", "exit", "lastPersisting"}
        /\ main # "restore"
      BY <1>a, <1>4 DEF MainPersist, MainPersisted, LastPersist, LastPersisted, BatchTaken,
             PushPersist, PushSnapshot, PushPersisted, AfterSample, trackerVars, batchVars,
             senderVars, panelVars, historyVars, LockInv
  <2> QED
      BY <1>e, <2>1
<1>5. CASE shouldSkip \/ PushError \/ pushReportSync \/ ShutdownBudgetEnds \/ Compact
           \/ UNCHANGED allVars
  <2>1. /\ UNCHANGED <<produced, pend, billed, booked, retry, pushBatch, wire, crashes>>
        /\ push' = push \/ push' = "failed"
        /\ \/ main' # "restore"
           \/ UNCHANGED <<main, ckpt, saved, pc>>
      BY <1>5 DEF shouldSkip, PushError, PushEnds, pushReportSync, ShutdownBudgetEnds, MainGoes,
             Compact, allVars, pipelineVars, storeVars, trackerVars, batchVars, senderVars,
             panelVars, historyVars
  <2> QED
      BY <1>a, <1>e, <2>1 DEF FlowInv
<1>6. ASSUME takeReportBatch, push = "none", main \in {"idle", "finalPush"},
             UNCHANGED <<produced, billed, booked, wire, crashes>>
      PROVE  FlowInv'
  <2>1. CASE TakeRetry
    <3>1. UNCHANGED <<pend, retry, main>> /\ push' = "persist"
        BY <2>1 DEF TakeRetry, batchVars
    <3> QED
        BY <1>a, <1>6, <3>1 DEF FlowInv, Settled, Outstanding, Unbooked
  <2>2. CASE TakeNew
    <3>1. /\ retry = NoBatch /\ retry' = NewBatch /\ pend' = 0 /\ push' \in {push, "persist"}
          /\ main' \in {main, "taking"}
        BY <2>2 DEF TakeNew
    <3>2. NewBatch # NoBatch /\ NewBatch \in Reports
        BY <1>a, <1>c, <2>2, BatchTakenType
    <3>3. Unbooked(retry)' = pend
      <4>1. CASE pend = 0
          BY <1>6, <3>1, <3>2, <4>1 DEF Unbooked, NewBatch
      <4>2. CASE pend # 0
        <5>1. NewBatch.id = nextId /\ NewBatch.bytes = pend
            BY <4>2 DEF NewBatch
        <5>2. nextId \notin booked
            BY <1>b
        <5> QED
            BY <1>6, <3>1, <3>2, <5>1, <5>2 DEF Unbooked
      <4> QED
          BY <4>1, <4>2
    <3>4. Unbooked(retry) = 0
        BY <3>1 DEF Unbooked
    <3>5. crashes = 0 => (billed + Outstanding = produced)'
        BY <1>a, <1>b, <1>6, <3>1, <3>3, <3>4 DEF FlowInv, Outstanding
    <3>6. crashes = 0 => \A b \in wire : Settled(b)
        BY <1>a, <1>b, <1>c, <3>1 DEF FlowInv
    <3> QED
        BY <1>6, <3>1, <3>5, <3>6 DEF FlowInv, Settled
  <2> QED
      BY <1>6, <2>1, <2>2 DEF takeReportBatch
<1>7. CASE pushReportAsync \/ FinalBatch
    BY <1>6, <1>7 DEF pushReportAsync, FinalBatch, panelVars, historyVars
<1>8. CASE PushSend
  <2>1. /\ UNCHANGED <<produced, pend, billed, booked, retry, pushBatch, crashes, main, ckpt,
                       saved, pc>>
        /\ wire' = wire \cup {pushBatch} /\ push = "send" /\ push' = "wait"
      BY <1>8 DEF PushSend, trackerVars, batchVars, storeVars, historyVars
  <2>2. retry = pushBatch
      BY <1>s, <2>1
  <2> QED
      BY <1>a, <2>1, <2>2 DEF FlowInv, Settled, Outstanding, Unbooked
<1>9. CASE PushAnswered
  <2>1. /\ UNCHANGED <<produced, pend, billed, booked, retry, pushBatch, wire, crashes, main,
                       ckpt, saved, pc>>
        /\ Settled(pushBatch)
      BY <1>9 DEF PushAnswered, PushEnds, Settled, trackerVars, batchVars, storeVars, senderVars,
             panelVars, historyVars
  <2> QED
      BY <1>a, <2>1 DEF FlowInv, Settled, Outstanding, Unbooked
<1>10. CASE rememberFailedReport \/ ReportRemembered
  <2>1. /\ UNCHANGED <<produced, pend, billed, booked, pushBatch, wire, crashes>>
        /\ push \in {"failed", "remembering"} /\ retry' \in {retry, pushBatch}
        /\ push' \in {"none", "persist", "remembering"}
        /\ main' = main \/ main' = "lastPersist"
      BY <1>10 DEF rememberFailedReport, ReportRemembered, AfterFailure, trackerVars, batchVars,
             panelVars, historyVars
  <2>2. push # "none"
      BY <2>1
  <2>3. retry' = retry
      BY <1>s, <2>1, <2>2
  <2>4. main # "restore"
      BY <1>a, <2>2 DEF LockInv
  <2> QED
      BY <1>e, <2>1, <2>3, <2>4
<1>11. CASE forgetCompletedReport \/ ReportForgotten
  <2>1. /\ UNCHANGED <<produced, pend, billed, booked, pushBatch, wire, crashes, main>>
        /\ push \in {"acked", "forgetting"} /\ retry' \in {retry, NoBatch}
      BY <1>11 DEF forgetCompletedReport, ReportForgotten, trackerVars, panelVars, historyVars
  <2>2. Settled(pushBatch) /\ retry = pushBatch /\ retry \in Reports /\ main # "restore"
      BY <1>a, <1>s, <2>1 DEF LockInv, FlowInv
  <2>3. Unbooked(retry) = 0
      BY <1>c, <2>2 DEF Unbooked, Settled
  <2>4. Unbooked(retry)' = 0
    <3>1. CASE retry' = retry
        BY <2>1, <2>3, <3>1 DEF Unbooked
    <3>2. CASE retry' = NoBatch
        BY <3>2 DEF Unbooked
    <3> QED
        BY <2>1, <3>1, <3>2
  <2>5. Settled(pushBatch)' /\ \A b \in wire : Settled(b) => Settled(b)'
      BY <2>1, <2>2 DEF Settled
  <2>6. crashes = 0 => \A b \in wire : Settled(b)
      BY <1>a, <2>2 DEF FlowInv
  <2>7. crashes = 0 => (billed + Outstanding = produced)'
      BY <1>a, <2>1, <2>3, <2>4 DEF FlowInv, Outstanding
  <2> QED
      BY <2>1, <2>2, <2>5, <2>6, <2>7 DEF FlowInv
<1>12. CASE Restart
    BY <1>b, <1>12, <1>a DEF Restart, FlowInv, PipelineTypeOK
<1>13. ASSUME NEW b \in wire, PanelBooks(b)
       PROVE  FlowInv'
  <2>1. /\ UNCHANGED <<produced, pend, retry, pushBatch, wire, crashes, main, push, ckpt, saved, pc>>
        /\ b.id # 0 /\ b.id \notin booked
        /\ booked' = booked \cup {b.id} /\ billed' = billed + b.bytes
      BY <1>13 DEF PanelBooks, storeVars, trackerVars, batchVars, senderVars, historyVars
  <2>2. \A a : Settled(a) => Settled(a)'
      BY <2>1 DEF Settled
  <2>3. ASSUME crashes = 0
        PROVE  (billed + Outstanding = produced)'
    <3>1. b = retry /\ b # NoBatch /\ b.bytes \in Nat
        BY <1>a, <1>b, <1>c, <2>1, <2>3 DEF FlowInv, Settled
    <3>2. Unbooked(retry) = b.bytes /\ Unbooked(retry)' = 0
        BY <2>1, <3>1 DEF Unbooked
    <3> QED
        BY <1>a, <1>b, <2>1, <2>3, <3>1, <3>2 DEF FlowInv, Outstanding
  <2> QED
      BY <1>a, <2>1, <2>2, <2>3 DEF FlowInv
<1> QED
    BY <1>a, <1>1, <1>2, <1>3, <1>4, <1>5, <1>7, <1>8, <1>9, <1>10, <1>11, <1>12, <1>13
    DEF PipelineNext

-----------------------------------------------------------------------------
(***************************************************************************)
(* Theorems.                                                               *)
(***************************************************************************)
\* The inductive invariant of the pipeline: types, the two mutexes, the
\* content of every number, the stored batch and the flow of the traffic
\* (service.go:1391-1586, 1644-1690, 1809-1827), under every fault.
THEOREM PipelineInvHolds == PipelineSpec => []PipelineInv
<1>1. PipelineInit => PipelineInv
    BY PipelineTypeInit, HeldInit, LockInit, ContentInit, StoredInit, FlowInit DEF PipelineInv
<1>2. PipelineInv /\ [PipelineNext]_allVars => PipelineInv'
  <2> SUFFICES ASSUME PipelineInv, [PipelineNext]_allVars
               PROVE  PipelineInv'
      OBVIOUS
  <2>1. HeldTypeOK'
      BY PipelineStoreMove, HeldStep DEF PipelineInv
  <2> QED
      BY <2>1, PipelineTypeStep, LockStep, ContentStep, StoredStep, FlowStep DEF PipelineInv
<1> QED
    BY <1>1, <1>2, PTL DEF PipelineSpec

\* The traffic counters, batches, files and states of the loop and the sender
\* always have their types; no counter is negative and no number is handed
\* out beyond the next one.
THEOREM PipelineTypesCorrect == PipelineSpec => [](PipelineTypeOK /\ HeldTypeOK)
<1>1. PipelineInv => PipelineTypeOK /\ HeldTypeOK
    BY DEF PipelineInv
<1> QED
    BY <1>1, PipelineInvHolds, PTL

\* A report number has one content for ever, in every process: nextReportID
\* numbers a batch once, and sampling, saving, dying, loading, retrying and
\* late processing only move and drop batches (service.go:1541-1586).
THEOREM NumbersAreFixed == PipelineSpec => []NumberFixesContent
<1>1. PipelineInv => NumberFixesContent
  <2> SUFFICES ASSUME PipelineInv PROVE NumberFixesContent
      OBVIOUS
  <2>1. wire \subseteq Known
      BY NoReport DEF PipelineInv, PipelineTypeOK, Known, Places, MemoryPlaces
  <2> QED
      BY <2>1 DEF PipelineInv, ContentInv, NumberFixesContent
<1> QED
    BY <1>1, PipelineInvHolds, PTL

\* While a batch with traffic is on its way, the store's last successful
\* value is that batch, whoever saved in between and whatever failed
\* (sendReportContext, service.go:1677-1690).
THEOREM SentBatchesAreStored == PipelineSpec => []SentIsStored
<1>1. PipelineInv => SentIsStored
  <2> SUFFICES ASSUME PipelineInv, push = "wait", pushBatch.bytes > 0
               PROVE  saved /\ lastState.batch = pushBatch
      BY DEF SentIsStored
  <2>1. pushBatch.bytes # 0 /\ (pushBatch = NoBatch => Stored(pushBatch) = pushBatch)
      BY DEF Stored
  <2> QED
      BY <2>1 DEF PipelineInv, StoredInv, Stored
<1> QED
    BY <1>1, PipelineInvHolds, PTL

\* As long as the process lives, every byte the kernel reported is booked or
\* still held, whatever was lost, repeated or failed on the way
\* (collectTraffic to forgetCompletedReport).
THEOREM NothingIsDropped == PipelineSpec => []NothingDropped
<1>1. PipelineInv => NothingDropped
    BY DEF PipelineInv, FlowInv, NothingDropped
<1> QED
    BY <1>1, PipelineInvHolds, PTL

-----------------------------------------------------------------------------
(***************************************************************************)
(* Nothing is billed twice (internal/service/service.go and the pending    *)
(* store): BillingInv of ReportPipeline is inductive when no file          *)
(* operation but publishing fails.  The store's part of the argument is    *)
(* StoreInv of PendingStore, with the pipeline as its client.              *)
(***************************************************************************)
(***************************************************************************)
(* The pipeline as the store's client.                                     *)
(***************************************************************************)
\* What persistBatchLocked passes to save is a value the store's own
\* theorems are about.
LEMMA ValueSaved ==
    ASSUME PipelineTypeOK, pend <= MaxBytes,
           NEW b \in MaybeReport, b # NoBatch => b.bytes <= MaxBytes
    PROVE  [batch |-> Stored(b), pending |-> pend] \in ClientStates
<1>1. Stored(b) \in Batches \cup {NoBatch}
  <2>1. CASE b = NoBatch \/ b.bytes = 0
      BY <2>1 DEF Stored
  <2>2. CASE b # NoBatch /\ b.bytes # 0
    <3>1. Stored(b) = b /\ b \in Reports
        BY <2>2 DEF Stored, MaybeReport
    <3>2. b \in [id : 1..MaxId, bytes : 1..MaxBytes]
        BY <2>2, <3>1, Bounds DEF Reports
    <3> QED
        BY <3>1, <3>2, PipelineAssumption
  <2> QED
      BY <2>1, <2>2
<1>2. pend \in 0..MaxPending
    BY PipelineAssumption, StoreAssumption DEF PipelineTypeOK
<1> QED
    BY <1>1, <1>2 DEF ClientStates

\* Every step of the pipeline is a step of the store, or leaves it alone.
LEMMA PipelineStoreNext ==
    ASSUME PipelineTypeOK, LockInv, pend <= MaxBytes,
           retry # NoBatch => retry.bytes <= MaxBytes,
           [PipelineNext]_allVars
    PROVE  [Next]_storeVars
<1>1. Value(retry) \in ClientStates /\ Value(NoBatch) \in ClientStates
    BY ValueSaved DEF Value, PipelineTypeOK, MaybeReport
<1>2. push = "failed" => Value(pushBatch) = Value(retry)
    BY DEF LockInv
<1>3. ASSUME takeReportBatch PROVE [Next]_storeVars
  <2>1. CASE TakeRetry
      BY <2>1 DEF TakeRetry
  <2>2. CASE TakeNew
    <3>1. NewBatch \in Reports /\ NewBatch.bytes = pend
        BY <2>2, BatchTakenType DEF NewBatch
    <3>2. [batch |-> Stored(NewBatch), pending |-> 0] \in ClientStates
      <4>1. [batch |-> Stored(NewBatch), pending |-> pend] \in ClientStates
          BY <3>1, ValueSaved DEF MaybeReport
      <4>2. Stored(NewBatch) \in Batches \cup {NoBatch}
          BY <4>1 DEF ClientStates
      <4>3. 0 \in 0..MaxPending
          BY StoreAssumption
      <4> QED
          BY <4>2, <4>3 DEF ClientStates
    <3>3. \/ UNCHANGED storeVars
          \/ BeginSave([batch |-> Stored(NewBatch), pending |-> 0])
        BY <2>2 DEF TakeNew
    <3> QED
        BY <3>2, <3>3 DEF Next
  <2> QED
      BY <1>3, <2>1, <2>2 DEF takeReportBatch
<1>4. CASE MainPersist \/ LastPersist \/ PushSnapshot
  <2>1. UNCHANGED storeVars \/ BeginSave(Value(retry))
      BY <1>4 DEF MainPersist, LastPersist, PushSnapshot, PersistAtOnce, PersistBegins
  <2> QED
      BY <1>1, <2>1 DEF Next
<1>5. CASE rememberFailedReport \/ forgetCompletedReport
  <2>1. \/ UNCHANGED storeVars
        \/ push = "failed" /\ BeginSave(Value(pushBatch))
        \/ BeginSave(Value(NoBatch))
      BY <1>5 DEF rememberFailedReport, forgetCompletedReport, PersistAtOnce, PersistBegins
  <2> QED
      BY <1>1, <1>2, <2>1 DEF Next
<1>6. CASE FileStep \/ Compact \/ Restart
    BY <1>6 DEF FileStep, Compact, Restart, Next
<1>7. CASE pushReportAsync \/ FinalBatch
    BY <1>3, <1>7 DEF pushReportAsync, FinalBatch
<1>8. CASE \/ UNCHANGED allVars \/ restorePendingReports \/ MainPersisted \/ shouldSkip
           \/ BatchTaken \/ PushPersist \/ PushPersisted \/ PushSend \/ PushAnswered
           \/ PushError \/ ReportRemembered \/ ReportForgotten \/ pushReportSync
           \/ ShutdownBudgetEnds \/ LastPersisted
    BY <1>8 DEF allVars, restorePendingReports, MainPersisted, shouldSkip, BatchTaken,
       PushPersist, PushPersisted, PushSend, PushAnswered, PushError, PushEnds,
       ReportRemembered, ReportForgotten, pushReportSync, ShutdownBudgetEnds, MainGoes,
       LastPersisted, PersistReturns
<1>9. ASSUME NEW n \in 0..MaxBytes, collectTraffic(n) PROVE [Next]_storeVars
    BY <1>9 DEF collectTraffic
<1>10. ASSUME NEW b \in wire, PanelBooks(b) PROVE [Next]_storeVars
    BY <1>10 DEF PanelBooks
<1> QED
    BY <1>4, <1>5, <1>6, <1>7, <1>8, <1>9, <1>10 DEF PipelineNext

(***************************************************************************)
(* The store's side: it stays usable, and what can be recovered changes    *)
(* only from a value it had to the value being saved.                      *)
(***************************************************************************)
LEMMA UsableInit == PipelineInit => UsableStore
<1> SUFFICES ASSUME PipelineInit PROVE UsableStore
    OBVIOUS
<1>1. StoreInit
    BY DEF PipelineInit
<1> QED
    BY <1>1, InvInit DEF StoreInit, UsableStore, Starting

\* No file operation and no end of the process takes the store out of reach
\* of the next load, as long as no journal is written beside no checkpoint.
LEMMA UsableStep ==
    ASSUME OnlyWritesFail, UsableStore, [Next]_storeVars,
           ckpt' = NoFile => journal' = {}
    PROVE  UsableStore'
<1>1. StoreInv'
    BY InvStep DEF OnlyWritesFail, CleanupWorks, UsableStore
<1>2. CASE UNCHANGED storeVars
    BY <1>1, <1>2 DEF UsableStore, storeVars, Starting
<1>3. CASE \E s \in ClientStates : BeginSave(s)
    BY <1>1, <1>3 DEF UsableStore, BeginSave, files, memory, Starting
<1>4. CASE BeginCompact
    BY <1>1, <1>4 DEF UsableStore, BeginCompact, files, memory, Starting
<1>5. CASE Crash
  <2>1. /\ pc' = "load" /\ ~loadErr' /\ UNCHANGED <<ckpt, journal>>
        /\ Starting => promised' = promised
        /\ ~Starting /\ saved /\ ckpt # NoFile => promised'.known
      BY <1>5 DEF Crash, files, UsableStore, Anchored, Starting
  <2> QED
      BY <1>1, <2>1 DEF UsableStore, Starting
<1>6. CASE WriteCheckpoint
  <2>1. ckpt' \in Checkpoint
      BY <1>6, StoreAssumption DEF WriteCheckpoint, UsableStore, StoreInv, StoreTypeOK,
         PhaseInv, Checkpoint, Seqs
  <2>2. ckpt' # NoFile
      BY <2>1, PipelineAssumption
  <2> QED
      BY <1>1, <1>6, <2>2 DEF UsableStore, WriteCheckpoint, Starting
<1>7. CASE \E r \in journal : RemoveRecord(r)
    BY <1>1, <1>7 DEF UsableStore, RemoveRecord, memory, loader, Starting
<1>8. CASE JournalRemoved
  <2>1. ckpt \in Checkpoint
      BY <1>8, StoreAssumption DEF JournalRemoved, UsableStore, StoreInv, StoreTypeOK,
         PhaseInv, Checkpoint
  <2>2. ckpt # NoFile
      BY <2>1, PipelineAssumption
  <2> QED
      BY <1>1, <1>8, <2>2 DEF UsableStore, JournalRemoved, SaveDone, files, Starting
<1>9. CASE RemoveCheckpoint
    BY <1>1, <1>9 DEF UsableStore, RemoveCheckpoint, SaveDone, Starting
<1>10. CASE AppendRecord
  <2>1. journal' # {} /\ ckpt' = ckpt
      BY <1>10 DEF AppendRecord, PutRecord
  <2>2. ckpt # NoFile
      BY <2>1
  <2> QED
      BY <1>1, <1>10, <2>1, <2>2 DEF UsableStore, AppendRecord, SaveDone, Starting
<1>11. CASE SaveFault
    BY <1>1, <1>11 DEF UsableStore, SaveFault, SaveFailed, OnlyWritesFail, files, Starting
<1>12. CASE CompactWrite
  <2>1. ckpt' \in Checkpoint
      BY <1>12 DEF CompactWrite, UsableStore, StoreInv, StoreTypeOK, Checkpoint
  <2>2. ckpt' # NoFile
      BY <2>1, PipelineAssumption
  <2> QED
      BY <1>1, <1>12, <2>2 DEF UsableStore, CompactWrite, memory, Starting
<1>13. CASE LoadMissing
    BY <1>1, <1>13 DEF UsableStore, LoadMissing, files, memory, loader, Starting, StoreInv, PhaseInv
<1>14. CASE LoadCheckpoint
    BY <1>1, <1>14 DEF UsableStore, LoadCheckpoint, files, memory, Starting
<1>15. CASE LoadUnreadable \/ LoadForeign
    BY <1>15 DEF LoadUnreadable, LoadForeign, OnlyWritesFail
<1>16. ASSUME NEW r \in todo, ReplayRecord(r) PROVE UsableStore'
  <2>1. /\ pc = "replay" /\ UNCHANGED <<ckpt, journal, saved, lastState, promised>>
        /\ \/ UNCHANGED <<loadErr, pc>>
           \/ loadErr' = TRUE /\ pc' = "idle"
      BY <1>16 DEF ReplayRecord, files
  <2>2. promised.known
      BY <2>1 DEF UsableStore
  <2>3. UNCHANGED <<loadErr, pc>>
      BY <1>1, <2>1, <2>2 DEF StoreInv, LoadKeepsPromise
  <2> QED
      BY <1>1, <2>1, <2>2, <2>3 DEF UsableStore, Starting
<1>17. CASE LoadDone
    BY <1>1, <1>17 DEF UsableStore, LoadDone, files, StoreInv, ReplayInv, Starting
<1> QED
    BY <1>2, <1>3, <1>4, <1>5, <1>6, <1>7, <1>8, <1>9, <1>10, <1>11, <1>12, <1>13,
       <1>14, <1>15, <1>16, <1>17 DEF Next, StoreStep

\* A file operation or the end of the process leaves to the next process what
\* could be recovered before, or the value that was being saved.
LEMMA RecoverableStep ==
    ASSUME OnlyWritesFail, UsableStore, UsableStore', StoreStep \/ Crash
    PROVE  /\ target' = target \/ ~Saving'
           /\ Saving' => Saving
           /\ Recoverable' = Recoverable \/ (Saving /\ Recoverable' = target)
<1>1. CASE Crash
  <2>1. /\ pc' = "load" /\ ckpt' = ckpt
        /\ promised' = IF pc \in {"load", "replay"} THEN promised
                       ELSE IF Anchored
                       THEN [known |-> TRUE, seq |-> journalSeq, state |-> OnDisk]
                       ELSE NoPromise
      BY <1>1 DEF Crash, files
  <2>2. ~Saving' /\ Starting'
      BY <2>1 DEF Saving, Starting
  <2>3. CASE Starting
      BY <2>1, <2>2, <2>3 DEF Recoverable, Starting
  <2>4. CASE ~Starting /\ Anchored
      BY <2>1, <2>2, <2>4 DEF Recoverable, Starting, Anchored, OnDisk, Saving
  <2>5. CASE ~Starting /\ ~Anchored
    <3>1. ~promised'.known
        BY <2>1, <2>5 DEF NoPromise, Starting
    <3>2. CASE ckpt = NoFile
        BY <2>1, <2>2, <2>5, <3>1, <3>2 DEF Recoverable, UsableStore
    <3>3. CASE ckpt # NoFile
      <4>1. pc \in {"sweep", "unlink"} /\ ~saved
          BY <2>5, <3>3 DEF Anchored, UsableStore
      <4>2. ckpt.state = target
          BY <4>1 DEF UsableStore, StoreInv, PhaseInv
      <4> QED
          BY <2>1, <2>2, <3>1, <3>3, <4>1, <4>2 DEF Recoverable, Saving
    <3> QED
        BY <3>2, <3>3
  <2> QED
      BY <2>2, <2>3, <2>4, <2>5
<1>2. CASE StoreStep
  <2>1. target' = target /\ (Saving' => Saving) /\ (Starting' => Starting)
      BY <1>2, FileMemory, FilePhase
  <2>2. CASE ~Starting
    <3>1. ~Starting'
        BY <2>1, <2>2
    <3>2. \/ UNCHANGED <<saved, lastState>>
          \/ Saving /\ lastState' = target /\ saved' = TRUE
        BY <1>2, <2>2, FileMemory
    <3> QED
        BY <2>1, <2>2, <3>1, <3>2 DEF Recoverable
  <2>3. CASE Starting
    <3>1. CASE LoadMissing
      <4>1. ~promised.known
          BY <2>3, <3>1 DEF LoadMissing, UsableStore, StoreInv, PromiseInv, DiskHolds
      <4>2. ~saved'
          BY <2>3, <3>1 DEF LoadMissing, memory, UsableStore, StoreInv, PhaseInv
      <4>3. ckpt = NoFile /\ ~Starting'
          BY <3>1 DEF LoadMissing, Starting
      <4> QED
          BY <2>1, <2>3, <4>1, <4>2, <4>3 DEF Recoverable
    <3>2. CASE LoadDone
      <4>1. /\ pc = "replay" /\ ckpt # NoFile /\ pc' = "idle" /\ saved' = TRUE
            /\ lastState' = file.state /\ promised' = promised
          BY <3>2 DEF LoadDone, UsableStore, StoreInv, ReplayInv
      <4>2. lastState' = IF promised.known THEN promised.state ELSE ckpt.state
          BY <4>1 DEF UsableStore, StoreInv, LoadKeepsPromise
      <4>3. ~Starting'
          BY <4>1 DEF Starting
      <4> QED
          BY <2>1, <2>3, <4>1, <4>2, <4>3 DEF Recoverable
    <3>3. CASE LoadCheckpoint \/ \E r \in todo : ReplayRecord(r)
      <4>1. UNCHANGED <<ckpt, promised>> /\ (pc' = "replay" \/ loadErr')
          BY <3>3 DEF LoadCheckpoint, ReplayRecord, files
      <4>2. Starting'
          BY <4>1 DEF UsableStore, Starting
      <4> QED
          BY <2>1, <2>3, <4>1, <4>2 DEF Recoverable
    <3> QED
        BY <1>2, <2>3, <3>1, <3>2, <3>3
        DEF StoreStep, Starting, WriteCheckpoint, JournalRemoved, RemoveCheckpoint,
            AppendRecord, SaveFault, CompactWrite, RemoveRecord, LoadUnreadable,
            LoadForeign, OnlyWritesFail
  <2> QED
      BY <2>2, <2>3
<1> QED
    BY <1>1, <1>2

(***************************************************************************)
(* What fits the panel.                                                    *)
(***************************************************************************)
LEMMA UnbookedType == ASSUME NEW b \in MaybeReport PROVE Unbooked(b) \in Nat
BY DEF Unbooked, MaybeReport, Reports

\* A batch without traffic is stored as none: it makes no difference.
LEMMA StoredUnbooked == ASSUME NEW b \in MaybeReport PROVE Unbooked(Stored(b)) = Unbooked(b)
BY DEF Unbooked, Stored, MaybeReport, Reports

\* Everything the agent may go on with has its type.
LEMMA LiveHeld ==
    ASSUME PipelineTypeOK, HeldTypeOK, StoreTypeOK
    PROVE  Live \subseteq HeldValue
<1>1. State \subseteq HeldValue
    BY PipelineAssumption, Bounds DEF State, HeldValue, MaybeReport, Reports
<1>2. ckpt # NoFile => ckpt.state \in HeldValue
    BY DEF HeldTypeOK, HeldFile
<1>3. promised.state \in HeldValue
    BY <1>1 DEF StoreTypeOK, Promise
<1>4. lastState \in HeldValue /\ target \in HeldValue /\ EmptyState \in HeldValue
    BY EmptyHeld DEF HeldTypeOK
<1>5. InMemory \in HeldValue
    BY DEF InMemory, HeldValue, PipelineTypeOK
<1> QED
    BY <1>2, <1>3, <1>4, <1>5 DEF Live, Recoverable

\* More traffic from the kernel leaves what fits.
LEMMA FitsKept ==
    ASSUME PipelineTypeOK, NEW v \in HeldValue, Fits(v),
           UNCHANGED <<billed, booked, wire>>, produced' \in Nat, produced' >= produced
    PROVE  Fits(v)'
<1>1. Unbooked(v.batch)' = Unbooked(v.batch)
    BY DEF Unbooked
<1>2. v.pending \in Nat /\ Unbooked(v.batch) \in Nat /\ billed \in Nat /\ produced \in Nat
    BY UnbookedType, Bounds DEF HeldValue, PipelineTypeOK
<1>3. (billed + v.pending + Unbooked(v.batch) <= produced)'
    BY <1>1, <1>2 DEF Fits
<1> QED
    BY <1>3 DEF Fits, Settled

\* The central step: the panel books a batch that every value the agent may
\* go on with holds, so each of them gives up what the panel takes.
LEMMA FitsBooked ==
    ASSUME PipelineTypeOK, NEW v \in HeldValue, Fits(v), NEW b \in wire, PanelBooks(b)
    PROVE  Fits(v)'
<1>1. /\ b.id # 0 /\ b.id \notin booked /\ booked' = booked \cup {b.id}
      /\ billed' = billed + b.bytes /\ UNCHANGED <<produced, wire>>
    BY DEF PanelBooks, trackerVars
<1>2. b = v.batch /\ b # NoBatch /\ b.bytes \in Nat
    BY <1>1, NoReport DEF Fits, Settled, PipelineTypeOK, Reports
<1>3. Unbooked(v.batch) = b.bytes /\ Unbooked(v.batch)' = 0
    BY <1>1, <1>2 DEF Unbooked
<1>4. v.pending \in Nat /\ billed \in Nat /\ produced \in Nat
    BY Bounds DEF HeldValue, PipelineTypeOK
<1>5. (billed + v.pending + Unbooked(v.batch) <= produced)'
    BY <1>1, <1>2, <1>3, <1>4 DEF Fits
<1> QED
    BY <1>1, <1>5 DEF Fits, Settled

\* The batch that is sent is in every value the agent may go on with.
LEMMA SentIsLive ==
    ASSUME PipelineTypeOK, LockInv, StoredInv, push = "send", NEW v \in Live
    PROVE  Settled(pushBatch) \/ v.batch = pushBatch
<1>1. CASE pushBatch.bytes = 0
  <2>1. pushBatch \in Reports
      BY DEF LockInv, PipelineTypeOK, MaybeReport
  <2> QED
      BY <1>1, <2>1 DEF Reports, Settled
<1>2. CASE pushBatch.bytes # 0
  <2>1. retry = pushBatch /\ Stored(pushBatch) = pushBatch
      BY <1>2 DEF LockInv, Stored
  <2>2. ~Starting
      BY DEF LockInv
  <2>3. Recoverable.batch = pushBatch
      BY <2>1, <2>2 DEF StoredInv, Recoverable
  <2>4. Saving => target.batch = pushBatch
    <3>1. Saving => main \in MainSaving
        BY DEF LockInv, PushSaving
    <3> QED
        BY <2>1, <3>1 DEF StoredInv
  <2> QED
      BY <2>1, <2>3, <2>4 DEF Live, InMemory
<1> QED
    BY <1>1, <1>2

\* A batch the panel has confirmed may leave memory and store.
LEMMA FitsWithout ==
    ASSUME PipelineTypeOK, Fits(InMemory), retry # NoBatch => Settled(retry)
    PROVE  Fits([batch |-> NoBatch, pending |-> pend])
<1>1. Unbooked(retry) \in Nat /\ Unbooked(NoBatch) = 0
    BY UnbookedType DEF Unbooked, PipelineTypeOK
<1>2. billed + pend + Unbooked(retry) <= produced
    BY DEF Fits, InMemory
<1>3. billed + pend + Unbooked(NoBatch) <= produced
    BY <1>1, <1>2, Bounds DEF PipelineTypeOK
<1>4. \A b \in wire : Settled(b)
    BY NoReport DEF Fits, InMemory, PipelineTypeOK
<1> QED
    BY <1>3, <1>4 DEF Fits

\* What is stored for the batch in memory fits like the batch itself.
LEMMA FitsStored ==
    ASSUME PipelineTypeOK, Fits(InMemory)
    PROVE  Fits(Value(retry))
<1>1. Unbooked(Stored(retry)) = Unbooked(retry)
    BY StoredUnbooked DEF PipelineTypeOK
<1>2. billed + pend + Unbooked(Stored(retry)) <= produced
    BY <1>1 DEF Fits, InMemory
<1>3. ASSUME NEW b \in wire PROVE Settled(b) \/ b = Stored(retry)
  <2>1. Settled(b) \/ b = retry
      BY DEF Fits, InMemory
  <2>2. b \in Reports /\ b # NoBatch
      BY NoReport DEF PipelineTypeOK
  <2> QED
      BY <2>1, <2>2 DEF Stored, Settled, Reports
<1> QED
    BY <1>2, <1>3 DEF Fits, Value

\* A new batch holds what was pending, and the panel cannot know its number.
LEMMA UnbookedTaken ==
    ASSUME PipelineTypeOK, ContentInv, NEW new \in Reports, new = NewBatch, booked' = booked
    PROVE  Unbooked(new)' = pend /\ Unbooked(Stored(new))' = pend
<1>1. new \in MaybeReport /\ new # NoBatch /\ pend \in Nat
    BY NoReport DEF MaybeReport, PipelineTypeOK
<1>2. Unbooked(new)' = pend
  <2>1. new.bytes = pend /\ (pend # 0 => new.id = nextId)
      BY DEF NewBatch
  <2>2. nextId \notin booked
    <3>1. nextId \in Nat
        BY Bounds DEF PipelineTypeOK
    <3> QED
        BY <3>1 DEF ContentInv
  <2>3. Unbooked(new)' = IF new.id \in booked THEN 0 ELSE pend
      BY <1>1, <2>1 DEF Unbooked
  <2> QED
      BY <2>1, <2>2, <2>3
<1>3. Unbooked(Stored(new))' = pend
  <2>1. CASE new.bytes = 0
      BY <1>2, <2>1 DEF Stored, Unbooked
  <2>2. CASE new.bytes # 0
      BY <1>1, <1>2, <2>2 DEF Stored
  <2> QED
      BY <2>1, <2>2
<1> QED
    BY <1>2, <1>3

\* takeReportBatch moves what was pending into a batch: it still fits.
LEMMA FitsTaken ==
    ASSUME PipelineTypeOK, ContentInv, Fits(InMemory), TakeNew,
           NEW new \in Reports, new = NewBatch,
           UNCHANGED <<wire, booked, billed, produced>>
    PROVE  /\ Fits([batch |-> new, pending |-> 0])'
           /\ Fits([batch |-> Stored(new), pending |-> 0])'
<1>1. retry = NoBatch /\ pend \in Nat
    BY DEF TakeNew, PipelineTypeOK
<1>2. Unbooked(new)' = pend /\ Unbooked(Stored(new))' = pend
    BY UnbookedTaken
<1>3. billed + pend <= produced
  <2>1. Unbooked(retry) = 0
      BY <1>1 DEF Unbooked
  <2>2. billed + pend + Unbooked(retry) <= produced /\ billed \in Nat
      BY DEF Fits, InMemory, PipelineTypeOK
  <2> QED
      BY <1>1, <2>1, <2>2
<1>4. \A b \in wire : Settled(b)
    BY <1>1, NoReport DEF Fits, InMemory, PipelineTypeOK
<1>5. ASSUME NEW held, Unbooked(held)' = pend
      PROVE  Fits([batch |-> held, pending |-> 0])'
  <2>1. billed + 0 + pend <= produced
      BY <1>1, <1>3, Bounds DEF PipelineTypeOK
  <2>2. (\A b \in wire : Settled(b))'
      BY <1>4 DEF Settled
  <2> QED
      BY <1>5, <2>1, <2>2 DEF Fits
<1> QED
    BY <1>2, <1>5

(***************************************************************************)
(* Every step.                                                             *)
(***************************************************************************)
\* Only file operations put records beside a missing checkpoint, and that is
\* noted.
LEMMA StrayedStep ==
    ASSUME [PipelineNext]_allVars, ~strayed'
    PROVE  ~strayed /\ ((ckpt = NoFile => journal = {}) => (ckpt' = NoFile => journal' = {}))
<1>1. CASE FileStep
    BY <1>1 DEF FileStep, NoteStrayed
<1>2. CASE ~FileStep
  <2>1. UNCHANGED <<strayed, ckpt, journal>>
    <3>1. CASE MainPersist \/ LastPersist \/ PushSnapshot \/ rememberFailedReport
               \/ forgetCompletedReport
        BY <3>1 DEF MainPersist, LastPersist, PushSnapshot, rememberFailedReport,
           forgetCompletedReport, PersistAtOnce, PersistBegins, BeginSave, storeVars, files,
           historyVars
    <3>2. CASE pushReportAsync \/ FinalBatch
        BY <3>2 DEF pushReportAsync, FinalBatch, takeReportBatch, TakeRetry, TakeNew,
           BeginSave, storeVars, files, historyVars
    <3>3. CASE Compact \/ Restart
        BY <3>3 DEF Compact, Restart, BeginCompact, Crash, files, pipelineVars, historyVars
    <3>4. CASE \/ UNCHANGED allVars \/ restorePendingReports \/ MainPersisted \/ shouldSkip
               \/ BatchTaken \/ PushPersist \/ PushPersisted \/ PushSend \/ PushAnswered
               \/ PushError \/ ReportRemembered \/ ReportForgotten \/ pushReportSync
               \/ ShutdownBudgetEnds \/ LastPersisted
        BY <3>4 DEF allVars, pipelineVars, storeVars, historyVars, restorePendingReports,
           MainPersisted, shouldSkip, BatchTaken, PushPersist, PushPersisted, PushSend,
           PushAnswered, PushError, PushEnds, ReportRemembered, ReportForgotten,
           pushReportSync, ShutdownBudgetEnds, MainGoes, LastPersisted, PersistReturns
    <3>5. ASSUME NEW n \in 0..MaxBytes, collectTraffic(n)
          PROVE  UNCHANGED <<strayed, ckpt, journal>>
        BY <3>5 DEF collectTraffic, storeVars, historyVars
    <3>6. ASSUME NEW b \in wire, PanelBooks(b)
          PROVE  UNCHANGED <<strayed, ckpt, journal>>
        BY <3>6 DEF PanelBooks, storeVars, historyVars
    <3> QED
        BY <1>2, <3>1, <3>2, <3>3, <3>4, <3>5, <3>6 DEF PipelineNext
  <2> QED
      BY <2>1
<1> QED
    BY <1>1, <1>2

\* While nothing strayed the traffic in memory is within what was produced.
LEMMA PendBounded ==
    ASSUME PipelineTypeOK, LockInv, \A v \in Live : Fits(v)
    PROVE  pend <= MaxBytes
<1>1. CASE main = "restore"
    BY <1>1, Bounds DEF LockInv
<1>2. CASE main # "restore"
  <2>1. billed + pend + Unbooked(retry) <= produced
    <3>1. Fits(InMemory)
        BY <1>2 DEF Live
    <3> QED
        BY <3>1 DEF Fits, InMemory
  <2>2. Unbooked(retry) \in Nat /\ billed \in Nat /\ pend \in Nat /\ produced \in 0..MaxBytes
      BY UnbookedType DEF PipelineTypeOK
  <2> QED
      BY <2>1, <2>2, Bounds
<1> QED
    BY <1>1, <1>2

\* A batch in memory is new, kept, or the one that was restored.
LEMMA RetryStep ==
    ASSUME LockInv, [PipelineNext]_allVars
    PROVE  \/ retry' \in {retry, NoBatch}
           \/ retry' = NewBatch /\ TakeNew
           \/ retry' = lastState.batch
<1>1. CASE rememberFailedReport
  <2>1. retry' = pushBatch /\ push # "none"
      BY <1>1 DEF rememberFailedReport
  <2> QED
      BY <2>1 DEF LockInv
<1>2. CASE pushReportAsync \/ FinalBatch
    BY <1>2 DEF pushReportAsync, FinalBatch, takeReportBatch, TakeRetry, TakeNew, batchVars
<1>3. CASE forgetCompletedReport \/ ReportForgotten \/ restorePendingReports \/ Restart
    BY <1>3 DEF forgetCompletedReport, ReportForgotten, restorePendingReports, Restart
<1>4. CASE \/ UNCHANGED allVars \/ FileStep \/ MainPersist \/ MainPersisted \/ shouldSkip
           \/ BatchTaken \/ PushPersist \/ PushSnapshot \/ PushPersisted \/ PushSend
           \/ PushAnswered \/ PushError \/ ReportRemembered \/ pushReportSync
           \/ ShutdownBudgetEnds \/ LastPersist \/ LastPersisted \/ Compact
    BY <1>4 DEF allVars, pipelineVars, batchVars, FileStep, MainPersist, MainPersisted,
       shouldSkip, BatchTaken, PushPersist, PushSnapshot, PushPersisted, PushSend,
       PushAnswered, PushError, PushEnds, ReportRemembered, pushReportSync,
       ShutdownBudgetEnds, MainGoes, LastPersist, LastPersisted, Compact
<1>5. ASSUME NEW n \in 0..MaxBytes, collectTraffic(n) PROVE retry' = retry
    BY <1>5 DEF collectTraffic, batchVars
<1>6. ASSUME NEW b \in wire, PanelBooks(b) PROVE retry' = retry
    BY <1>6 DEF PanelBooks, batchVars
<1> QED
    BY <1>1, <1>2, <1>3, <1>4, <1>5, <1>6 DEF PipelineNext

\* What a step does to the values the agent may go on with: it keeps some of
\* them, adds the value it begins to save, or has its own case below.
LEMMA LiveKept ==
    ASSUME OnlyWritesFail, UsableStore, UsableStore',
           StoreStep \/ UNCHANGED storeVars \/ BeginCompact,
           (main' = "restore") = (main = "restore"),
           UNCHANGED <<pend, retry>>
    PROVE  Live' \subseteq Live
<1>1. InMemory' = InMemory
    BY DEF InMemory
<1>2. CASE StoreStep
  <2>1. /\ target' = target \/ ~Saving'
        /\ Saving' => Saving
        /\ Recoverable' = Recoverable \/ (Saving /\ Recoverable' = target)
      BY <1>2, RecoverableStep
  <2> QED
      BY <1>1, <2>1 DEF Live
<1>3. CASE UNCHANGED storeVars
  <2>1. Recoverable' = Recoverable /\ Saving' = Saving /\ target' = target
      BY <1>3 DEF storeVars, Recoverable, Saving, Starting
  <2> QED
      BY <1>1, <2>1 DEF Live
<1>4. CASE BeginCompact
  <2>1. Recoverable' = Recoverable /\ ~Saving'
      BY <1>4 DEF BeginCompact, files, memory, Recoverable, Saving, Starting
  <2> QED
      BY <1>1, <2>1 DEF Live
<1> QED
    BY <1>2, <1>3, <1>4

\* Beginning a save adds only its value to those that may be recovered.
LEMMA LiveSaved ==
    ASSUME NEW s, UNCHANGED storeVars \/ BeginSave(s)
    PROVE  Live' \subseteq Live \cup {s} \cup (IF main' = "restore" THEN {} ELSE {InMemory'})
<1>1. CASE UNCHANGED storeVars
  <2>1. Recoverable' = Recoverable /\ Saving' = Saving /\ target' = target
      BY <1>1 DEF storeVars, Recoverable, Saving, Starting
  <2> QED
      BY <2>1 DEF Live
<1>2. CASE BeginSave(s)
  <2>1. Recoverable' = Recoverable /\ target' = s
      BY <1>2, BeginMemory, BeginPhase DEF BeginSave, Recoverable, Starting
  <2> QED
      BY <2>1 DEF Live
<1> QED
    BY <1>1, <1>2

\* restorePendingReports takes over what could be recovered.
LEMMA RestoredLive ==
    ASSUME HeldTypeOK, LockInv, restorePendingReports
    PROVE  Live' \subseteq Live
<1>1. /\ UNCHANGED storeVars /\ pc = "idle" /\ main = "restore"
      /\ IF saved THEN retry' = lastState.batch /\ pend' = lastState.pending
         ELSE UNCHANGED <<retry, pend>>
    BY DEF restorePendingReports
<1>2. ~Starting
    BY <1>1 DEF Starting
<1>3. InMemory' = Recoverable
  <2>1. CASE saved
    <3>1. lastState = [batch |-> lastState.batch, pending |-> lastState.pending]
        BY DEF HeldTypeOK, HeldValue
    <3> QED
        BY <1>1, <1>2, <2>1, <3>1 DEF InMemory, Recoverable
  <2>2. CASE ~saved
    <3>1. retry = NoBatch /\ pend = 0
        BY <1>1 DEF LockInv
    <3> QED
        BY <1>1, <1>2, <2>2, <3>1 DEF InMemory, Recoverable, EmptyState
  <2> QED
      BY <2>1, <2>2
<1>4. Recoverable' = Recoverable /\ ~Saving'
    BY <1>1 DEF storeVars, Recoverable, Saving, Starting
<1> QED
    BY <1>3, <1>4 DEF Live

\* The end of the process leaves a value the agent could go on with before.
LEMMA CrashLive ==
    ASSUME OnlyWritesFail, UsableStore, UsableStore', Crash, main' = "restore"
    PROVE  ~Saving' /\ Live' \subseteq Live
<1>1. ~Saving'
    BY DEF Crash, Saving
<1>2. Recoverable' = Recoverable \/ (Saving /\ Recoverable' = target)
    BY RecoverableStep
<1> QED
    BY <1>1, <1>2 DEF Live

(***************************************************************************)
(* What the steps of the loop and the sender do to the traffic they hold   *)
(* and to the store: four effects, and the steps with an effect of their   *)
(* own (file operations, load, sampling, sending, restart, the panel).     *)
(***************************************************************************)
HeldElsewhere == <<produced, wire, booked, billed, owed>>

\* Nothing, up to the merge that Compact begins.
Quiet ==
    /\ UNCHANGED <<HeldElsewhere, pend, retry>>
    /\ UNCHANGED storeVars \/ BeginCompact
    /\ (main' = "restore") = (main = "restore")

\* persistBatchLocked of what is in memory.
SavesMemory ==
    /\ UNCHANGED <<HeldElsewhere, pend, retry>>
    /\ main # "restore"
    /\ UNCHANGED storeVars \/ BeginSave(Value(retry))

\* forgetCompletedReport: the confirmed batch leaves the store, then memory.
Forgets ==
    /\ UNCHANGED <<HeldElsewhere, pend>>
    /\ main # "restore" /\ Settled(retry)
    /\ \/ /\ UNCHANGED storeVars
          /\ ~Saving
          /\ retry' \in {retry, NoBatch}
       \/ /\ BeginSave(Value(NoBatch))
          /\ retry' = retry

\* takeReportBatch makes a new batch.
Takes ==
    /\ UNCHANGED HeldElsewhere
    /\ main # "restore" /\ ~Saving
    /\ TakeNew

\* What every step does to the traffic of one account: one place gains what another loses.
LEMMA StepEffect ==
    ASSUME LockInv, FlowInv, [PipelineNext]_allVars
    PROVE  \/ Quiet \/ SavesMemory \/ Forgets \/ Takes
           \/ FileStep \/ restorePendingReports \/ PushSend \/ Restart
           \/ \E n \in 0..MaxBytes : collectTraffic(n)
           \/ \E b \in wire : PanelBooks(b)
<1>1. CASE MainPersist \/ LastPersist \/ PushSnapshot
  <2>1. main # "restore"
      BY <1>1 DEF MainPersist, LastPersist, PushSnapshot, LockInv
  <2>2. SavesMemory
      BY <1>1, <2>1 DEF MainPersist, LastPersist, PushSnapshot, PersistAtOnce, PersistBegins,
         trackerVars, batchVars, panelVars, historyVars, HeldElsewhere, SavesMemory
  <2> QED
      BY <2>2
<1>2. CASE rememberFailedReport
  <2>1. main # "restore" /\ retry = pushBatch
      BY <1>2 DEF rememberFailedReport, LockInv
  <2>2. SavesMemory
      BY <1>2, <2>1 DEF rememberFailedReport, PersistAtOnce, PersistBegins, trackerVars,
         panelVars, historyVars, HeldElsewhere, SavesMemory
  <2> QED
      BY <2>2
<1>3. CASE forgetCompletedReport \/ ReportForgotten
  <2>1. push \in {"acked", "forgetting"}
      BY <1>3 DEF forgetCompletedReport, ReportForgotten
  <2>2. main # "restore" /\ Settled(retry)
      BY <2>1 DEF LockInv, FlowInv
  <2>3. ~Saving
    <3>1. CASE forgetCompletedReport
        BY <3>1 DEF forgetCompletedReport, LockInv, PushSaving
    <3>2. CASE ReportForgotten
        BY <3>2 DEF ReportForgotten, PersistReturns, Saving
    <3> QED
        BY <1>3, <3>1, <3>2
  <2>4. Forgets
      BY <1>3, <2>2, <2>3 DEF forgetCompletedReport, ReportForgotten, PersistAtOnce,
         PersistBegins, PersistReturns, trackerVars, panelVars, historyVars, HeldElsewhere,
         Forgets
  <2> QED
      BY <2>4
<1>4. CASE pushReportAsync \/ FinalBatch
  <2>1. /\ UNCHANGED HeldElsewhere /\ main # "restore" /\ mu = "free"
        /\ TakeRetry \/ TakeNew
      BY <1>4 DEF pushReportAsync, FinalBatch, takeReportBatch, panelVars, historyVars,
         HeldElsewhere
  <2>2. TakeRetry => Quiet
      BY <2>1 DEF TakeRetry, batchVars, Quiet
  <2>3. TakeNew => Takes
      BY <2>1 DEF Takes, LockInv
  <2> QED
      BY <2>1, <2>2, <2>3
<1>5. CASE \/ UNCHANGED allVars \/ MainPersisted \/ shouldSkip \/ BatchTaken \/ PushPersist
           \/ PushPersisted \/ PushAnswered \/ PushError \/ ReportRemembered
           \/ pushReportSync \/ ShutdownBudgetEnds \/ LastPersisted \/ Compact
  <2>1. /\ UNCHANGED <<HeldElsewhere, pend, retry>>
        /\ UNCHANGED storeVars \/ BeginCompact
      BY <1>5 DEF allVars, pipelineVars, trackerVars, batchVars, panelVars, historyVars,
         MainPersisted, shouldSkip, BatchTaken, PushPersist, PushPersisted, PushAnswered,
         PushError, PushEnds, ReportRemembered, pushReportSync, ShutdownBudgetEnds, MainGoes,
         LastPersisted, Compact, PersistReturns, HeldElsewhere
  <2>2. (main' = "restore") = (main = "restore")
    <3>1. CASE \/ UNCHANGED allVars \/ shouldSkip \/ PushPersist \/ PushPersisted
               \/ PushAnswered \/ PushError \/ Compact
        BY <3>1 DEF allVars, pipelineVars, shouldSkip, PushPersist, PushPersisted,
           PushAnswered, PushError, PushEnds, Compact
    <3>2. CASE MainPersisted \/ BatchTaken \/ LastPersisted
        BY <3>2 DEF MainPersisted, AfterSample, BatchTaken, LastPersisted
    <3>3. CASE pushReportSync \/ ShutdownBudgetEnds
        BY <3>3 DEF pushReportSync, ShutdownBudgetEnds, MainGoes
    <3>4. CASE ReportRemembered
      <4>1. main # "restore"
          BY <3>4 DEF ReportRemembered, LockInv
      <4>2. main' = main \/ main' = "lastPersist"
          BY <3>4 DEF ReportRemembered, AfterFailure
      <4> QED
          BY <4>1, <4>2
    <3> QED
        BY <1>5, <3>1, <3>2, <3>3, <3>4
  <2> QED
      BY <2>1, <2>2 DEF Quiet
<1> QED
    BY <1>1, <1>2, <1>3, <1>4, <1>5 DEF PipelineNext

\* Whatever the agent may go on with fits the panel after every step.
LEMMA BillingFits ==
    ASSUME OnlyWritesFail, PipelineTypeOK, HeldTypeOK, LockInv, ContentInv, StoredInv, FlowInv,
           UsableStore, UsableStore', \A v \in Live : Fits(v),
           [PipelineNext]_allVars
    PROVE  \A v \in Live' : Fits(v)'
<1>a. StoreTypeOK
    BY DEF UsableStore, StoreInv
<1>b. Live \subseteq HeldValue
    BY <1>a, LiveHeld
<1>c. produced \in Nat /\ pend \in Nat /\ retry \in MaybeReport
    BY Bounds DEF PipelineTypeOK
<1>d. main # "restore" => Fits(InMemory)
    BY DEF Live
\* Steps at which neither the panel nor the kernel acts and no new value appears.
<1>e. ASSUME UNCHANGED <<produced, billed, booked, wire>>, NEW v \in HeldValue, Fits(v)
      PROVE  Fits(v)'
    BY <1>c, <1>e, FitsKept
<1>f. ASSUME UNCHANGED <<produced, billed, booked, wire>>, Live' \subseteq Live
      PROVE  \A v \in Live' : Fits(v)'
    BY <1>b, <1>e, <1>f
<1>1. CASE FileStep
  <2>1. Live' \subseteq Live
      BY <1>1, LiveKept DEF FileStep, trackerVars, batchVars
  <2> QED
      BY <1>1, <1>f, <2>1 DEF FileStep, trackerVars, panelVars
<1>2. CASE restorePendingReports
  <2>1. UNCHANGED <<produced, billed, booked, wire>>
      BY <1>2 DEF restorePendingReports, panelVars
  <2>2. Live' \subseteq Live
      BY <1>2, RestoredLive
  <2> QED
      BY <1>f, <2>1, <2>2
<1>3. ASSUME NEW n \in 0..MaxBytes, collectTraffic(n)
      PROVE  \A v \in Live' : Fits(v)'
  <2>1. /\ UNCHANGED <<billed, booked, wire, storeVars, retry>> /\ main # "restore" /\ n \in Nat
        /\ produced' = produced + n /\ pend' = pend + n
      BY <1>3, Bounds DEF collectTraffic, panelVars, batchVars
  <2>2. produced' \in Nat /\ produced' >= produced
      BY <1>c, <2>1
  <2>3. \A v \in Live : Fits(v)'
      BY <1>b, <2>1, <2>2, FitsKept
  <2>4. ASSUME NEW v, v = InMemory' PROVE Fits(v)'
    <3>1. v.pending = pend + n /\ v.batch = retry
        BY <2>1, <2>4 DEF InMemory
    <3>2. Unbooked(v.batch)' = Unbooked(retry) /\ Unbooked(retry) \in Nat
        BY <1>c, <2>1, <3>1, UnbookedType DEF Unbooked
    <3>3. billed + pend + Unbooked(retry) <= produced /\ billed \in Nat
        BY <1>d, <2>1 DEF Fits, InMemory, PipelineTypeOK
    <3>4. (billed + v.pending + Unbooked(v.batch) <= produced)'
        BY <1>c, <2>1, <3>1, <3>2, <3>3
    <3>5. (\A b \in wire : Settled(b) \/ b = v.batch)'
        BY <1>d, <2>1, <3>1 DEF Fits, InMemory, Settled
    <3> QED
        BY <3>4, <3>5 DEF Fits
  <2>5. Live' \subseteq Live \cup {InMemory'}
    <3>1. Recoverable' = Recoverable /\ Saving' = Saving /\ target' = target
        BY <2>1 DEF storeVars, Recoverable, Saving, Starting
    <3> QED
        BY <3>1 DEF Live
  <2> QED
      BY <2>3, <2>4, <2>5
<1>4. CASE SavesMemory
  <2>1. /\ UNCHANGED <<produced, billed, booked, wire, pend, retry>> /\ main # "restore"
        /\ UNCHANGED storeVars \/ BeginSave(Value(retry))
      BY <1>4 DEF SavesMemory, HeldElsewhere
  <2>2. InMemory' = InMemory
      BY <2>1 DEF InMemory
  <2>3. Live' \subseteq Live \cup {Value(retry), InMemory}
      BY <2>1, <2>2, LiveSaved
  <2>4. Fits(InMemory) /\ Fits(Value(retry))
      BY <1>d, <2>1, FitsStored
  <2>5. InMemory \in HeldValue /\ Value(retry) \in HeldValue
      BY <1>c, ValueHeld DEF InMemory, HeldValue
  <2> QED
      BY <1>b, <1>e, <2>1, <2>3, <2>4, <2>5
<1>5. CASE Forgets
  <2> DEFINE without == [batch |-> NoBatch, pending |-> pend]
  <2>1. /\ UNCHANGED <<produced, billed, booked, wire, pend>>
        /\ main # "restore" /\ Settled(retry) /\ retry' \in {retry, NoBatch}
        /\ UNCHANGED storeVars \/ BeginSave(Value(NoBatch))
      BY <1>5 DEF Forgets, HeldElsewhere
  <2>2. Value(NoBatch) = without /\ InMemory' \in {InMemory, without}
      BY <2>1 DEF Value, Stored, InMemory
  <2>3. Live' \subseteq Live \cup {without, InMemory}
      BY <2>1, <2>2, LiveSaved
  <2>4. Fits(InMemory) /\ Fits(without)
      BY <1>d, <2>1, FitsWithout
  <2>5. InMemory \in HeldValue /\ without \in HeldValue
      BY <1>c DEF InMemory, HeldValue, MaybeReport
  <2> HIDE DEF without
  <2> QED
      BY <1>b, <1>e, <2>1, <2>3, <2>4, <2>5
<1>6. CASE Takes
  <2>1. UNCHANGED <<produced, billed, booked, wire>> /\ TakeNew /\ main # "restore"
      BY <1>6 DEF Takes, HeldElsewhere
  <2>2. PICK new \in Reports : new = NewBatch
      BY <2>1, BatchTakenType
  <2>3. /\ Fits([batch |-> new, pending |-> 0])'
        /\ Fits([batch |-> Stored(new), pending |-> 0])'
      BY <1>d, <2>1, <2>2, FitsTaken
  <2>4. /\ retry' = new /\ pend' = 0
        /\ UNCHANGED storeVars \/ BeginSave([batch |-> Stored(new), pending |-> 0])
      BY <2>1, <2>2 DEF TakeNew
  <2>5. InMemory' = [batch |-> new, pending |-> 0]
      BY <2>4 DEF InMemory
  <2>6. Live' \subseteq Live \cup {[batch |-> new, pending |-> 0],
                                   [batch |-> Stored(new), pending |-> 0]}
      BY <2>4, <2>5, LiveSaved
  <2> QED
      BY <1>b, <1>e, <2>1, <2>3, <2>6
<1>7. CASE PushSend
  <2>1. /\ UNCHANGED <<produced, billed, booked, pend, retry, storeVars, main>>
        /\ push = "send" /\ wire' = wire \cup {pushBatch}
      BY <1>7 DEF PushSend, trackerVars, batchVars
  <2>2. Live' \subseteq Live
      BY <2>1, LiveKept
  <2>3. ASSUME NEW v \in Live PROVE Fits(v)'
    <3>1. Settled(pushBatch) \/ v.batch = pushBatch
        BY <2>1, SentIsLive
    <3>2. Unbooked(v.batch)' = Unbooked(v.batch)
        BY <2>1 DEF Unbooked
    <3>3. (billed + v.pending + Unbooked(v.batch) <= produced)'
        BY <2>1, <3>2 DEF Fits
    <3> QED
        BY <2>1, <3>1, <3>3 DEF Fits, Settled
  <2> QED
      BY <2>2, <2>3
<1>8. CASE Restart
  <2>1. /\ UNCHANGED <<produced, billed, booked, wire>> /\ Crash /\ main' = "restore"
      BY <1>8 DEF Restart, panelVars
  <2>2. Live' \subseteq Live
      BY <2>1, CrashLive
  <2> QED
      BY <1>f, <2>1, <2>2
<1>9. ASSUME NEW b \in wire, PanelBooks(b)
      PROVE  \A v \in Live' : Fits(v)'
  <2>1. UNCHANGED <<storeVars, pend, retry, main>>
      BY <1>9 DEF PanelBooks, trackerVars, batchVars
  <2>2. Live' \subseteq Live
      BY <2>1, LiveKept
  <2> QED
      BY <1>9, <1>b, <2>2, FitsBooked
<1>10. CASE Quiet
  <2>1. /\ UNCHANGED <<produced, billed, booked, wire, pend, retry>>
        /\ UNCHANGED storeVars \/ BeginCompact
        /\ (main' = "restore") = (main = "restore")
      BY <1>10 DEF Quiet, HeldElsewhere
  <2>2. Live' \subseteq Live
      BY <2>1, LiveKept
  <2> QED
      BY <1>f, <2>1, <2>2
<1> QED
    BY <1>1, <1>2, <1>3, <1>4, <1>5, <1>6, <1>7, <1>8, <1>9, <1>10, StepEffect

\* BillingInv is inductive, given the invariants of the pipeline.
LEMMA BillingStep ==
    OnlyWritesFail /\ PipelineInv /\ BillingInv /\ [PipelineNext]_allVars => BillingInv'
<1> SUFFICES ASSUME OnlyWritesFail, PipelineInv, BillingInv, [PipelineNext]_allVars, ~strayed'
             PROVE  /\ UsableStore'
                    /\ retry' # NoBatch => retry'.bytes <= MaxBytes
                    /\ \A v \in Live' : Fits(v)'
    BY DEF BillingInv
<1>1. ~strayed /\ (ckpt' = NoFile => journal' = {})
    BY StrayedStep DEF BillingInv, UsableStore
<1>2. /\ UsableStore /\ (retry # NoBatch => retry.bytes <= MaxBytes)
      /\ \A v \in Live : Fits(v)
    BY <1>1 DEF BillingInv
<1>3. /\ PipelineTypeOK /\ HeldTypeOK /\ LockInv /\ ContentInv /\ StoredInv /\ FlowInv
    BY DEF PipelineInv
<1>4. pend <= MaxBytes
    BY <1>2, <1>3, PendBounded
<1>5. UsableStore'
    BY <1>1, <1>2, <1>3, <1>4, PipelineStoreNext, UsableStep
<1>6. retry' # NoBatch => retry'.bytes <= MaxBytes
  <2>1. lastState.batch # NoBatch => lastState.batch.bytes <= MaxBytes
    <3>1. lastState.batch \in Batches \cup {NoBatch}
        BY <1>2 DEF UsableStore, StoreInv, StoreTypeOK, State
    <3> QED
        BY <3>1, PipelineAssumption
  <2>2. NewBatch.bytes = pend
      BY DEF NewBatch
  <2> QED
      BY <1>2, <1>3, <1>4, <2>1, <2>2, RetryStep
<1> QED
    BY <1>2, <1>3, <1>5, <1>6, BillingFits

(***************************************************************************)
(* Theorems.                                                               *)
(***************************************************************************)
\* The inductive invariant of the billing: every value the agent may still
\* go on with fits what the panel knows (restorePendingReports to
\* forgetCompletedReport), and the store stays usable.
THEOREM BillingInvHolds == OnlyWritesFail => (PipelineSpec => []BillingInv)
<1> SUFFICES ASSUME OnlyWritesFail PROVE PipelineSpec => []BillingInv
    OBVIOUS
<1>1. PipelineInit => BillingInv
  <2> SUFFICES ASSUME PipelineInit PROVE BillingInv
      OBVIOUS
  <2>1. UsableStore
      BY UsableInit
  <2>2. retry = NoBatch /\ wire = {} /\ billed = 0 /\ produced = 0 /\ main = "restore" /\ pc = "load"
      BY DEF PipelineInit, StoreInit
  <2>3. Live = {EmptyState}
      BY DEF PipelineInit, StoreInit, Live, Recoverable, Starting, Saving, NoPromise
  <2>4. Fits(EmptyState)
      BY <2>2 DEF Fits, EmptyState, Unbooked
  <2> QED
      BY <2>1, <2>2, <2>3, <2>4 DEF BillingInv
<1>2. PipelineInv /\ BillingInv /\ [PipelineNext]_allVars => BillingInv'
    BY BillingStep
<1> QED
    BY <1>1, <1>2, PipelineInvHolds, PTL DEF PipelineSpec

\* Nothing is billed twice: as long as only writes fail, and no record was
\* left beside a missing checkpoint, what the panel has booked and what the
\* agent still holds for it is never more than what the kernel produced,
\* whatever the order of sampling, saving, sending, late or repeated
\* processing at the panel, crashes and restarts (service.go:1541-1586,
\* 1809-1827).
THEOREM NothingIsBilledTwice ==
    OnlyWritesFail => (PipelineSpec => []NeverOvercounts)
<1>1. PipelineInv /\ BillingInv => NeverOvercounts
  <2> SUFFICES ASSUME PipelineInv, BillingInv, ~strayed
               PROVE  billed + Outstanding <= produced
      BY DEF NeverOvercounts
  <2>1. PipelineTypeOK /\ HeldTypeOK /\ LockInv /\ StoreTypeOK /\ \A v \in Live : Fits(v)
      BY DEF PipelineInv, BillingInv, UsableStore, StoreInv
  <2>2. billed \in Nat /\ produced \in Nat
      BY <2>1, Bounds DEF PipelineTypeOK
  <2>3. CASE main # "restore"
    <3>1. Fits(InMemory)
        BY <2>1, <2>3 DEF Live
    <3>2. billed + pend + Unbooked(retry) <= produced
        BY <3>1 DEF Fits, InMemory
    <3>3. pend \in Nat /\ Unbooked(retry) \in Nat
        BY <2>1, UnbookedType DEF PipelineTypeOK
    <3> QED
        BY <2>2, <3>2, <3>3 DEF Outstanding
  <2>4. CASE main = "restore"
    <3>1. PICK v \in Live : v = Recoverable
        BY DEF Live
    <3>2. v \in HeldValue
        BY <2>1, LiveHeld
    <3>3. billed + v.pending + Unbooked(v.batch) <= produced
        BY <2>1 DEF Fits
    <3>4. v.pending \in Nat /\ Unbooked(v.batch) \in Nat
        BY <3>2, UnbookedType DEF HeldValue
    <3>5. pend = 0 /\ Unbooked(retry) = 0
        BY <2>1, <2>4 DEF LockInv, Unbooked
    <3> QED
        BY <2>2, <3>3, <3>4, <3>5 DEF Outstanding
  <2> QED
      BY <2>3, <2>4
<1> QED
    BY <1>1, PipelineInvHolds, BillingInvHolds, PTL

\* In the pipeline, too, a process that dies with its checkpoint on disk finds
\* exactly the value its files stood for (pending_report.go:197-237): the
\* service saves only values the store's theorem is about.
THEOREM PipelineRecoveryIsExact ==
    OnlyWritesFail => (PipelineSpec => [](strayed \/ LoadKeepsPromise))
<1>1. BillingInv => strayed \/ LoadKeepsPromise
    BY DEF BillingInv, UsableStore, StoreInv
<1> QED
    BY <1>1, BillingInvHolds, PTL

(***************************************************************************)
(* What is owed.                                                           *)
(***************************************************************************)
LEMMA TotalType ==
    ASSUME PipelineTypeOK, NEW v \in HeldValue
    PROVE  Total(v) \in Nat
<1>1. v.pending \in Nat /\ Unbooked(v.batch) \in Nat /\ billed \in Nat
    BY UnbookedType DEF HeldValue, PipelineTypeOK
<1> QED
    BY <1>1 DEF Total

\* A step that moves nothing keeps the total.
LEMMA TotalKept ==
    ASSUME NEW v, UNCHANGED <<billed, booked>>
    PROVE  Total(v)' = Total(v)
<1>1. Unbooked(v.batch)' = Unbooked(v.batch)
    BY DEF Unbooked
<1> QED
    BY <1>1 DEF Total

\* The total after a step.
LEMMA TotalAfter ==
    ASSUME NEW v, UNCHANGED <<billed, booked>>
    PROVE  /\ InMemory' = v => Total(InMemory)' = Total(v)
           /\ target' = v => Total(target)' = Total(v)
<1>1. Total(v)' = Total(v)
    BY TotalKept
<1>2. InMemory' = v => Total(InMemory)' = Total(v)'
    BY DEF Total, Unbooked
<1>3. target' = v => Total(target)' = Total(v)'
    BY DEF Total, Unbooked
<1> QED
    BY <1>1, <1>2, <1>3

\* A booking moves bytes from what is held to what is booked.
LEMMA TotalBooked ==
    ASSUME PipelineTypeOK, NEW v \in HeldValue, Fits(v), NEW b \in wire, PanelBooks(b)
    PROVE  Total(v)' = Total(v)
<1>1. /\ b.id # 0 /\ b.id \notin booked /\ booked' = booked \cup {b.id}
      /\ billed' = billed + b.bytes
    BY DEF PanelBooks
<1>2. b = v.batch /\ b # NoBatch /\ b.bytes \in Nat
    BY <1>1, NoReport DEF Fits, Settled, PipelineTypeOK, Reports
<1>3. Unbooked(v.batch) = b.bytes /\ Unbooked(v.batch)' = 0
    BY <1>1, <1>2 DEF Unbooked
<1>4. v.pending \in Nat /\ billed \in Nat
    BY DEF HeldValue, PipelineTypeOK
<1> QED
    BY <1>1, <1>2, <1>3, <1>4 DEF Total

\* What a finished save makes owed is the value it saved.
LEMMA OwedStep ==
    ASSUME NoteOwed
    PROVE  \/ owed' = owed
           \/ Saving /\ pc' = "idle" /\ saved' /\ lastState' = target /\ owed' = Total(target)
BY DEF NoteOwed, Saving, Total

\* What is owed to the panel stays in every value that may be recovered, when only writes fail.
LEMMA SurvivalStep ==
    ASSUME OnlyWritesFail, PipelineTypeOK, HeldTypeOK, LockInv, ContentInv, FlowInv,
           UsableStore, UsableStore', \A v \in Live : Fits(v),
           \A v \in Live : Total(v) >= owed,
           Saving => Total(InMemory) >= Total(target),
           [PipelineNext]_allVars
    PROVE  /\ \A v \in Live' : Total(v)' >= owed'
           /\ Saving' => (Total(InMemory) >= Total(target))'
<1>a. Live \subseteq HeldValue /\ InMemory \in HeldValue /\ target \in HeldValue
    BY LiveHeld DEF UsableStore, StoreInv, InMemory, HeldValue, PipelineTypeOK, HeldTypeOK
<1>b. main # "restore" => Total(InMemory) >= owed
    BY DEF Live
<1>c. \A v \in HeldValue : Total(v) \in Nat
    BY TotalType
<1>d. Saving => main # "restore"
    BY DEF LockInv, MainSaving, PushSaving
<1>e. ASSUME UNCHANGED <<billed, booked, owed>>, Live' \subseteq Live
      PROVE  \A v \in Live' : Total(v)' >= owed'
    BY <1>e, TotalKept
\* A step that begins to save value s, or saves nothing, with memory m after it.
<1>f. ASSUME UNCHANGED <<billed, booked, owed>>, NEW s, NEW m, InMemory' = m,
             \/ UNCHANGED storeVars /\ (Saving => m = InMemory)
             \/ BeginSave(s),
             Total(m) = Total(InMemory), Total(s) = Total(InMemory), main # "restore"
      PROVE  /\ \A v \in Live' : Total(v)' >= owed'
             /\ Saving' => (Total(InMemory) >= Total(target))'
  <2>1. Live' \subseteq Live \cup {s, m}
      BY <1>f, LiveSaved
  <2>2. \A v \in Live' : Total(v)' >= owed'
      BY <1>b, <1>f, <2>1, TotalKept
  <2>3. Total(InMemory)' = Total(InMemory)
      BY <1>f, TotalAfter
  <2>4. ASSUME Saving' PROVE Total(InMemory)' >= Total(target)'
    <3>1. CASE BeginSave(s)
      <4>1. target' = s
          BY <3>1, BeginMemory
      <4>2. Total(target)' = Total(InMemory)
          BY <1>f, <4>1, TotalAfter
      <4> QED
          BY <1>a, <1>c, <2>3, <4>2
    <3>2. CASE UNCHANGED storeVars
      <4>1. Saving /\ target' = target
          BY <2>4, <3>2 DEF storeVars, Saving
      <4>2. Total(target)' = Total(target)
          BY <1>f, <4>1, TotalAfter
      <4> QED
          BY <2>3, <4>1, <4>2
    <3> QED
        BY <1>f, <3>1, <3>2
  <2> QED
      BY <2>2, <2>4
\* A step after which no save is under way, or the same one.
<1>g. ASSUME UNCHANGED <<billed, booked, owed>>, Live' \subseteq Live,
             Saving' => Saving /\ target' = target /\ InMemory' = InMemory
      PROVE  /\ \A v \in Live' : Total(v)' >= owed'
             /\ Saving' => (Total(InMemory) >= Total(target))'
  <2>1. ASSUME Saving' PROVE Total(InMemory)' >= Total(target)'
    <3>1. Total(InMemory)' = Total(InMemory) /\ Total(target)' = Total(target)
        BY <1>g, <2>1, TotalAfter
    <3> QED
        BY <1>g, <2>1, <3>1
  <2> QED
      BY <1>e, <1>g, <2>1
<1>1. CASE FileStep
  <2>1. /\ UNCHANGED <<billed, booked, pend, retry, main>> /\ StoreStep /\ NoteOwed
      BY <1>1 DEF FileStep, trackerVars, batchVars, panelVars
  <2>2. Live' \subseteq Live
      BY <2>1, LiveKept
  <2>3. (Saving' => Saving) /\ target' = target /\ InMemory' = InMemory
      BY <2>1, FilePhase, FileMemory DEF InMemory
  <2>4. CASE owed' = owed
      BY <1>g, <2>1, <2>2, <2>3, <2>4
  <2>5. CASE Saving /\ pc' = "idle" /\ saved' /\ lastState' = target /\ owed' = Total(target)
    <3>1. ~Saving' /\ Recoverable' = target /\ main # "restore"
        BY <1>d, <2>5 DEF Saving, Starting, Recoverable
    <3>2. Live' = {target, InMemory}
        BY <2>1, <2>3, <3>1 DEF Live
    <3>3. Total(InMemory) >= Total(target) /\ Total(target) >= Total(target)
        BY <1>a, <1>c, <2>5
    <3>4. \A v \in Live' : Total(v)' >= owed'
        BY <2>1, <2>5, <3>2, <3>3, TotalKept
    <3> QED
        BY <3>1, <3>4
  <2> QED
      BY <2>1, <2>4, <2>5, OwedStep
<1>2. CASE restorePendingReports
  <2>1. /\ UNCHANGED <<billed, booked, owed, wire, produced>> /\ ~Saving'
      BY <1>2 DEF restorePendingReports, panelVars, historyVars, trackerVars, storeVars, Saving
  <2>2. Live' \subseteq Live
      BY <1>2, RestoredLive
  <2> QED
      BY <1>g, <2>1, <2>2
<1>3. ASSUME NEW n \in 0..MaxBytes, collectTraffic(n)
      PROVE  /\ \A v \in Live' : Total(v)' >= owed'
             /\ Saving' => (Total(InMemory) >= Total(target))'
  <2>1. /\ UNCHANGED <<billed, booked, owed, storeVars, retry>> /\ main # "restore" /\ n \in Nat
        /\ pend' = pend + n
      BY <1>3, Bounds DEF collectTraffic, panelVars, batchVars, historyVars
  <2>2. PICK m : m = InMemory'
      OBVIOUS
  <2>3. Total(m) = Total(InMemory) + n
    <3>1. m.pending = pend + n /\ m.batch = retry
        BY <2>1, <2>2 DEF InMemory
    <3>2. InMemory.pending = pend /\ InMemory.batch = retry
        BY DEF InMemory
    <3>3. pend \in Nat /\ billed \in Nat /\ Unbooked(retry) \in Nat
        BY UnbookedType DEF PipelineTypeOK
    <3> QED
        BY <2>1, <3>1, <3>2, <3>3 DEF Total
  <2>4. Live' \subseteq Live \cup {m} /\ Saving' = Saving /\ target' = target
    <3>1. Recoverable' = Recoverable /\ Saving' = Saving /\ target' = target
        BY <2>1 DEF storeVars, Recoverable, Saving, Starting
    <3> QED
        BY <2>2, <3>1 DEF Live
  <2>5. owed \in Nat /\ Total(InMemory) \in Nat /\ Total(target) \in Nat
      BY <1>a, <1>c DEF PipelineTypeOK
  <2>6. \A v \in Live' : Total(v)' >= owed'
      BY <1>b, <2>1, <2>3, <2>4, <2>5, TotalKept
  <2>7. ASSUME Saving' PROVE Total(InMemory)' >= Total(target)'
    <3>1. Total(InMemory)' = Total(m) /\ Total(target)' = Total(target)
        BY <2>1, <2>2, <2>4, TotalAfter
    <3> QED
        BY <2>1, <2>3, <2>4, <2>5, <2>7, <3>1
  <2> QED
      BY <2>6, <2>7
<1>4. CASE SavesMemory
  <2>1. /\ UNCHANGED <<billed, booked, owed>> /\ main # "restore" /\ InMemory' = InMemory
        /\ UNCHANGED storeVars \/ BeginSave(Value(retry))
      BY <1>4 DEF SavesMemory, HeldElsewhere, InMemory
  <2>2. Total(Value(retry)) = Total(InMemory)
      BY StoredUnbooked DEF Total, Value, InMemory, PipelineTypeOK
  <2> QED
      BY <1>f, <2>1, <2>2
<1>5. CASE Forgets
  <2> DEFINE without == [batch |-> NoBatch, pending |-> pend]
  <2>1. /\ UNCHANGED <<billed, booked, owed, pend>> /\ main # "restore" /\ Settled(retry)
        /\ \/ UNCHANGED storeVars /\ ~Saving /\ retry' \in {retry, NoBatch}
           \/ BeginSave(Value(NoBatch)) /\ retry' = retry
      BY <1>5 DEF Forgets, HeldElsewhere
  <2>2. Value(NoBatch) = without /\ InMemory' \in {InMemory, without}
      BY <2>1 DEF Value, Stored, InMemory
  <2>3. Total(without) = Total(InMemory)
    <3>1. Unbooked(retry) = 0 /\ Unbooked(NoBatch) = 0
        BY <2>1, Bounds DEF Unbooked, Settled, PipelineTypeOK, MaybeReport, Reports
    <3> QED
        BY <3>1 DEF Total, InMemory
  <2> HIDE DEF without
  <2>4. CASE InMemory' = InMemory
      BY <1>f, <2>1, <2>2, <2>3, <2>4
  <2>5. CASE InMemory' = without
      BY <1>f, <2>1, <2>2, <2>3, <2>5
  <2> QED
      BY <2>2, <2>4, <2>5
<1>6. CASE Takes
  <2>1. /\ UNCHANGED <<billed, booked, owed>> /\ TakeNew /\ main # "restore" /\ ~Saving
      BY <1>6 DEF Takes, HeldElsewhere
  <2>2. PICK new \in Reports : new = NewBatch
      BY <2>1, BatchTakenType
  <2> DEFINE m == [batch |-> new, pending |-> 0]
             s == [batch |-> Stored(new), pending |-> 0]
  <2>3. InMemory' = m /\ (UNCHANGED storeVars \/ BeginSave(s))
      BY <2>1, <2>2 DEF TakeNew, InMemory
  <2>4. Unbooked(new) = pend /\ Unbooked(Stored(new)) = pend /\ Unbooked(retry) = 0
    <3>1. Unbooked(new)' = pend /\ Unbooked(Stored(new))' = pend
        BY <2>1, <2>2, UnbookedTaken
    <3> QED
        BY <2>1, <3>1 DEF Unbooked, TakeNew
  <2>5. Total(m) = Total(InMemory) /\ Total(s) = Total(InMemory)
      BY <2>4 DEF Total, InMemory, PipelineTypeOK
  <2> HIDE DEF m, s
  <2> QED
      BY <1>f, <2>1, <2>3, <2>5
<1>7. CASE PushSend
  <2>1. UNCHANGED <<billed, booked, owed, pend, retry, storeVars, main>>
      BY <1>7 DEF PushSend, trackerVars, batchVars, historyVars
  <2>2. Live' \subseteq Live
      BY <2>1, LiveKept
  <2> QED
      BY <1>g, <2>1, <2>2 DEF storeVars, Saving, InMemory
<1>8. CASE Restart
  <2>1. UNCHANGED <<billed, booked, owed>> /\ Crash /\ main' = "restore"
      BY <1>8 DEF Restart, panelVars
  <2>2. ~Saving' /\ Live' \subseteq Live
      BY <2>1, CrashLive
  <2> QED
      BY <1>g, <2>1, <2>2
<1>9. ASSUME NEW b \in wire, PanelBooks(b)
      PROVE  /\ \A v \in Live' : Total(v)' >= owed'
             /\ Saving' => (Total(InMemory) >= Total(target))'
  <2>1. UNCHANGED <<storeVars, pend, retry, main, owed>>
      BY <1>9 DEF PanelBooks, trackerVars, batchVars, historyVars
  <2>2. Live' \subseteq Live
      BY <2>1, LiveKept
  <2>3. \A v \in Live : Total(v)' = Total(v)
      BY <1>9, <1>a, TotalBooked
  <2>4. \A v \in Live' : Total(v)' >= owed'
      BY <2>1, <2>2, <2>3
  <2>5. ASSUME Saving' PROVE Total(InMemory)' >= Total(target)'
    <3>1. Saving /\ target' = target /\ InMemory' = InMemory
        BY <2>1, <2>5 DEF storeVars, Saving, InMemory
    <3>2. target \in Live /\ InMemory \in Live
        BY <1>d, <3>1 DEF Live
    <3>3. PICK t \in Live, m \in Live : t = target /\ m = InMemory
        BY <3>2
    <3>4. Total(target)' = Total(t)' /\ Total(InMemory)' = Total(m)'
        BY <3>1, <3>3 DEF Total, Unbooked
    <3>5. Total(t)' = Total(t) /\ Total(m)' = Total(m)
        BY <2>3
    <3> QED
        BY <3>1, <3>3, <3>4, <3>5
  <2> QED
      BY <2>4, <2>5
<1>10. CASE Quiet
  <2>1. /\ UNCHANGED <<billed, booked, owed, pend, retry>>
        /\ UNCHANGED storeVars \/ BeginCompact
        /\ (main' = "restore") = (main = "restore")
      BY <1>10 DEF Quiet, HeldElsewhere
  <2>2. Live' \subseteq Live
      BY <2>1, LiveKept
  <2>3. Saving' => Saving /\ target' = target /\ InMemory' = InMemory
      BY <2>1 DEF storeVars, BeginCompact, Saving, InMemory
  <2> QED
      BY <1>g, <2>1, <2>2, <2>3
<1> QED
    BY <1>1, <1>2, <1>3, <1>4, <1>5, <1>6, <1>7, <1>8, <1>9, <1>10, StepEffect

\* SurvivalInv is inductive, given the invariants of pipeline and billing.
LEMMA SurvivalHolds == OnlyWritesFail => (PipelineSpec => []SurvivalInv)
<1> SUFFICES ASSUME OnlyWritesFail PROVE PipelineSpec => []SurvivalInv
    OBVIOUS
<1>1. PipelineInit => SurvivalInv
  <2> SUFFICES ASSUME PipelineInit PROVE SurvivalInv
      OBVIOUS
  <2>1. Live = {EmptyState} /\ ~Saving
      BY DEF PipelineInit, StoreInit, Live, Recoverable, Starting, Saving, NoPromise
  <2>2. Total(EmptyState) >= owed
      BY DEF PipelineInit, Total, EmptyState, Unbooked
  <2> QED
      BY <2>1, <2>2 DEF SurvivalInv
<1>2. PipelineInv /\ BillingInv /\ BillingInv' /\ SurvivalInv /\ [PipelineNext]_allVars
        => SurvivalInv'
  <2> SUFFICES ASSUME PipelineInv, BillingInv, BillingInv', SurvivalInv,
                      [PipelineNext]_allVars, ~strayed'
               PROVE  /\ \A v \in Live' : Total(v)' >= owed'
                      /\ Saving' => (Total(InMemory) >= Total(target))'
      BY DEF SurvivalInv
  <2>1. ~strayed
      BY StrayedStep
  <2>2. /\ UsableStore /\ UsableStore' /\ \A v \in Live : Fits(v)
      BY <2>1 DEF BillingInv
  <2>3. /\ \A v \in Live : Total(v) >= owed
        /\ Saving => Total(InMemory) >= Total(target)
      BY <2>1 DEF SurvivalInv
  <2>4. PipelineTypeOK /\ HeldTypeOK /\ LockInv /\ ContentInv /\ FlowInv
      BY DEF PipelineInv
  <2> QED
      BY <2>2, <2>3, <2>4, SurvivalStep
<1> QED
    BY <1>1, <1>2, PipelineInvHolds, BillingInvHolds, PTL DEF PipelineSpec

\* Saved traffic survives: as long as only writes fail, traffic that a save
\* reported as stored is booked or still held, in this process and in every
\* later one, unless journal records were written beside a missing checkpoint
\* (pending_report.go:20-24, 107-126).
THEOREM LossNeedsStrayedJournal ==
    OnlyWritesFail => (PipelineSpec => []LostOnlyWhenStrayed)
<1>1. PipelineInv /\ SurvivalInv => LostOnlyWhenStrayed
  <2> SUFFICES ASSUME PipelineInv, SurvivalInv, ~strayed, main # "restore"
               PROVE  billed + Outstanding >= owed
      BY DEF LostOnlyWhenStrayed, SavedTrafficSurvives
  <2>1. InMemory \in Live
      BY DEF Live
  <2>2. Total(InMemory) >= owed
      BY <2>1 DEF SurvivalInv
  <2>3. billed \in Nat /\ pend \in Nat /\ Unbooked(retry) \in Nat
      BY UnbookedType DEF PipelineInv, PipelineTypeOK
  <2> QED
      BY <2>2, <2>3 DEF Total, InMemory, Outstanding
<1> QED
    BY <1>1, PipelineInvHolds, SurvivalHolds, PTL

=============================================================================
