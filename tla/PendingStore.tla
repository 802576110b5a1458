---------------------------- MODULE PendingStore ----------------------------
(***************************************************************************)
(* The on-disk store of traffic the panel has not confirmed yet            *)
(* (internal/service/pending_report.go, pending_journal.go,                *)
(* pending_state.go): a checkpoint file, a directory of journal records    *)
(* and the in-memory view the running process keeps of them.               *)
(*                                                                         *)
(* Every file operation is a step of its own, so a process may die between *)
(* any two of them.  A file is replaced atomically (temporary file, fsync, *)
(* rename), so a write happens completely or not at all; removing the      *)
(* journal directory deletes its records one by one in any order.          *)
(*                                                                         *)
(* The saved value is a batch that waits for confirmation and the traffic  *)
(* not yet put in a batch.  The per-user maps of the code are independent  *)
(* of each other, entry by entry, so one counter stands for one entry.     *)
(***************************************************************************)
EXTENDS Integers, FiniteSets

CONSTANTS
    Batches,          \* the report batches a client may save
    NoBatch,          \* no batch waits for confirmation (a nil *pendingBatch)
    NoFile,           \* the checkpoint file does not exist
    CheckpointEvery,  \* a checkpoint replaces the journal every so many saves (128)
    Faults,           \* the file operations that may fail, see FaultKinds
    MaxPending,       \* bound: largest unsent traffic a client saves
    MaxSeq            \* bound: largest journal sequence number

\* "write":  publishing a checkpoint or a record fails (disk full, ...)
\* "sweep":  os.RemoveAll of the journal directory fails half way
\* "unlink": os.Remove of an empty checkpoint fails
\* "read":   the checkpoint exists and cannot be read or decrypted
\* "corrupt": the checkpoint is readable and is not a valid file of this node
FaultKinds == {"write", "sweep", "unlink", "read", "corrupt"}

ASSUME StoreAssumption ==
    /\ NoBatch \notin Batches
    /\ CheckpointEvery \in Nat \ {0}
    /\ Faults \subseteq FaultKinds
    /\ MaxPending \in Nat
    /\ MaxSeq \in Nat

VARIABLES
    ckpt,        \* the checkpoint file, or NoFile
    journal,     \* the records in the journal directory
    saved,       \* memory: a save or a load has succeeded in this process
    lastState,   \* memory: what the last successful save or load left on disk
    journalSeq,  \* memory: sequence number of the last checkpoint or record
    loadErr,     \* memory: the journal could not be replayed at start
    pc,          \* the file operation the store is about to do
    target,      \* the value being saved
    file,        \* load: the checkpoint with the records replayed so far
    todo,        \* load: the records not read yet
    hist,        \* history: the value that replaying up to a number must give
    promised     \* history: what the files held when the process died

files   == <<ckpt, journal>>
memory  == <<saved, lastState, journalSeq, loadErr>>
loader  == <<file, todo>>
storeVars == <<ckpt, journal, saved, lastState, journalSeq, loadErr, pc,
               target, file, todo, hist, promised>>

Seqs == 0..MaxSeq
State == [batch : Batches \cup {NoBatch}, pending : Nat]
EmptyState == [batch |-> NoBatch, pending |-> 0]

\* A checkpoint file and a journal record (pendingReportFile,
\* pendingJournalRecord): a record holds the batch only when it changed, and
\* the difference of the traffic counters.
Checkpoint == [seq : Seqs, state : State]
Record == [seq : Seqs, changed : BOOLEAN, batch : Batches \cup {NoBatch},
           delta : Int]

NoPromise == [known |-> FALSE, seq |-> 0, state |-> EmptyState]
Promise == [known : BOOLEAN, seq : Seqs, state : State]

Phases == {"load", "replay", "idle", "checkpoint", "sweep", "unlink",
           "append", "compact", "compactSweep"}

-----------------------------------------------------------------------------
\* Mutant: the record of a batch that disappeared does not say so.
diffPendingNoClear(n, from, to) ==
    [seq |-> n, changed |-> to.batch # NoBatch /\ from.batch # to.batch,
     batch |-> IF from.batch # to.batch THEN to.batch ELSE NoBatch,
     delta |-> to.pending - from.pending]

\* diffPending and the batch comparison of save: the record that turns the
\* value "from" into the value "to".
diffPending(n, from, to) ==
    [seq |-> n, changed |-> from.batch # to.batch,
     batch |-> IF from.batch # to.batch THEN to.batch ELSE NoBatch,
     delta |-> to.pending - from.pending]

\* What replayJournal makes of one record; applyTrafficDelta refuses a
\* negative counter.
applyTrafficDelta(s, r) ==
    [batch |-> IF r.changed THEN r.batch ELSE s.batch,
     pending |-> s.pending + r.delta]

\* The file name of a record is its number: writing it replaces a record of
\* the same number.
PutRecord(r) == {q \in journal : q.seq # r.seq} \cup {r}

\* First save, every CheckpointEvery changes, and when nothing is left.
NeedsCheckpoint(s) ==
    \/ ~saved
    \/ journalSeq % CheckpointEvery = CheckpointEvery - 1
    \/ s = EmptyState

-----------------------------------------------------------------------------
StoreInit ==
    /\ ckpt = NoFile
    /\ journal = {}
    /\ saved = FALSE
    /\ lastState = EmptyState
    /\ journalSeq = 0
    /\ loadErr = FALSE
    /\ pc = "load"
    /\ target = EmptyState
    /\ file = [seq |-> 0, state |-> EmptyState]
    /\ todo = {}
    /\ hist = [n \in Seqs |-> EmptyState]
    /\ promised = NoPromise

\* History: a checkpoint of value s under number n ends what went before it.
StartOfHist(n, s) == [k \in Seqs |-> IF k = n THEN s ELSE EmptyState]

(***************************************************************************)
(* save.                                                                   *)
(***************************************************************************)
\* An unchanged value returns at once, and so does every save of a process
\* whose journal could not be replayed.  Neither touches a file.
SaveUnchanged(s) == saved /\ s = lastState

BeginSave(s) ==
    /\ pc = "idle"
    /\ ~loadErr
    /\ ~SaveUnchanged(s)
    /\ journalSeq < MaxSeq
    /\ target' = s
    /\ pc' = IF NeedsCheckpoint(s) THEN "checkpoint" ELSE "append"
    /\ promised' = NoPromise
    /\ UNCHANGED <<files, memory, loader, hist>>

\* save returns nil: the value becomes the base of the next comparison.
SaveDone ==
    /\ pc' = "idle"
    /\ lastState' = target
    /\ saved' = TRUE

\* save returns an error.
SaveFailed ==
    /\ pc' = "idle"
    /\ UNCHANGED <<lastState, saved>>

WriteCheckpoint ==
    /\ pc = "checkpoint"
    /\ ckpt' = [seq |-> journalSeq + 1, state |-> target]
    /\ journalSeq' = journalSeq + 1
    /\ hist' = StartOfHist(journalSeq + 1, target)
    /\ pc' = "sweep"
    /\ UNCHANGED <<journal, saved, lastState, loadErr, target, loader, promised>>

\* One record of the journal directory disappears (os.RemoveAll).
RemoveRecord(r) ==
    /\ pc \in {"sweep", "compactSweep"}
    /\ r \in journal
    /\ journal' = journal \ {r}
    /\ UNCHANGED <<ckpt, memory, pc, target, loader, hist, promised>>

JournalRemoved ==
    /\ pc = "sweep"
    /\ journal = {}
    /\ IF target = EmptyState
         THEN /\ pc' = "unlink"
              /\ UNCHANGED <<lastState, saved>>
         ELSE SaveDone
    /\ UNCHANGED <<files, journalSeq, loadErr, target, loader, hist, promised>>

RemoveCheckpoint ==
    /\ pc = "unlink"
    /\ ckpt' = NoFile
    /\ SaveDone
    /\ UNCHANGED <<journal, journalSeq, loadErr, target, loader, hist, promised>>

AppendRecord ==
    /\ pc = "append"
    /\ journal' = PutRecord(diffPending(journalSeq + 1, lastState, target))
    /\ journalSeq' = journalSeq + 1
    /\ hist' = [hist EXCEPT ![journalSeq + 1] = target]
    /\ SaveDone
    /\ UNCHANGED <<ckpt, loadErr, target, loader, promised>>

\* The error returns of save, after each of the file operations.
SaveFault ==
    /\ \/ pc \in {"checkpoint", "append"} /\ "write" \in Faults
       \/ pc = "sweep" /\ journal # {} /\ "sweep" \in Faults
       \/ pc = "unlink" /\ "unlink" \in Faults
    /\ SaveFailed
    /\ UNCHANGED <<files, journalSeq, loadErr, target, loader, hist, promised>>

(***************************************************************************)
(* compact: on a normal exit the journal is merged into the checkpoint.    *)
(***************************************************************************)
BeginCompact ==
    /\ pc = "idle"
    /\ ~loadErr
    /\ saved
    /\ lastState # EmptyState
    /\ pc' = "compact"
    /\ UNCHANGED <<files, memory, target, loader, hist, promised>>

CompactWrite ==
    /\ pc = "compact"
    /\ ckpt' = [seq |-> journalSeq, state |-> lastState]
    /\ hist' = StartOfHist(journalSeq, lastState)
    /\ pc' = "compactSweep"
    /\ UNCHANGED <<journal, memory, target, loader, promised>>

(***************************************************************************)
(* The process ends: killed, crashed, or after compact.  Memory is gone    *)
(* and the next process starts with load.  "promised" remembers what the   *)
(* files of a store with a checkpoint stood for.                           *)
(***************************************************************************)
\* The process has a checkpoint on disk under the values it saved.
Anchored == saved /\ ~loadErr /\ ckpt # NoFile

\* The value the files stand for: between publishing a checkpoint and
\* returning from save that is already the new one.
OnDisk == IF pc \in {"sweep", "unlink"} THEN target ELSE lastState

Crash ==
    /\ promised' = IF pc \in {"load", "replay"} THEN promised
                   ELSE IF Anchored
                   THEN [known |-> TRUE, seq |-> journalSeq, state |-> OnDisk]
                   ELSE NoPromise
    /\ pc' = "load"
    /\ saved' = FALSE
    /\ lastState' = EmptyState
    /\ journalSeq' = 0
    /\ loadErr' = FALSE
    /\ target' = EmptyState
    /\ file' = [seq |-> 0, state |-> EmptyState]
    /\ todo' = {}
    /\ UNCHANGED <<files, hist>>

(***************************************************************************)
(* load.                                                                   *)
(***************************************************************************)
\* No checkpoint: an empty result, whatever the journal directory holds.
LoadMissing ==
    /\ pc = "load"
    /\ ckpt = NoFile
    /\ pc' = "idle"
    /\ UNCHANGED <<files, memory, target, loader, hist, promised>>

LoadCheckpoint ==
    /\ pc = "load"
    /\ ckpt # NoFile
    /\ file' = ckpt
    /\ todo' = journal
    /\ hist' = [hist EXCEPT ![ckpt.seq] = ckpt.state]
    /\ pc' = "replay"
    /\ UNCHANGED <<files, memory, target, promised>>

\* The checkpoint cannot be read: the process goes on with empty data.
LoadUnreadable ==
    /\ pc = "load"
    /\ ckpt # NoFile
    /\ "read" \in Faults
    /\ pc' = "idle"
    /\ promised' = NoPromise
    /\ UNCHANGED <<files, memory, target, loader, hist>>

\* The checkpoint is not a file of this node: it is moved aside, and the
\* journal with it.
LoadForeign ==
    /\ pc = "load"
    /\ ckpt # NoFile
    /\ "corrupt" \in Faults
    /\ ckpt' = NoFile
    /\ journal' = {}
    /\ pc' = "idle"
    /\ promised' = NoPromise
    /\ UNCHANGED <<memory, target, loader, hist>>

\* Mutant: a record may make a counter negative.
ReplayRecordUnchecked(r) ==
    /\ pc = "replay"
    /\ r \in todo
    /\ \A q \in todo : r.seq <= q.seq
    /\ LET next == applyTrafficDelta(file.state, r)
       IN \/ /\ r.seq <= file.seq
             /\ todo' = todo \ {r}
             /\ UNCHANGED <<file, hist, loadErr, pc>>
          \/ /\ r.seq > file.seq
             /\ IF r.seq = file.seq + 1
                  THEN /\ file' = [seq |-> r.seq, state |-> next]
                       /\ todo' = todo \ {r}
                       /\ hist' = [hist EXCEPT ![r.seq] = next]
                       /\ UNCHANGED <<loadErr, pc>>
                  ELSE /\ loadErr' = TRUE
                       /\ pc' = "idle"
                       /\ UNCHANGED <<file, todo, hist>>
    /\ UNCHANGED <<files, saved, lastState, journalSeq, target, promised>>

\* replayJournal, one directory entry in the order of the names.
ReplayRecord(r) ==
    /\ pc = "replay"
    /\ r \in todo
    /\ \A q \in todo : r.seq <= q.seq
    /\ LET next == applyTrafficDelta(file.state, r)
       IN \/ /\ r.seq <= file.seq
             /\ todo' = todo \ {r}
             /\ UNCHANGED <<file, hist, loadErr, pc>>
          \/ /\ r.seq = file.seq + 1
             /\ next.pending >= 0
             /\ file' = [seq |-> r.seq, state |-> next]
             /\ todo' = todo \ {r}
             /\ hist' = [hist EXCEPT ![r.seq] = next]
             /\ UNCHANGED <<loadErr, pc>>
          \/ /\ r.seq > file.seq
             /\ r.seq # file.seq + 1 \/ next.pending < 0
             /\ loadErr' = TRUE
             /\ pc' = "idle"
             /\ UNCHANGED <<file, todo, hist>>
    /\ UNCHANGED <<files, saved, lastState, journalSeq, target, promised>>

LoadDone ==
    /\ pc = "replay"
    /\ todo = {}
    /\ journalSeq' = file.seq
    /\ lastState' = file.state
    /\ saved' = TRUE
    /\ pc' = "idle"
    /\ UNCHANGED <<files, loadErr, target, loader, hist, promised>>

StoreStep ==
    \/ WriteCheckpoint \/ JournalRemoved \/ RemoveCheckpoint \/ AppendRecord
    \/ SaveFault \/ CompactWrite
    \/ LoadMissing \/ LoadCheckpoint \/ LoadUnreadable \/ LoadForeign \/ LoadDone
    \/ \E r \in journal : RemoveRecord(r)
    \/ \E r \in todo : ReplayRecord(r)

(***************************************************************************)
(* The store under an arbitrary client: any value may be saved next, the   *)
(* process may die at any step.                                            *)
(***************************************************************************)
ClientStates == [batch : Batches \cup {NoBatch}, pending : 0..MaxPending]

Next ==
    \/ StoreStep
    \/ \E s \in ClientStates : BeginSave(s)
    \/ BeginCompact
    \/ Crash

Spec == StoreInit /\ [][Next]_storeVars

-----------------------------------------------------------------------------
(***************************************************************************)
(* Properties.                                                             *)
(***************************************************************************)
\* Type invariant: files, memory and loader hold what the Go types allow.
StoreTypeOK ==
    /\ ckpt = NoFile \/ ckpt \in Checkpoint
    /\ journal \subseteq Record
    /\ saved \in BOOLEAN
    /\ lastState \in State
    /\ journalSeq \in Seqs
    /\ loadErr \in BOOLEAN
    /\ pc \in Phases
    /\ target \in State
    /\ file \in Checkpoint
    /\ todo \subseteq Record
    /\ hist \in [Seqs -> State]
    /\ promised \in Promise

\* Recovery is exact when a checkpoint exists: a process that dies at any
\* file operation while its checkpoint is on disk leaves files from which
\* load (pending_report.go:197) rebuilds exactly the value they stood for,
\* replaying the journal without an error.
LoadKeepsPromise ==
    (pc = "idle" /\ promised.known) =>
        /\ ~loadErr
        /\ saved
        /\ lastState = promised.state

-----------------------------------------------------------------------------
(***************************************************************************)
(* The inductive invariant behind LoadKeepsPromise.                        *)
(***************************************************************************)
\* Cleaning up after a checkpoint does not fail.
CleanupWorks == Faults \cap {"sweep", "unlink"} = {}

\* Every number after lo and up to hi has its record, and replaying it takes
\* the value of the number before to the value of this one.
Chain(lo, hi) ==
    \A n \in Seqs : (lo < n /\ n <= hi) =>
        \E r \in journal :
            r.seq = n /\ applyTrafficDelta(hist[n - 1], r) = hist[n]

\* The files stand for the value s with number top: the checkpoint is a
\* value of the history, the journal leads from it to s, nothing is beyond.
DiskHolds(top, s) ==
    /\ ckpt # NoFile
    /\ ckpt.seq <= top
    /\ hist[ckpt.seq] = ckpt.state
    /\ Chain(ckpt.seq, top)
    /\ \A r \in journal : r.seq <= top
    /\ hist[top] = s

Starting == pc \in {"load", "replay"}

RecordsDistinct == \A q, r \in journal : q.seq = r.seq => q = r

\* What each phase of save, compact and load relies on.
PhaseInv ==
    /\ Starting => ~saved /\ ~loadErr
    /\ pc \in {"checkpoint", "append"} => journalSeq < MaxSeq
    /\ pc = "append" => saved
    /\ pc \in {"checkpoint", "append", "sweep", "unlink"} => ~promised.known
    /\ pc \in {"sweep", "unlink"} =>
           /\ ckpt = [seq |-> journalSeq, state |-> target]
           /\ hist[journalSeq] = target
    /\ pc = "unlink" => journal = {}
    /\ pc = "compactSweep" => ckpt = [seq |-> journalSeq, state |-> lastState]

\* A running process knows its files.
RunningInv ==
    (~Starting /\ saved /\ ~loadErr) =>
        /\ \A r \in journal : r.seq <= journalSeq
        /\ ckpt # NoFile => DiskHolds(journalSeq, OnDisk)

\* The loader has replayed a prefix of the journal.
ReplayInv ==
    pc = "replay" =>
        /\ ckpt # NoFile
        /\ ckpt.seq <= file.seq
        /\ hist[ckpt.seq] = ckpt.state
        /\ hist[file.seq] = file.state
        /\ Chain(ckpt.seq, file.seq)
        /\ todo \subseteq journal
        /\ \A r \in journal \ todo : r.seq <= file.seq

\* Until it is loaded, what a dead process left is still there.
PromiseInv ==
    (Starting /\ promised.known) =>
        /\ DiskHolds(promised.seq, promised.state)
        /\ pc = "replay" => file.seq <= promised.seq

StoreInv ==
    /\ StoreTypeOK
    /\ RecordsDistinct
    /\ PhaseInv
    /\ RunningInv
    /\ ReplayInv
    /\ PromiseInv
    /\ LoadKeepsPromise

=============================================================================
