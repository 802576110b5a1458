----------------------------- MODULE AccessLog -----------------------------
(***************************************************************************)
(* Records of access and their delivery in batches                         *)
(* (internal/accesslog/recorder.go, internal/service/access_log.go).       *)
(*                                                                         *)
(* Connections add records while a goroutine expires, saves, sends and     *)
(* confirms batches, one critical section of Recorder.mu or one file or    *)
(* panel operation at a time.  The panel (external) takes the records of a *)
(* batch number once, whatever a later batch of that number holds.         *)
(***************************************************************************)
EXTENDS Naturals, Sequences, FiniteSets

CONSTANTS
    MaxBatch, MaxRecords,
    MaxAdded,       \* bound: records
    MaxFlushes,     \* bound: rounds of flushAccessLog
    NoBatchYet

ASSUME AccessAssumption == {MaxBatch, MaxRecords, MaxAdded, MaxFlushes} \subseteq Nat

VARIABLES
    added, aged,     \* records made, records beyond Retention
    newest,          \* number of the newest batch
    queue, waiting,  \* Recorder.queue, Recorder.pending
    count,           \* Recorder.count
    flush,           \* stage of flushAccessLog and its loop counter
    image,           \* the state being written
    logFile,          \* the file
    flushes,
    taken,           \* panel: what each batch number brought
    kept             \* history: records that were in a file once

accessVars == <<added, aged, newest, queue, waiting, count, flush, image, logFile, flushes,
                taken, kept>>

Ids == 1..MaxAdded
Records(batches) == UNION {batches[i].recs : i \in DOMAIN batches}
AllOf(state) == (IF state.waiting = NoBatchYet THEN <<>> ELSE <<state.waiting>>) \o state.queue
Current == [waiting |-> waiting, queue |-> queue]
Held == AllOf(Current)
NothingHeld == [waiting |-> NoBatchYet, queue |-> <<>>]
Fresh(b) == ~(b.recs \subseteq aged)

AccessInit ==
    /\ added = 0 /\ aged = {} /\ newest = 0
    /\ queue = <<>> /\ waiting = NoBatchYet /\ count = 0
    /\ flush = [at |-> "idle", left |-> 0] /\ image = NothingHeld /\ logFile = NothingHeld /\ flushes = 0
    /\ taken = [i \in Ids |-> {}] /\ kept = {}

-----------------------------------------------------------------------------
\* Mutant: a batch that was saved still takes records.
JoinsSealed == queue # <<>> /\ Cardinality(queue[Len(queue)].recs) < MaxBatch

\* The last batch takes the record unless it is full or sealed.
Joins == queue # <<>> /\ ~queue[Len(queue)].sealed
                      /\ Cardinality(queue[Len(queue)].recs) < MaxBatch

Place ==
    IF Joins THEN queue' = [queue EXCEPT ![Len(queue)].recs = @ \cup {added + 1}] /\ UNCHANGED newest
    ELSE /\ queue' = Append(queue, [id |-> newest + 1, recs |-> {added + 1}, sealed |-> FALSE])
         /\ newest' = newest + 1

AddForNode ==
    /\ flush.at # "dead" /\ added < MaxAdded /\ added' = added + 1
    /\ \/ count < MaxRecords /\ Place /\ count' = count + 1
       \/ count >= MaxRecords /\ UNCHANGED <<queue, newest, count>>
    /\ UNCHANGED <<aged, waiting, flush, image, logFile, flushes, taken, kept>>

Ages ==
    /\ \E r \in (1..added) \ aged : aged' = aged \cup {r}
    /\ UNCHANGED <<added, newest, queue, waiting, count, flush, image, logFile, flushes, taken,
                   kept>>

SealedBatch(b) == [b EXCEPT !.sealed = TRUE]

\* Next: expired batches are dropped, the first fresh one waits for the panel.
NextBatch ==
    IF waiting # NoBatchYet /\ Fresh(waiting) THEN UNCHANGED <<queue, waiting, count>>
    ELSE LET valid == SelectSeq(queue, Fresh)
         IN /\ count' = count - Cardinality(Records(Held) \ Records(valid))
            /\ queue' = IF valid = <<>> THEN <<>> ELSE Tail(valid)
            /\ waiting' = IF valid = <<>> THEN NoBatchYet ELSE SealedBatch(Head(valid))

FlushAt(at, left) == flush' = [at |-> at, left |-> left]

\* flushAccessLog begins with Next.
FlushBegins ==
    /\ flush.at = "idle" /\ flushes < MaxFlushes /\ flushes' = flushes + 1
    /\ NextBatch
    /\ FlushAt("checkpoint", 0)
    /\ UNCHANGED <<added, aged, newest, image, logFile, taken, kept>>

\* Checkpoint, its locked part, seals what it is about to write: the first one, and the last
\* one (Save) of a flush.
SealAndCopy ==
    /\ flush.at \in {"checkpoint", "last"}
    /\ queue' = [i \in DOMAIN queue |-> SealedBatch(queue[i])]
    /\ image' = [waiting |-> waiting, queue |-> queue']
    /\ FlushAt(IF flush.at = "last" THEN "lastwrite" ELSE "write", Len(Held))
    /\ UNCHANGED <<added, aged, newest, waiting, count, logFile, flushes, taken, kept>>

\* writeState; a failure ends the flush, after one more Save.
WriteState ==
    /\ flush.at \in {"write", "lastwrite"}
    /\ LET next == IF flush.at = "lastwrite" THEN "idle" ELSE "next"
       IN \/ /\ logFile' = image /\ kept' = kept \cup Records(AllOf(image))
             /\ FlushAt(next, IF next = "idle" THEN 0 ELSE flush.left)
          \/ /\ UNCHANGED <<logFile, kept>>
             /\ FlushAt(IF next = "idle" THEN "idle" ELSE "last", 0)
    /\ image' = NothingHeld
    /\ UNCHANGED <<added, aged, newest, queue, waiting, count, flushes, taken>>

\* The loop: Next, and the report; the context may have ended, or the panel
\* does not want reports.
LoopNext ==
    /\ flush.at = "next"
    /\ \/ flush.left > 0 /\ NextBatch
          /\ \/ waiting' # NoBatchYet /\ FlushAt("report", flush.left - 1)
             \/ FlushAt("last", 0)
       \/ FlushAt("last", 0) /\ UNCHANGED <<queue, waiting, count>>
    /\ UNCHANGED <<added, aged, newest, image, logFile, flushes, taken, kept>>

\* The panel takes a batch, or knows its number; the answer may be lost.
ReportAccessLog ==
    /\ flush.at = "report"
    /\ \/ taken' = [taken EXCEPT ![waiting.id] = IF @ = {} THEN waiting.recs ELSE @]
          /\ (FlushAt("ack", flush.left) \/ FlushAt("last", 0))
       \/ UNCHANGED taken /\ FlushAt("last", 0)
    /\ UNCHANGED <<added, aged, newest, queue, waiting, count, image, logFile, flushes, kept>>

Ack ==
    /\ flush.at = "ack"
    /\ count' = count - Cardinality(waiting.recs) /\ waiting' = NoBatchYet
    /\ FlushAt("next", flush.left)
    /\ UNCHANGED <<added, aged, newest, queue, image, logFile, flushes, taken, kept>>

RecorderDies ==
    /\ flush.at # "dead"
    /\ queue' = <<>> /\ waiting' = NoBatchYet /\ count' = 0 /\ image' = NothingHeld
    /\ FlushAt("dead", 0)
    /\ UNCHANGED <<added, aged, newest, logFile, flushes, taken, kept>>

\* A file that cannot be read stays as it is and nothing is recorded.
Restore ==
    /\ flush.at = "dead"
    /\ queue' = logFile.queue /\ waiting' = logFile.waiting
    /\ count' = Cardinality(Records(AllOf(logFile)))
    /\ FlushAt("idle", 0)
    /\ UNCHANGED <<added, aged, newest, image, logFile, flushes, taken, kept>>

AccessNext ==
    \/ AddForNode \/ Ages \/ FlushBegins \/ SealAndCopy \/ WriteState \/ LoopNext
    \/ ReportAccessLog \/ Ack \/ RecorderDies \/ Restore

AccessSpec == AccessInit /\ [][AccessNext]_accessVars

-----------------------------------------------------------------------------
\* No record reaches the panel twice, and none that was saved is lost, but by
\* age: batches keep their records and their number over saves, failed and
\* repeated reports, unanswered ones and restarts.
DeliveredOnce ==
    LET current == IF flush.at = "dead" THEN AllOf(logFile) ELSE Held
        arrived == UNION {taken[i] : i \in Ids}
    IN /\ \A i, j \in Ids : i # j => taken[i] \cap taken[j] = {}
       /\ \A i \in DOMAIN current : taken[current[i].id] \in {{}, current[i].recs}
       /\ kept \subseteq arrived \cup aged \cup Records(current)

\* The number of records held, which decides when records are refused, is
\* right: it neither leaks towards a recorder that refuses all, nor below.
CountIsExact == count = Cardinality(Records(Held)) /\ count <= MaxRecords

\* Both, over every save, failure, answer and restart.
AccessHolds == DeliveredOnce /\ CountIsExact
=============================================================================
