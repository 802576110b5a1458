------------------------------ MODULE WSClient ------------------------------
(***************************************************************************)
(* Calls to the panel over the shared WebSocket, and over HTTP when that   *)
(* fails (internal/panel/ws.go, ws_send.go, ws_rpc.go, realtime.go,        *)
(* device_handover.go).                                                    *)
(*                                                                         *)
(* Concurrent are the callers, the goroutine of Run (connecting, writing,  *)
(* clearing), the reader of a connection and the panel.  One action is one *)
(* critical section of WSClient.mu, one operation on a channel or one      *)
(* message.  A message is the call it carries, or "raw" for the ones       *)
(* nobody waits for; heartbeats and what pushes say are left out.          *)
(***************************************************************************)
EXTENDS Naturals, Sequences, FiniteSets

CONSTANTS
    Calls,           \* each is asked once
    DeviceCalls,     \* device.begin, device.admit, device.sync
    ControlCalls,    \* those of them with a queue of their own
    Size,            \* bytes of the messages
    QueueBytes, ControlReserve,     \* wsQueueBytes, wsControlReserve
    QueueSlots, ControlSlots,       \* capacities of the channels (64, 16)
    PendingLimit,                   \* wsPendingLimit
    NoReply,
    MaxConns         \* bound: connections

Messages == Calls \cup {"raw"}

ASSUME ClientAssumption ==
    /\ ControlCalls \subseteq DeviceCalls /\ DeviceCalls \subseteq Calls
    /\ "raw" \notin Calls /\ NoReply \notin {"ok", "refused", "gone", "unavailable"}
    /\ Size \in [Messages -> Nat]
    /\ {QueueBytes, ControlReserve, QueueSlots, ControlSlots, PendingLimit, MaxConns}
         \subseteq Nat

VARIABLES
    realtime,      \* WSClientConfig.Realtime
    link,          \* "down", "open", "closing" or "cleared" (connect has returned)
    conn,          \* number of the connection
    connected, generation,
    writeCh, controlCh, queuedBytes,
    writer, hand,  \* what the loop of connect does, and with which message
    pending,
    call,          \* the callers
    quarantine,    \* failedGeneration while retryAfter lies ahead, else 0
    deviceWS,      \* deviceHandoverWS
    inbox,         \* requests the panel may still process, and receipts
    receipts,      \* on their way, with the connection (0: HTTP)
    effects        \* how often the panel has processed each call

linkVars == <<link, conn, connected, generation>>
queueVars == <<writeCh, controlCh, queuedBytes>>
writerVars == <<writer, hand>>
panelVars == <<inbox, receipts, effects>>
clientVars == <<realtime, link, conn, connected, generation, writeCh, controlCh,
                queuedBytes, writer, hand, pending, call, quarantine, deviceWS,
                inbox, receipts, effects>>

Bytes(ch) ==
    LET sum[i \in 0..Len(ch)] == IF i = 0 THEN 0 ELSE sum[i - 1] + Size[ch[i]]
    IN sum[Len(ch)]

\* writeCh is not nil.
Installed == link \in {"open", "closing"}

-----------------------------------------------------------------------------
ClientInit ==
    /\ realtime \in BOOLEAN
    /\ link = "down" /\ conn = 0 /\ connected = FALSE /\ generation = 0
    /\ writeCh = <<>> /\ controlCh = <<>> /\ queuedBytes = 0
    /\ writer = "poll" /\ hand = "raw"
    /\ pending = {}
    /\ call = [c \in Calls |-> [at |-> "idle", reply |-> NoReply]]
    /\ quarantine = 0 /\ deviceWS = TRUE
    /\ inbox = {} /\ receipts = {} /\ effects = [c \in Calls |-> 0]

-----------------------------------------------------------------------------
(***************************************************************************)
(* Run and connect.                                                        *)
(***************************************************************************)
\* Dialled and authenticated.  With realtime the panel says sync.ready later.
Connect ==
    /\ link = "down" /\ conn < MaxConns
    /\ link' = "open" /\ conn' = conn + 1
    /\ IF realtime THEN UNCHANGED <<connected, generation>>
       ELSE connected' = TRUE /\ generation' = generation + 1
    /\ writeCh' = <<>> /\ controlCh' = <<>> /\ queuedBytes' = 0
    /\ UNCHANGED <<realtime, writerVars, pending, call, quarantine, deviceWS, panelVars>>

\* handleMessage, sync.ready.
SyncReady ==
    /\ realtime /\ Installed /\ ~connected
    /\ connected' = TRUE /\ generation' = generation + 1
    /\ UNCHANGED <<realtime, link, conn, queueVars, writerVars, pending, call, quarantine,
                   deviceWS, panelVars>>

NextMessage == writer' = "poll" /\ hand' = "raw"
Took(ch, chan) == hand' = Head(ch) /\ writer' = "taken" /\ chan = Tail(ch)

\* priorityMessage: requests of their own queue first.
Poll ==
    /\ link = "open" /\ writer = "poll"
    /\ \/ controlCh # <<>> /\ Took(controlCh, controlCh')
       \/ controlCh = <<>> /\ writer' = "select" /\ UNCHANGED <<hand, controlCh>>
    /\ UNCHANGED <<realtime, linkVars, writeCh, queuedBytes, pending, call, quarantine,
                   deviceWS, panelVars>>

Select ==
    /\ link = "open" /\ writer = "select"
    /\ \/ controlCh # <<>> /\ Took(controlCh, controlCh') /\ UNCHANGED writeCh
       \/ writeCh # <<>> /\ Took(writeCh, writeCh') /\ UNCHANGED controlCh
    /\ UNCHANGED <<realtime, linkVars, queuedBytes, pending, call, quarantine, deviceWS,
                   panelVars>>

\* A call that has ended meanwhile is not sent any more.
beginWrite ==
    /\ writer = "taken"
    /\ queuedBytes' = queuedBytes - Size[hand]
    /\ \/ hand \in pending \cup {"raw"} /\ writer' = "writing" /\ UNCHANGED hand
       \/ hand \notin pending \cup {"raw"} /\ NextMessage
    /\ UNCHANGED <<realtime, linkVars, writeCh, controlCh, pending, call, quarantine,
                   deviceWS, panelVars>>

Arrives(m, via) == inbox' = inbox \cup {[call |-> c, via |-> via] : c \in {m} \ {"raw"}}

write ==
    /\ link = "open" /\ writer = "writing"
    /\ Arrives(hand, conn)
    /\ NextMessage
    /\ UNCHANGED <<realtime, linkVars, queueVars, pending, call, quarantine, deviceWS,
                   receipts, effects>>

\* connect returns: the reader failed, the context ended, or a write failed,
\* whose message may have arrived all the same.
ConnectReturns ==
    /\ link = "open" /\ writer # "taken"
    /\ UNCHANGED inbox \/ (writer = "writing" /\ Arrives(hand, conn))
    /\ link' = "closing" /\ NextMessage
    /\ UNCHANGED <<realtime, conn, connected, generation, queueVars, pending, call,
                   quarantine, deviceWS, receipts, effects>>

\* Mutant: the calls that wait are left to their own limits.
ClearedQueuesOnly ==
    /\ link = "closing"
    /\ link' = "cleared"
    /\ writeCh' = <<>> /\ controlCh' = <<>> /\ queuedBytes' = 0
    /\ UNCHANGED <<realtime, conn, connected, generation, writerVars, pending, call,
                   quarantine, deviceWS, panelVars>>

\* The deferred call, after the reader has ended: every call that waits fails.
Cleared ==
    /\ link = "closing"
    /\ link' = "cleared"
    /\ writeCh' = <<>> /\ controlCh' = <<>> /\ queuedBytes' = 0
    /\ call' = [c \in Calls |-> IF c \in pending /\ call[c].reply = NoReply
                                THEN [call[c] EXCEPT !.reply = "unavailable"] ELSE call[c]]
    /\ pending' = {}
    /\ receipts' = {r \in receipts : r.via # conn}
    /\ UNCHANGED <<realtime, conn, connected, generation, writerVars, quarantine, deviceWS,
                   inbox, effects>>

\* Run: connected.Swap(false).
Disconnected ==
    /\ link = "cleared"
    /\ link' = "down" /\ connected' = FALSE
    /\ UNCHANGED <<realtime, conn, generation, queueVars, writerVars, pending, call,
                   quarantine, deviceWS, panelVars>>

-----------------------------------------------------------------------------
(***************************************************************************)
(* Sending.                                                                *)
(***************************************************************************)
ForControl(m) == m \in ControlCalls /\ Size[m] <= ControlReserve
Limit(m) == IF ForControl(m) THEN QueueBytes + ControlReserve ELSE QueueBytes

Fits(m) ==
    /\ connected /\ Installed
    /\ queuedBytes + Size[m] <= Limit(m)
    /\ IF ForControl(m) THEN Len(controlCh) < ControlSlots ELSE Len(writeCh) < QueueSlots

enqueueLocked(m) ==
    /\ Fits(m)
    /\ queuedBytes' = queuedBytes + Size[m]
    /\ IF ForControl(m) THEN controlCh' = Append(controlCh, m) /\ UNCHANGED writeCh
       ELSE writeCh' = Append(writeCh, m) /\ UNCHANGED controlCh

\* SendRaw, SendNodeStatus, SendDeviceReport: dropped when there is no room.
SendRaw ==
    /\ enqueueLocked("raw")
    /\ UNCHANGED <<realtime, linkVars, writerVars, pending, call, quarantine, deviceWS,
                   panelVars>>

At(c, at) == call' = [call EXCEPT ![c].at = at]

\* realtimeSocket: connected, and not in quarantine.
ChooseSocket(c) ==
    /\ realtime /\ call[c].at = "idle"
    /\ At(c, IF connected /\ quarantine # generation /\ (c \in DeviceCalls => deviceWS)
             THEN "request" ELSE "http")
    /\ UNCHANGED <<realtime, linkVars, queueVars, writerVars, pending, quarantine, deviceWS,
                   panelVars>>

\* Request, up to the wait.
Request(c) ==
    /\ call[c].at = "request"
    /\ IF Fits(c) /\ Cardinality(pending) < PendingLimit
       THEN /\ pending' = pending \cup {c}
            /\ enqueueLocked(c)
            /\ At(c, "wait")
       ELSE /\ call' = [call EXCEPT ![c].at = "back", ![c].reply = "unavailable"]
            /\ UNCHANGED <<pending, queueVars>>
    /\ UNCHANGED <<realtime, linkVars, writerVars, quarantine, deviceWS, panelVars>>

\* The wait ends with a reply or with its time limit; the deferred call then
\* removes the call, and a reply that came in between is not looked at.
WaitEnds(c) ==
    /\ call[c].at = "wait"
    /\ At(c, IF call[c].reply = NoReply THEN "timeout" ELSE "leave")
    /\ UNCHANGED <<realtime, linkVars, queueVars, writerVars, pending, quarantine, deviceWS,
                   panelVars>>

RequestReturns(c) ==
    /\ call[c].at \in {"timeout", "leave"}
    /\ pending' = pending \ {c}
    /\ call' = [call EXCEPT ![c].reply = IF call[c].at = "timeout" THEN "unavailable" ELSE @,
                            ![c].at = "back"]
    /\ UNCHANGED <<realtime, linkVars, queueVars, writerVars, quarantine, deviceWS, panelVars>>

\* Mutant: the code of a receipt is not looked at.
receiveReceiptAnyCode(r) ==
    /\ r \in receipts /\ r.via = conn /\ Installed
    /\ receipts' = receipts \ {r}
    /\ pending' = pending \ {r.call}
    /\ call' = IF r.call \in pending THEN [call EXCEPT ![r.call].reply = "ok"] ELSE call
    /\ UNCHANGED <<realtime, linkVars, queueVars, writerVars, quarantine, deviceWS, inbox,
                   effects>>

\* Only a call that still waits takes its receipt.
receiveReceipt(r) ==
    /\ r \in receipts /\ r.via = conn /\ Installed
    /\ receipts' = receipts \ {r}
    /\ pending' = pending \ {r.call}
    /\ call' = IF r.call \in pending THEN [call EXCEPT ![r.call].reply = r.reply] ELSE call
    /\ UNCHANGED <<realtime, linkVars, queueVars, writerVars, quarantine, deviceWS, inbox,
                   effects>>

\* deviceRequest, reportRealtime, PublishState: a refusal or the end of its
\* context ends a device call; all else is tried again over HTTP, and the
\* connection, whichever it is now, is left alone for a while
\* (quarantineSocket).  A receipt that confirms nothing is as good as none.
Returned(c) ==
    /\ call[c].at = "back"
    /\ \E cancelled \in BOOLEAN :
         LET reply == call[c].reply
             ends == reply = "ok" \/ (c \in DeviceCalls /\ (reply = "refused" \/ cancelled))
         IN /\ call' = [call EXCEPT ![c] = [reply |-> NoReply,
                   at |-> IF reply = "ok" THEN "ok" ELSE IF ends THEN "failed" ELSE "http"]]
            /\ quarantine' = IF ends THEN quarantine ELSE generation
            /\ deviceWS' = (deviceWS /\ ~(c \in DeviceCalls /\ reply = "gone"))
    /\ UNCHANGED <<realtime, linkVars, queueVars, writerVars, pending, panelVars>>

QuarantineEnds ==
    /\ quarantine # 0 /\ quarantine' = 0
    /\ UNCHANGED <<realtime, linkVars, queueVars, writerVars, pending, call, deviceWS,
                   panelVars>>

\* realtimeHTTP.
SendHTTP(c) ==
    /\ call[c].at = "http"
    /\ At(c, "answer")
    /\ Arrives(c, 0)
    /\ UNCHANGED <<realtime, linkVars, queueVars, writerVars, pending, quarantine, deviceWS,
                   receipts, effects>>

HTTPAnswered(c) ==
    /\ call[c].at = "answer"
    /\ \E r \in receipts :
         /\ r.call = c /\ r.via = 0
         /\ At(c, IF r.reply = "ok" THEN "ok" ELSE "failed")
         /\ receipts' = receipts \ {r}
    /\ UNCHANGED <<realtime, linkVars, queueVars, writerVars, pending, quarantine, deviceWS,
                   inbox, effects>>

HTTPFails(c) ==
    /\ call[c].at = "answer"
    /\ At(c, "failed")
    /\ receipts' = {r \in receipts : r.call # c \/ r.via # 0}
    /\ UNCHANGED <<realtime, linkVars, queueVars, writerVars, pending, quarantine, deviceWS,
                   inbox, effects>>

\* The panel processes a request, or refuses it, and answers where somebody
\* still listens: on the connection it came on, or to the HTTP request.
Serve(q) ==
    /\ q \in inbox
    /\ inbox' = inbox \ {q}
    /\ \E reply \in IF q.via = 0 THEN {"ok", "refused"} ELSE {"ok", "refused", "gone"} :
         /\ effects' = IF reply = "ok" THEN [effects EXCEPT ![q.call] = @ + 1] ELSE effects
         /\ receipts' = IF \/ q.via = 0 /\ call[q.call].at = "answer"
                           \/ q.via = conn /\ Installed
                        THEN receipts \cup {[call |-> q.call, via |-> q.via, reply |-> reply]}
                        ELSE receipts
    /\ UNCHANGED <<realtime, linkVars, queueVars, writerVars, pending, call, quarantine,
                   deviceWS>>

ClientNext ==
    \/ Connect \/ SyncReady \/ Poll \/ Select \/ beginWrite \/ write
    \/ ConnectReturns \/ Cleared \/ Disconnected \/ SendRaw \/ QuarantineEnds
    \/ \E c \in Calls :
         \/ ChooseSocket(c) \/ Request(c) \/ WaitEnds(c) \/ RequestReturns(c) \/ Returned(c)
         \/ SendHTTP(c) \/ HTTPAnswered(c) \/ HTTPFails(c)
    \/ \E r \in receipts : receiveReceipt(r)
    \/ \E q \in inbox : Serve(q)

ClientSpec == ClientInit /\ [][ClientNext]_clientVars

-----------------------------------------------------------------------------
(***************************************************************************)
(* Properties.                                                             *)
(***************************************************************************)
\* queuedBytes is what lies in the queues and in the writer's hand, through
\* disconnections, cancelled calls and full queues, and ordinary messages
\* never take the bytes reserved for the short device calls.
QueueBounded ==
    LET taken == IF writer = "taken" THEN Size[hand] ELSE 0
        control == Bytes(controlCh) + IF ForControl(hand) THEN taken ELSE 0
    IN /\ queuedBytes = Bytes(writeCh) + Bytes(controlCh) + taken
       /\ queuedBytes - control <= QueueBytes
       /\ queuedBytes <= QueueBytes + ControlReserve

\* A call that waits has its reply, or is known to a connection whose reader
\* can still bring it or whose end will: a disconnection fails all of them
\* at once (Request).
NoCallForgotten ==
    \A c \in Calls : call[c].at = "wait" /\ call[c].reply = NoReply => c \in pending /\ Installed

\* Neither bytes of the queue nor calls get lost, whichever way a connection ends.
ClientHolds == QueueBounded /\ NoCallForgotten

Outcome == [c \in Calls |->
    IF call[c].at \in {"idle", "ok", "failed"} THEN call[c].at ELSE "asked"]

AbstractCall == INSTANCE RemoteCall WITH outcome <- Outcome

\* Both channels together are one call to the panel: it ends once, succeeds
\* only when processed, and is processed at most twice, late or not.
CallIsRemoteCall == AbstractCall!CallSpec

-----------------------------------------------------------------------------
(***************************************************************************)
(* Types; queuedBytes is a number whose value QueueBounded gives.          *)
(***************************************************************************)
Requests == [call : Calls, via : Nat]
Receipts == [call : Calls, via : Nat, reply : {"ok", "refused", "gone"}]
Steps == {"idle", "request", "wait", "timeout", "leave", "back", "http", "answer", "ok", "failed"}

ClientTypeOK ==
    /\ realtime \in BOOLEAN /\ connected \in BOOLEAN /\ deviceWS \in BOOLEAN
    /\ link \in {"down", "open", "closing", "cleared"}
    /\ conn \in Nat /\ (link # "down" => conn # 0) /\ generation \in Nat /\ quarantine \in Nat
    /\ writeCh \in Seq(Messages) /\ controlCh \in Seq(Messages)
    /\ writer \in {"poll", "select", "taken", "writing"} /\ hand \in Messages
    /\ pending \in SUBSET Calls
    /\ call \in [Calls -> [at : Steps, reply : {NoReply, "ok", "refused", "gone", "unavailable"}]]
    /\ inbox \in SUBSET Requests /\ receipts \in SUBSET Receipts
    /\ effects \in [Calls -> Nat]

(***************************************************************************)
(* The inductive invariant behind CallIsRemoteCall: each channel carries a *)
(* call once, so the panel processes it at most twice, and what the caller *)
(* takes for a success stands for one of these.                            *)
(***************************************************************************)
In(ch) == {ch[i] : i \in 1..Len(ch)}
Distinct(ch) == \A i, j \in 1..Len(ch) : ch[i] = ch[j] /\ ch[i] # "raw" => i = j

\* The message lies in a queue or in the writer's hand.
OnItsWay(c) == c \in In(writeCh) \cup In(controlCh) \cup {hand}
Unsent == {"idle", "request"}
AfterHTTP == {"answer", "ok", "failed"}

SentOnce ==
    /\ Distinct(writeCh) /\ Distinct(controlCh)
    /\ \A m \in In(writeCh) : ~ForControl(m)
    /\ \A m \in In(controlCh) : ForControl(m)
    /\ hand # "raw" => hand \notin In(writeCh) \cup In(controlCh)
    /\ \A c \in Calls : OnItsWay(c) => call[c].at \notin Unsent
    /\ \A q \in inbox :
         IF q.via = 0 THEN call[q.call].at \in AfterHTTP
         ELSE call[q.call].at \notin Unsent /\ ~OnItsWay(q.call)
    /\ \A q, r \in inbox : q.call = r.call /\ q.via # 0 /\ r.via # 0 => q = r

\* The panel may still get the call over the socket, or over HTTP.
MayArrive(c) ==
    call[c].at \in Unsent \/ OnItsWay(c) \/ \E q \in inbox : q.call = c /\ q.via # 0
MayArriveHTTP(c) ==
    call[c].at \notin AfterHTTP \/ \E q \in inbox : q.call = c /\ q.via = 0

AtMostTwice ==
    \A c \in Calls : effects[c] + (IF MayArrive(c) THEN 1 ELSE 0)
                               + (IF MayArriveHTTP(c) THEN 1 ELSE 0) <= 2

SuccessIsProcessed ==
    /\ \A c \in Calls : call[c].reply = "ok" \/ call[c].at = "ok" => effects[c] > 0
    /\ \A r \in receipts : r.reply = "ok" => effects[r.call] > 0

CallInv == SentOnce /\ AtMostTwice /\ SuccessIsProcessed

=============================================================================
