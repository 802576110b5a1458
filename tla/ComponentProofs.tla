------------------------- MODULE ComponentProofs ----------------------------
(***************************************************************************)
(* Theorems about components that do not interact with one another, a      *)
(* section for each: WSClient, RealityRelay, Probing and TrafficMeter.     *)
(***************************************************************************)
EXTENDS WSClient, RealityRelay, Probing, TrafficMeter, FiniteSetTheorems, TLAPS

-----------------------------------------------------------------------------
(***************************************************************************)
(* WSClient, the calls to the panel (ws.go, ws_send.go, ws_rpc.go,         *)
(* realtime.go): no waiting call is forgotten when connections end, and    *)
(* the socket and HTTP together are one call (RemoteCall).                 *)
(***************************************************************************)

\* A queue after its first message is taken, and after one is added.
LEMMA TailIn ==
    ASSUME NEW ch \in Seq(Messages), ch # <<>>
    PROVE  /\ Head(ch) \in In(ch) \cap Messages
           /\ Tail(ch) \in Seq(Messages)
           /\ In(Tail(ch)) \subseteq In(ch)
           /\ Distinct(ch) => /\ Distinct(Tail(ch))
                              /\ Head(ch) # "raw" => Head(ch) \notin In(Tail(ch))
<1>1. /\ Tail(ch) \in Seq(Messages) /\ Len(Tail(ch)) = Len(ch) - 1 /\ Len(ch) \in Nat \ {0}
      /\ \A i \in 1..Len(ch) - 1 : Tail(ch)[i] = ch[i + 1]
      /\ Head(ch) = ch[1] /\ ch[1] \in Messages
    OBVIOUS
<1>2. Head(ch) \in In(ch)
    BY <1>1 DEF In
<1>3. In(Tail(ch)) \subseteq In(ch)
    BY <1>1 DEF In
<1>4. ASSUME Distinct(ch)
      PROVE  Distinct(Tail(ch)) /\ (Head(ch) # "raw" => Head(ch) \notin In(Tail(ch)))
    BY <1>1, <1>4 DEF In, Distinct
<1> QED
    BY <1>1, <1>2, <1>3, <1>4

\* What a queue holds after a message is appended.
LEMMA AppendIn ==
    ASSUME NEW ch \in Seq(Messages), NEW m \in Messages
    PROVE  /\ Append(ch, m) \in Seq(Messages)
           /\ In(Append(ch, m)) = In(ch) \cup {m}
           /\ Distinct(ch) /\ (m # "raw" => m \notin In(ch)) => Distinct(Append(ch, m))
<1>1. /\ Append(ch, m) \in Seq(Messages) /\ Len(Append(ch, m)) = Len(ch) + 1 /\ Len(ch) \in Nat
      /\ \A i \in 1..Len(ch) : Append(ch, m)[i] = ch[i]
      /\ Append(ch, m)[Len(ch) + 1] = m
    OBVIOUS
<1>2. In(Append(ch, m)) = In(ch) \cup {m}
    BY <1>1 DEF In
<1>3. ASSUME Distinct(ch), m # "raw" => m \notin In(ch) PROVE Distinct(Append(ch, m))
    BY <1>1, <1>3 DEF In, Distinct
<1> QED
    BY <1>1, <1>2, <1>3

\* An empty queue holds nothing.
LEMMA EmptyIn == <<>> \in Seq(Messages) /\ In(<<>>) = {} /\ Distinct(<<>>)
BY DEF In, Distinct

-----------------------------------------------------------------------------
(***************************************************************************)
(* Types.                                                                  *)
(***************************************************************************)
Entries == [at : Steps, reply : {NoReply, "ok", "refused", "gone", "unavailable"}]

\* The client starts well typed.
LEMMA ClientInitType == ClientInit => ClientTypeOK
<1> SUFFICES ASSUME ClientInit PROVE ClientTypeOK
    OBVIOUS
<1>1. call \in [Calls -> Entries]
    BY DEF ClientInit, Entries, Steps
<1>2. effects \in [Calls -> Nat] /\ "raw" \in Messages
    BY DEF ClientInit, Messages
<1> QED
    BY <1>1, <1>2, EmptyIn DEF ClientInit, ClientTypeOK, Entries

\* What becomes of one caller.
LEMMA EntryType ==
    ASSUME ClientTypeOK, NEW c \in Calls, NEW k \in Entries
    PROVE  [call EXCEPT ![c] = k] \in [Calls -> Entries]
BY DEF ClientTypeOK, Entries

\* Moving one call keeps the types.
LEMMA AtType ==
    ASSUME ClientTypeOK, NEW c \in Calls, NEW at \in Steps, At(c, at)
    PROVE  /\ call' = [call EXCEPT ![c] = [call[c] EXCEPT !.at = at]]
           /\ [call[c] EXCEPT !.at = at] = [at |-> at, reply |-> call[c].reply]
           /\ call' \in [Calls -> Entries]
<1>1. call[c] \in Entries
    BY DEF ClientTypeOK, Entries
<1>2. [call[c] EXCEPT !.at = at] = [at |-> at, reply |-> call[c].reply]
    BY <1>1 DEF Entries
<1>3. [at |-> at, reply |-> call[c].reply] \in Entries
    BY <1>1 DEF Entries
<1> QED
    BY <1>2, <1>3, EntryType DEF At

\* A message that arrives is a request.
LEMMA ArrivesType ==
    ASSUME ClientTypeOK, NEW m, NEW via \in Nat, Arrives(m, via), m \in Messages
    PROVE  inbox' \in SUBSET Requests
BY DEF Arrives, ClientTypeOK, Requests, Messages

\* Run and its cleanup keep the types.
LEMMA RunType == ClientTypeOK /\ (Connect \/ SyncReady \/ Cleared \/ Disconnected) => ClientTypeOK'
<1> SUFFICES ASSUME ClientTypeOK, Connect \/ SyncReady \/ Cleared \/ Disconnected PROVE ClientTypeOK'
    OBVIOUS
<1>1. CASE Connect
    <2>1. conn' \in Nat /\ conn' # 0 /\ generation' \in Nat
        BY <1>1 DEF Connect, ClientTypeOK
    <2>2. connected' \in BOOLEAN
        BY <1>1 DEF Connect, ClientTypeOK
    <2>3. link' = "open" /\ writeCh' = <<>> /\ controlCh' = <<>> /\ quarantine' = quarantine
          /\ UNCHANGED <<realtime, writerVars, pending, call, deviceWS, panelVars>>
        BY <1>1 DEF Connect
    <2> QED
        BY <2>1, <2>2, <2>3, EmptyIn DEF ClientTypeOK, writerVars, panelVars
<1>2. CASE SyncReady
    BY <1>2 DEF SyncReady, ClientTypeOK, queueVars, writerVars, panelVars, Installed
<1>3. CASE Cleared
    <2>1. ASSUME NEW c \in Calls PROVE [call[c] EXCEPT !.reply = "unavailable"] \in Entries
        BY DEF ClientTypeOK, Entries
    <2>2. call' \in [Calls -> Entries]
        BY <1>3, <2>1 DEF Cleared, ClientTypeOK, Entries
    <2> QED
        BY <1>3, <2>2, EmptyIn DEF Cleared, ClientTypeOK, Entries, writerVars
<1>4. CASE Disconnected
    BY <1>4 DEF Disconnected, ClientTypeOK, queueVars, writerVars, panelVars
<1> QED
    BY <1>1, <1>2, <1>3, <1>4

\* Taking from a queue keeps the types.
LEMMA TookType ==
    ASSUME ClientTypeOK, NEW ch \in Seq(Messages), NEW rest, ch # <<>>, Took(ch, rest)
    PROVE  rest \in Seq(Messages) /\ hand' \in Messages /\ writer' = "taken"
BY TailIn DEF Took

\* The writer keeps the types.
LEMMA WriterType ==
    ClientTypeOK /\ (Poll \/ Select \/ beginWrite \/ write \/ ConnectReturns) => ClientTypeOK'
<1> SUFFICES ASSUME ClientTypeOK, Poll \/ Select \/ beginWrite \/ write \/ ConnectReturns
             PROVE ClientTypeOK'
    OBVIOUS
<1>0. "raw" \in Messages
    BY DEF Messages
<1>1. CASE Poll
    BY <1>1, TookType DEF Poll, ClientTypeOK, linkVars, panelVars
<1>2. CASE Select
    BY <1>2, TookType DEF Select, ClientTypeOK, linkVars, panelVars
<1>3. CASE beginWrite
    BY <1>0, <1>3 DEF beginWrite, NextMessage, ClientTypeOK, linkVars, panelVars
<1>4. CASE write
    <2>1. inbox' \in SUBSET Requests
        BY <1>4, ArrivesType DEF write, ClientTypeOK
    <2> QED
        BY <1>0, <1>4, <2>1 DEF write, NextMessage, ClientTypeOK, linkVars, queueVars
<1>5. CASE ConnectReturns
    <2>1. inbox' \in SUBSET Requests
        BY <1>5, ArrivesType DEF ConnectReturns, ClientTypeOK
    <2> QED
        BY <1>0, <1>5, <2>1 DEF ConnectReturns, NextMessage, ClientTypeOK, linkVars, queueVars
<1> QED
    BY <1>1, <1>2, <1>3, <1>4, <1>5

\* Enqueueing keeps the types.
LEMMA EnqueueType ==
    ASSUME ClientTypeOK, NEW m \in Messages, enqueueLocked(m)
    PROVE  writeCh' \in Seq(Messages) /\ controlCh' \in Seq(Messages)
<1>1. /\ writeCh \in Seq(Messages) /\ controlCh \in Seq(Messages)
      /\ \/ controlCh' = Append(controlCh, m) /\ writeCh' = writeCh
         \/ writeCh' = Append(writeCh, m) /\ controlCh' = controlCh
    BY DEF enqueueLocked, ClientTypeOK
<1> QED
    BY <1>1, AppendIn

\* SendRaw keeps the types.
LEMMA SendRawType == ClientTypeOK /\ SendRaw => ClientTypeOK'
<1> SUFFICES ASSUME ClientTypeOK, SendRaw PROVE ClientTypeOK'
    OBVIOUS
<1>1. writeCh' \in Seq(Messages) /\ controlCh' \in Seq(Messages)
    BY EnqueueType DEF SendRaw, Messages
<1> QED
    BY <1>1 DEF SendRaw, ClientTypeOK, linkVars, writerVars, panelVars

\* A caller's step keeps the types.
LEMMA CallerType ==
    ASSUME ClientTypeOK, NEW c \in Calls,
           \/ ChooseSocket(c) \/ Request(c) \/ WaitEnds(c) \/ RequestReturns(c) \/ Returned(c)
           \/ SendHTTP(c) \/ HTTPAnswered(c) \/ HTTPFails(c)
    PROVE  ClientTypeOK'
<1>0. call[c] \in Entries
    BY DEF ClientTypeOK, Entries
<1>1. CASE ChooseSocket(c)
    <2>1. call' \in [Calls -> Entries]
        BY <1>1, AtType DEF ChooseSocket, Steps
    <2> QED
        BY <1>1, <2>1
           DEF ChooseSocket, ClientTypeOK, Entries, linkVars, queueVars, writerVars, panelVars
<1>2. CASE Request(c)
    <2>1. call' \in [Calls -> Entries]
        <3>1. CASE At(c, "wait")
            BY <3>1, AtType DEF Steps
        <3>2. CASE call' = [call EXCEPT ![c].at = "back", ![c].reply = "unavailable"]
            BY <3>2 DEF ClientTypeOK, Entries, Steps
        <3> QED
            BY <1>2, <3>1, <3>2 DEF Request
    <2>2. writeCh' \in Seq(Messages) /\ controlCh' \in Seq(Messages) /\ pending' \in SUBSET Calls
        BY <1>2, EnqueueType DEF Request, Messages, queueVars, ClientTypeOK
    <2> QED
        BY <1>2, <2>1, <2>2 DEF Request, ClientTypeOK, Entries, linkVars, writerVars, panelVars
<1>3. CASE WaitEnds(c)
    <2>1. call' \in [Calls -> Entries]
        BY <1>3, AtType DEF WaitEnds, Steps
    <2> QED
        BY <1>3, <2>1 DEF WaitEnds, ClientTypeOK, Entries, linkVars, queueVars, writerVars, panelVars
<1>4. CASE RequestReturns(c)
    <2>1. call' \in [Calls -> Entries]
        BY <1>4 DEF RequestReturns, ClientTypeOK, Entries, Steps
    <2> QED
        BY <1>4, <2>1
           DEF RequestReturns, ClientTypeOK, Entries, linkVars, queueVars, writerVars, panelVars
<1>5. CASE Returned(c)
    <2>1. call' \in [Calls -> Entries] /\ quarantine' \in Nat /\ deviceWS' \in BOOLEAN
        BY <1>5, EntryType DEF Returned, ClientTypeOK, Entries, Steps
    <2> QED
        BY <1>5, <2>1 DEF Returned, ClientTypeOK, Entries, linkVars, queueVars, writerVars, panelVars
<1>6. CASE SendHTTP(c)
    <2>1. call' \in [Calls -> Entries]
        BY <1>6, AtType DEF SendHTTP, Steps
    <2>2. inbox' \in SUBSET Requests
        BY <1>6, ArrivesType DEF SendHTTP, Messages
    <2> QED
        BY <1>6, <2>1, <2>2 DEF SendHTTP, ClientTypeOK, Entries, linkVars, queueVars, writerVars
<1>7. CASE HTTPAnswered(c)
    <2>1. call' \in [Calls -> Entries] /\ receipts' \in SUBSET Receipts
        BY <1>7, AtType DEF HTTPAnswered, Steps, ClientTypeOK
    <2> QED
        BY <1>7, <2>1 DEF HTTPAnswered, ClientTypeOK, Entries, linkVars, queueVars, writerVars
<1>8. CASE HTTPFails(c)
    <2>1. call' \in [Calls -> Entries] /\ receipts' \in SUBSET Receipts
        BY <1>8, AtType DEF HTTPFails, Steps, ClientTypeOK
    <2> QED
        BY <1>8, <2>1 DEF HTTPFails, ClientTypeOK, Entries, linkVars, queueVars, writerVars
<1> QED
    BY <1>1, <1>2, <1>3, <1>4, <1>5, <1>6, <1>7, <1>8

\* A receipt that is read keeps the types (receiveReceipt).
LEMMA ReceiptType ==
    ASSUME ClientTypeOK, NEW r \in receipts, receiveReceipt(r)
    PROVE  ClientTypeOK'
<1>1. r.call \in Calls /\ r.reply \in {"ok", "refused", "gone"}
    BY DEF ClientTypeOK, Receipts
<1>2. call' \in [Calls -> Entries]
    BY <1>1 DEF receiveReceipt, ClientTypeOK, Entries
<1> QED
    BY <1>2 DEF receiveReceipt, ClientTypeOK, Entries, linkVars, queueVars, writerVars

\* The panel's steps keep the types.
LEMMA ServeType ==
    ASSUME ClientTypeOK, NEW q \in inbox, Serve(q)
    PROVE  ClientTypeOK'
<1>1. q.call \in Calls /\ q.via \in Nat
    BY DEF ClientTypeOK, Requests
<1>2. effects' \in [Calls -> Nat] /\ receipts' \in SUBSET Receipts
    BY <1>1 DEF Serve, ClientTypeOK, Receipts
<1> QED
    BY <1>2 DEF Serve, ClientTypeOK, linkVars, queueVars, writerVars

\* Type correctness: what a caller, a queue or a message can be.
LEMMA ClientTypeStep == ClientTypeOK /\ [ClientNext]_clientVars => ClientTypeOK'
<1> SUFFICES ASSUME ClientTypeOK, [ClientNext]_clientVars PROVE ClientTypeOK'
    OBVIOUS
<1>1. CASE QuarantineEnds
    BY <1>1 DEF QuarantineEnds, ClientTypeOK, linkVars, queueVars, writerVars, panelVars
<1>2. CASE UNCHANGED clientVars
    BY <1>2 DEF clientVars, ClientTypeOK
<1> QED
    BY <1>1, <1>2, RunType, WriterType, SendRawType, CallerType, ReceiptType, ServeType DEF ClientNext

\* The types of ws.go hold throughout.
THEOREM ClientTypesCorrect == ClientSpec => []ClientTypeOK
BY ClientInitType, ClientTypeStep, PTL DEF ClientSpec

-----------------------------------------------------------------------------
(***************************************************************************)
(* A waiting call is known to a connection.                                *)
(***************************************************************************)
\* A step that changes neither what is waiting nor the connection.
LEMMA NobodyMoves ==
    ASSUME NoCallForgotten, pending' = pending, Installed => Installed',
           \A c \in Calls : call'[c].at = "wait" /\ call'[c].reply = NoReply =>
                                call[c].at = "wait" /\ call[c].reply = NoReply
    PROVE  NoCallForgotten'
BY DEF NoCallForgotten

\* No step leaves a caller without an answer, a timer or a place in the table.
LEMMA ForgottenStep == ClientTypeOK /\ NoCallForgotten /\ [ClientNext]_clientVars => NoCallForgotten'
<1> SUFFICES ASSUME ClientTypeOK, NoCallForgotten, [ClientNext]_clientVars PROVE NoCallForgotten'
    OBVIOUS
<1>0. call \in [Calls -> Entries]
    BY DEF ClientTypeOK, Entries
<1>1. CASE \/ Connect \/ SyncReady \/ Poll \/ Select \/ beginWrite \/ write \/ ConnectReturns
           \/ SendRaw \/ QuarantineEnds \/ Disconnected \/ (\E q \in inbox : Serve(q))
           \/ UNCHANGED clientVars
    <2>1. pending' = pending /\ call' = call
        BY <1>1 DEF Connect, SyncReady, Poll, Select, beginWrite, write, ConnectReturns, SendRaw,
                    QuarantineEnds, Disconnected, Serve, clientVars
    <2>2. Installed => Installed'
        BY <1>1 DEF Connect, SyncReady, Poll, Select, beginWrite, write, ConnectReturns, SendRaw,
                    QuarantineEnds, Disconnected, Serve, clientVars, Installed, linkVars
    <2> QED
        BY <2>1, <2>2, NobodyMoves
<1>2. CASE Cleared
    <2>1. ASSUME NEW c \in Calls, call'[c].at = "wait", call'[c].reply = NoReply PROVE FALSE
        <3>1. call'[c] = IF c \in pending /\ call[c].reply = NoReply
                         THEN [call[c] EXCEPT !.reply = "unavailable"] ELSE call[c]
            BY <1>2 DEF Cleared
        <3>2. [call[c] EXCEPT !.reply = "unavailable"].reply = "unavailable"
            BY <1>0 DEF Entries
        <3>3. ~(c \in pending /\ call[c].reply = NoReply) /\ call'[c] = call[c]
            BY <2>1, <3>1, <3>2, ClientAssumption
        <3> QED
            BY <2>1, <3>3 DEF NoCallForgotten
    <2> QED
        BY <2>1 DEF NoCallForgotten
<1>3. ASSUME NEW c \in Calls, ChooseSocket(c) \/ WaitEnds(c) \/ Returned(c)
                              \/ SendHTTP(c) \/ HTTPAnswered(c) \/ HTTPFails(c)
      PROVE  NoCallForgotten'
    <2>1. pending' = pending /\ link' = link
        BY <1>3 DEF ChooseSocket, WaitEnds, Returned, SendHTTP, HTTPAnswered, HTTPFails, linkVars
    <2>2. call'[c].at # "wait" /\ \A d \in Calls : d # c => call'[d] = call[d]
        BY <1>0, <1>3 DEF ChooseSocket, WaitEnds, Returned, SendHTTP, HTTPAnswered, HTTPFails, At,
                          Entries
    <2> QED
        BY <2>1, <2>2, NobodyMoves DEF Installed
<1>4. ASSUME NEW c \in Calls, Request(c) PROVE NoCallForgotten'
    <2>1. \A d \in Calls : d # c => call'[d] = call[d]
        BY <1>0, <1>4 DEF Request, At
    <2>2. link' = link /\ \/ pending' = pending \cup {c} /\ Installed
                          \/ pending' = pending /\ call'[c].at # "wait"
        BY <1>0, <1>4 DEF Request, linkVars, enqueueLocked, Fits, Entries
    <2> QED
        BY <2>1, <2>2 DEF NoCallForgotten, Installed
<1>5. ASSUME NEW c \in Calls, RequestReturns(c) PROVE NoCallForgotten'
    <2>1. (\A d \in Calls : d # c => call'[d] = call[d]) /\ call'[c].at # "wait"
        BY <1>0, <1>5 DEF RequestReturns, Entries
    <2>2. link' = link /\ pending' = pending \ {c}
        BY <1>5 DEF RequestReturns, linkVars
    <2> QED
        BY <2>1, <2>2 DEF NoCallForgotten, Installed
<1>6. ASSUME NEW r \in receipts, receiveReceipt(r) PROVE NoCallForgotten'
    <2>1. r.call \in Calls /\ r.reply # NoReply
        BY ClientAssumption DEF ClientTypeOK, Receipts
    <2>2. link' = link /\ pending' = pending \ {r.call}
        BY <1>6 DEF receiveReceipt, linkVars
    <2>3. /\ \A d \in Calls : d # r.call => call'[d] = call[d]
          /\ r.call \in pending => call'[r.call].reply = r.reply
          /\ r.call \notin pending => call' = call
        BY <1>0, <1>6, <2>1 DEF receiveReceipt, Entries
    <2> QED
        BY <2>1, <2>2, <2>3 DEF NoCallForgotten, Installed
<1> QED
    BY <1>1, <1>2, <1>3, <1>4, <1>5, <1>6 DEF ClientNext

\* A call that waits without a reply is pending at a connection that still
\* exists: whoever ends the connection fails it (connect's deferred call), for
\* every number of callers and connections.
THEOREM NobodyWaitsInVain == ClientSpec => []NoCallForgotten
<1>1. ClientInit => NoCallForgotten
    BY DEF ClientInit, NoCallForgotten
<1> QED
    BY <1>1, ForgottenStep, ClientTypesCorrect, PTL DEF ClientSpec

-----------------------------------------------------------------------------
(***************************************************************************)
(* Each channel carries a call once.                                       *)
(***************************************************************************)
QueuesHold(A, B, h) ==
    /\ Distinct(A) /\ Distinct(B)
    /\ \A m \in In(A) : ~ForControl(m)
    /\ \A m \in In(B) : ForControl(m)
    /\ h # "raw" => h \notin In(A) \cup In(B)

\* What may still arrive does so at most once per channel, as long as no more
\* may arrive than before.
LEMMA TwiceKept ==
    ASSUME ClientTypeOK, ClientTypeOK', AtMostTwice,
           \A c \in Calls : /\ MayArrive(c)' => MayArrive(c)
                            /\ MayArriveHTTP(c)' => MayArriveHTTP(c)
                            /\ effects'[c] = effects[c]
    PROVE  AtMostTwice'
<1>1. ASSUME NEW c \in Calls
      PROVE  effects'[c] + (IF MayArrive(c)' THEN 1 ELSE 0) + (IF MayArriveHTTP(c)' THEN 1 ELSE 0) <= 2
    <2>1. effects[c] \in Nat /\ effects'[c] = effects[c]
        BY DEF ClientTypeOK
    <2>2. effects[c] + (IF MayArrive(c) THEN 1 ELSE 0) + (IF MayArriveHTTP(c) THEN 1 ELSE 0) <= 2
        BY DEF AtMostTwice
    <2>3. /\ (IF MayArrive(c)' THEN 1 ELSE 0) <= (IF MayArrive(c) THEN 1 ELSE 0)
          /\ (IF MayArriveHTTP(c)' THEN 1 ELSE 0) <= (IF MayArriveHTTP(c) THEN 1 ELSE 0)
        OBVIOUS
    <2> QED
        BY <2>1, <2>2, <2>3
<1> QED
    BY <1>1 DEF AtMostTwice

\* A step of one call keeps what the invariant says of all calls.
LEMMA CallKept ==
    ASSUME ClientTypeOK, ClientTypeOK', CallInv, QueuesHold(writeCh', controlCh', hand'),
           inbox' = inbox, effects' = effects, receipts' \subseteq receipts,
           \A c \in Calls :
              /\ OnItsWay(c)' => OnItsWay(c) \/ (call[c].at \in Unsent /\ call'[c].at \notin Unsent)
              /\ call'[c].at \in Unsent => call[c].at \in Unsent
              /\ call[c].at \in AfterHTTP => call'[c].at \in AfterHTTP
              /\ call'[c].reply = "ok" \/ call'[c].at = "ok" => effects[c] > 0
    PROVE  CallInv'
<1>0. inbox \in SUBSET Requests /\ \A q \in inbox : q.call \in Calls
    BY DEF ClientTypeOK, Requests
<1>1. SentOnce'
    <2>1. \A c \in Calls : OnItsWay(c)' => call'[c].at \notin Unsent
        BY DEF CallInv, SentOnce
    <2>2. ASSUME NEW q \in inbox
          PROVE  IF q.via = 0 THEN call'[q.call].at \in AfterHTTP
                 ELSE call'[q.call].at \notin Unsent /\ ~OnItsWay(q.call)'
        BY <1>0, <2>2 DEF CallInv, SentOnce
    <2> QED
        BY <2>1, <2>2 DEF CallInv, SentOnce, QueuesHold
<1>2. AtMostTwice'
    <2>1. ASSUME NEW c \in Calls
          PROVE  /\ MayArrive(c)' => MayArrive(c)
                 /\ MayArriveHTTP(c)' => MayArriveHTTP(c)
        BY DEF MayArrive, MayArriveHTTP
    <2> QED
        BY <2>1, TwiceKept DEF CallInv
<1>3. SuccessIsProcessed'
    BY DEF CallInv, SuccessIsProcessed
<1> QED
    BY <1>1, <1>2, <1>3 DEF CallInv

\* The message in the writer's hand arrives, over the connection.
LEMMA ArrivalKept ==
    ASSUME ClientTypeOK, ClientTypeOK', CallInv, Arrives(hand, conn), conn # 0, hand' = "raw",
           UNCHANGED <<writeCh, controlCh, call, receipts, effects>>
    PROVE  CallInv'
<1>0. conn \in Nat /\ hand \in Messages /\ inbox \in SUBSET Requests
    BY DEF ClientTypeOK
<1>1. CASE hand = "raw"
    <2>1. inbox' = inbox /\ QueuesHold(writeCh', controlCh', hand')
        BY <1>1 DEF Arrives, QueuesHold, CallInv, SentOnce
    <2> QED
        BY <1>1, <2>1, CallKept DEF OnItsWay, CallInv, SuccessIsProcessed
<1>2. CASE hand # "raw"
    <2> DEFINE new == [call |-> hand, via |-> conn]
    <2>1. hand \in Calls /\ inbox' = inbox \cup {new} /\ new.call = hand /\ new.via = conn
        BY <1>0, <1>2 DEF Arrives, Messages
    <2> HIDE DEF new
    <2>2. /\ OnItsWay(hand)
          /\ \A c \in Calls : (c = hand => ~OnItsWay(c)') /\ (OnItsWay(c)' => OnItsWay(c))
        BY <1>2, <2>1, ClientAssumption DEF OnItsWay, CallInv, SentOnce
    <2>3. call[hand].at \notin Unsent /\ \A q \in inbox : q.call = hand => q.via = 0
        BY <2>1, <2>2 DEF CallInv, SentOnce
    <2>4. SentOnce'
        <3>1. ASSUME NEW q \in inbox'
              PROVE  IF q.via = 0 THEN call'[q.call].at \in AfterHTTP
                     ELSE call'[q.call].at \notin Unsent /\ ~OnItsWay(q.call)'
            <4>1. q \in inbox => q.call \in Calls
                BY <1>0 DEF Requests
            <4> QED
                BY <2>1, <2>2, <2>3, <4>1 DEF CallInv, SentOnce
        <3>2. \A q, r \in inbox' : q.call = r.call /\ q.via # 0 /\ r.via # 0 => q = r
            BY <2>1, <2>3 DEF CallInv, SentOnce
        <3>3. \A c \in Calls : OnItsWay(c)' => call'[c].at \notin Unsent
            BY <2>2 DEF CallInv, SentOnce
        <3> QED
            BY <3>1, <3>2, <3>3 DEF CallInv, SentOnce
    <2>5. AtMostTwice'
        <3>1. ASSUME NEW c \in Calls PROVE MayArrive(c)' => MayArrive(c)
            BY <2>1, <2>2 DEF MayArrive
        <3>2. ASSUME NEW c \in Calls PROVE MayArriveHTTP(c)' => MayArriveHTTP(c)
            BY <2>1 DEF MayArriveHTTP
        <3> QED
            BY <3>1, <3>2, TwiceKept DEF CallInv
    <2>6. SuccessIsProcessed'
        BY DEF CallInv, SuccessIsProcessed
    <2> QED
        BY <2>4, <2>5, <2>6 DEF CallInv
<1> QED
    BY <1>1, <1>2

\* The message goes over HTTP, once.
LEMMA SendHTTPKept ==
    ASSUME ClientTypeOK, ClientTypeOK', CallInv, NEW c \in Calls, SendHTTP(c)
    PROVE  CallInv'
<1> DEFINE new == [call |-> c, via |-> 0]
<1>1. /\ inbox' = inbox \cup {new} /\ new.call = c /\ new.via = 0
      /\ call[c].at = "http" /\ UNCHANGED <<writeCh, controlCh, hand, receipts, effects>>
    BY ClientAssumption DEF SendHTTP, Arrives, queueVars, writerVars
<1>2. /\ call'[c].at = "answer" /\ call'[c].reply = call[c].reply
      /\ \A d \in Calls : d # c => call'[d] = call[d]
    BY <1>1 DEF SendHTTP, At, ClientTypeOK
<1>3. \A d \in Calls : OnItsWay(d)' <=> OnItsWay(d)
    BY <1>1 DEF OnItsWay
<1> HIDE DEF new
<1>4. SentOnce'
    <2>1. ASSUME NEW q \in inbox'
          PROVE  IF q.via = 0 THEN call'[q.call].at \in AfterHTTP
                 ELSE call'[q.call].at \notin Unsent /\ ~OnItsWay(q.call)'
        <3>1. q \in inbox => q.call \in Calls
            BY DEF ClientTypeOK, Requests
        <3> QED
            BY <1>1, <1>2, <1>3, <3>1 DEF CallInv, SentOnce, AfterHTTP, Unsent
    <2>2. \A q, r \in inbox' : q.call = r.call /\ q.via # 0 /\ r.via # 0 => q = r
        BY <1>1 DEF CallInv, SentOnce
    <2>3. \A d \in Calls : OnItsWay(d)' => call'[d].at \notin Unsent
        BY <1>2, <1>3 DEF CallInv, SentOnce, Unsent
    <2> QED
        BY <1>1, <2>1, <2>2, <2>3 DEF CallInv, SentOnce
<1>5. AtMostTwice'
    <2>1. ASSUME NEW d \in Calls PROVE MayArrive(d)' => MayArrive(d)
        BY <1>1, <1>2, <1>3 DEF MayArrive, Unsent
    <2>2. ASSUME NEW d \in Calls PROVE MayArriveHTTP(d)' => MayArriveHTTP(d)
        BY <1>1, <1>2 DEF MayArriveHTTP, AfterHTTP
    <2> QED
        BY <1>1, <2>1, <2>2, TwiceKept DEF CallInv
<1>6. SuccessIsProcessed'
    BY <1>1, <1>2 DEF CallInv, SuccessIsProcessed
<1> QED
    BY <1>4, <1>5, <1>6 DEF CallInv

\* The panel takes a message: it cannot arrive on this channel once more.
LEMMA ServeKept ==
    ASSUME ClientTypeOK, ClientTypeOK', CallInv, NEW q \in inbox, Serve(q)
    PROVE  CallInv'
<1> DEFINE c == q.call
<1>0. inbox \in SUBSET Requests /\ effects \in [Calls -> Nat] /\ c \in Calls /\ q \in Requests
    BY DEF ClientTypeOK, Requests
<1>1. /\ inbox' = inbox \ {q}
      /\ UNCHANGED <<writeCh, controlCh, hand, call>>
    BY DEF Serve, queueVars, writerVars
<1>2. PICK reply \in {"ok", "refused", "gone"} :
         /\ effects' = IF reply = "ok" THEN [effects EXCEPT ![c] = @ + 1] ELSE effects
         /\ receipts' \subseteq receipts \cup {[call |-> c, via |-> q.via, reply |-> reply]}
    BY DEF Serve
<1>3. \A d \in Calls : OnItsWay(d)' <=> OnItsWay(d)
    BY <1>1 DEF OnItsWay
<1>4. SentOnce'
    <2>1. \A r \in inbox : r.call \in Calls
        BY <1>0 DEF Requests
    <2> QED
        BY <1>1, <1>3, <2>1 DEF CallInv, SentOnce
<1>5. \A d \in Calls : (MayArrive(d)' => MayArrive(d)) /\ (MayArriveHTTP(d)' => MayArriveHTTP(d))
    BY <1>1, <1>3 DEF MayArrive, MayArriveHTTP
<1>6. \/ MayArrive(c) /\ ~MayArrive(c)'
      \/ MayArriveHTTP(c) /\ ~MayArriveHTTP(c)'
    <2>1. CASE q.via = 0
        <3>1. call'[c].at \in AfterHTTP
            BY <1>1, <2>1 DEF CallInv, SentOnce
        <3>2. \A r \in inbox : r.call = c /\ r.via = 0 => r = q
            BY <1>0, <2>1 DEF Requests
        <3> QED
            BY <1>1, <2>1, <3>1, <3>2 DEF MayArriveHTTP
    <2>2. CASE q.via # 0
        <3>1. call'[c].at \notin Unsent /\ ~OnItsWay(c)'
            BY <1>0, <1>1, <1>3, <2>2 DEF CallInv, SentOnce
        <3>2. \A r \in inbox : r.call = c /\ r.via # 0 => r = q
            BY <2>2 DEF CallInv, SentOnce
        <3> QED
            BY <1>1, <2>2, <3>1, <3>2 DEF MayArrive
    <2> QED
        BY <2>1, <2>2
<1>7. \A d \in Calls : effects'[d] = effects[d] \/ (d = c /\ effects'[d] = effects[d] + 1)
    BY <1>0, <1>2
<1>8. AtMostTwice'
    <2>1. ASSUME NEW d \in Calls
          PROVE  effects'[d] + (IF MayArrive(d)' THEN 1 ELSE 0) + (IF MayArriveHTTP(d)' THEN 1 ELSE 0) <= 2
        <3>1. effects[d] \in Nat
            BY <1>0
        <3>2. effects[d] + (IF MayArrive(d) THEN 1 ELSE 0) + (IF MayArriveHTTP(d) THEN 1 ELSE 0) <= 2
            BY DEF CallInv, AtMostTwice
        <3>3. /\ (IF MayArrive(d)' THEN 1 ELSE 0) <= (IF MayArrive(d) THEN 1 ELSE 0)
              /\ (IF MayArriveHTTP(d)' THEN 1 ELSE 0) <= (IF MayArriveHTTP(d) THEN 1 ELSE 0)
            BY <1>5
        <3>4. d = c => \/ (IF MayArrive(d)' THEN 1 ELSE 0) = 0 /\ (IF MayArrive(d) THEN 1 ELSE 0) = 1
                       \/ /\ (IF MayArriveHTTP(d)' THEN 1 ELSE 0) = 0
                          /\ (IF MayArriveHTTP(d) THEN 1 ELSE 0) = 1
            BY <1>6
        <3> QED
            BY <1>7, <3>1, <3>2, <3>3, <3>4
    <2> QED
        BY <2>1 DEF AtMostTwice
<1>9. SuccessIsProcessed'
    <2>1. \A d \in Calls : effects[d] > 0 => effects'[d] > 0
        BY <1>0, <1>7
    <2>2. reply = "ok" => effects'[c] > 0
        BY <1>0, <1>2
    <2>3. \A r \in receipts : r.call \in Calls
        BY DEF ClientTypeOK, Receipts
    <2> QED
        BY <1>0, <1>1, <1>2, <2>1, <2>2, <2>3 DEF CallInv, SuccessIsProcessed
<1> QED
    BY <1>4, <1>8, <1>9 DEF CallInv

\* The queues as the invariant sees them.
LEMMA QueuesAreHeld == CallInv => QueuesHold(writeCh, controlCh, hand)
BY DEF CallInv, SentOnce, QueuesHold

\* The steps of Run, connect and the writer before a message is written: what
\* lies in the queues goes to the writer's hand or away.
LEMMA QueuesShrink ==
    ASSUME ClientTypeOK, ClientTypeOK', CallInv, QueuesHold(writeCh', controlCh', hand'),
           In(writeCh') \subseteq In(writeCh), In(controlCh') \subseteq In(controlCh),
           hand' \in In(writeCh) \cup In(controlCh) \cup {hand, "raw"},
           UNCHANGED <<inbox, effects>>, receipts' \subseteq receipts,
           \A c \in Calls : call'[c].at = call[c].at /\ (call'[c].reply = "ok" => call[c].reply = "ok")
    PROVE  CallInv'
<1>1. \A c \in Calls : OnItsWay(c)' => OnItsWay(c)
    BY ClientAssumption DEF OnItsWay
<1>2. \A c \in Calls : call'[c].reply = "ok" \/ call'[c].at = "ok" => effects[c] > 0
    BY DEF CallInv, SuccessIsProcessed
<1> QED
    BY <1>1, <1>2, CallKept

\* Run's own steps keep the invariant.
LEMMA RunKept ==
    ASSUME ClientTypeOK, ClientTypeOK', CallInv,
           Connect \/ SyncReady \/ Cleared \/ Disconnected \/ QuarantineEnds \/ UNCHANGED clientVars
    PROVE  CallInv'
<1>1. /\ UNCHANGED <<hand, inbox, effects>> /\ receipts' \subseteq receipts
      /\ \/ writeCh' = <<>> /\ controlCh' = <<>>
         \/ UNCHANGED <<writeCh, controlCh>>
    BY DEF Connect, SyncReady, Cleared, Disconnected, QuarantineEnds, clientVars, queueVars,
           writerVars, panelVars
<1>2. QueuesHold(writeCh', controlCh', hand')
    BY <1>1, EmptyIn, QueuesAreHeld DEF QueuesHold
<1>3. ASSUME NEW c \in Calls
      PROVE  call'[c].at = call[c].at /\ (call'[c].reply = "ok" => call[c].reply = "ok")
    <2>1. call[c] \in Entries
        BY DEF ClientTypeOK, Entries
    <2>2. call'[c] \in {call[c], [call[c] EXCEPT !.reply = "unavailable"]}
        BY DEF Connect, SyncReady, Cleared, Disconnected, QuarantineEnds, clientVars
    <2> QED
        BY <2>1, <2>2 DEF Entries
<1> QED
    BY <1>1, <1>2, <1>3, EmptyIn, QueuesShrink

\* The writer takes a message from a queue.
LEMMA TakenKept ==
    ASSUME ClientTypeOK, ClientTypeOK', CallInv, Poll \/ Select \/ beginWrite
    PROVE  CallInv'
<1>0. writeCh \in Seq(Messages) /\ controlCh \in Seq(Messages)
    BY DEF ClientTypeOK
<1>1. UNCHANGED <<inbox, receipts, effects, call>>
    BY DEF Poll, Select, beginWrite, panelVars
<1>2. \/ controlCh # <<>> /\ hand' = Head(controlCh) /\ controlCh' = Tail(controlCh) /\ writeCh' = writeCh
      \/ writeCh # <<>> /\ hand' = Head(writeCh) /\ writeCh' = Tail(writeCh) /\ controlCh' = controlCh
      \/ UNCHANGED <<writeCh, controlCh>> /\ hand' \in {hand, "raw"}
    BY DEF Poll, Select, beginWrite, Took, NextMessage
<1>3. /\ QueuesHold(writeCh', controlCh', hand')
      /\ In(writeCh') \subseteq In(writeCh) /\ In(controlCh') \subseteq In(controlCh)
      /\ hand' \in In(writeCh) \cup In(controlCh) \cup {hand, "raw"}
    <2>1. CASE /\ controlCh # <<>> /\ hand' = Head(controlCh) /\ controlCh' = Tail(controlCh)
               /\ writeCh' = writeCh
        BY <1>0, <2>1, TailIn, QueuesAreHeld DEF QueuesHold
    <2>2. CASE /\ writeCh # <<>> /\ hand' = Head(writeCh) /\ writeCh' = Tail(writeCh)
               /\ controlCh' = controlCh
        BY <1>0, <2>2, TailIn, QueuesAreHeld DEF QueuesHold
    <2>3. CASE UNCHANGED <<writeCh, controlCh>> /\ hand' \in {hand, "raw"}
        BY <2>3, QueuesAreHeld DEF QueuesHold
    <2> QED
        BY <1>2, <2>1, <2>2, <2>3
<1> QED
    BY <1>1, <1>3, QueuesShrink

\* The writer writes what it holds, or fails.
LEMMA WrittenKept ==
    ASSUME ClientTypeOK, ClientTypeOK', CallInv, write \/ ConnectReturns
    PROVE  CallInv'
<1>1. /\ UNCHANGED <<writeCh, controlCh, call, receipts, effects>> /\ hand' = "raw"
      /\ inbox' = inbox \/ Arrives(hand, conn)
      /\ conn # 0
    BY DEF write, ConnectReturns, queueVars, NextMessage, ClientTypeOK
<1>2. CASE Arrives(hand, conn)
    BY <1>1, <1>2, ArrivalKept
<1>3. CASE inbox' = inbox
    <2>1. QueuesHold(writeCh', controlCh', hand')
        BY <1>1, QueuesAreHeld DEF QueuesHold
    <2> QED
        BY <1>1, <1>3, <2>1, QueuesShrink
<1> QED
    BY <1>1, <1>2, <1>3

\* A message joins the queue that is meant for it.
LEMMA EnqueueHolds ==
    ASSUME ClientTypeOK, CallInv, NEW m \in Messages, enqueueLocked(m), hand' = hand,
           m # "raw" => ~OnItsWay(m)
    PROVE  /\ QueuesHold(writeCh', controlCh', hand')
           /\ \A c \in Calls : OnItsWay(c)' => OnItsWay(c) \/ c = m
<1>0. writeCh \in Seq(Messages) /\ controlCh \in Seq(Messages)
    BY DEF ClientTypeOK
<1>1. CASE ForControl(m)
    <2>1. controlCh' = Append(controlCh, m) /\ writeCh' = writeCh
        BY <1>1 DEF enqueueLocked
    <2>2. In(controlCh') = In(controlCh) \cup {m}
        BY <1>0, <2>1, AppendIn
    <2>3. Distinct(controlCh')
        BY <1>0, <2>1, AppendIn, QueuesAreHeld DEF QueuesHold, OnItsWay
    <2> QED
        BY <1>1, <2>1, <2>2, <2>3, QueuesAreHeld DEF QueuesHold, OnItsWay
<1>2. CASE ~ForControl(m)
    <2>1. writeCh' = Append(writeCh, m) /\ controlCh' = controlCh
        BY <1>2 DEF enqueueLocked
    <2>2. In(writeCh') = In(writeCh) \cup {m}
        BY <1>0, <2>1, AppendIn
    <2>3. Distinct(writeCh')
        BY <1>0, <2>1, AppendIn, QueuesAreHeld DEF QueuesHold, OnItsWay
    <2> QED
        BY <1>2, <2>1, <2>2, <2>3, QueuesAreHeld DEF QueuesHold, OnItsWay
<1> QED
    BY <1>1, <1>2

\* A push without a call changes no call.
LEMMA SendRawKept ==
    ASSUME ClientTypeOK, ClientTypeOK', CallInv, SendRaw
    PROVE  CallInv'
<1>1. UNCHANGED <<hand, call, inbox, receipts, effects>>
    BY DEF SendRaw, writerVars, panelVars
<1>2. QueuesHold(writeCh', controlCh', hand') /\ \A c \in Calls : OnItsWay(c)' => OnItsWay(c)
    BY <1>1, EnqueueHolds, ClientAssumption DEF SendRaw, Messages
<1> QED
    BY <1>1, <1>2, CallKept DEF CallInv, SuccessIsProcessed

\* A request is sent, by either channel.
LEMMA RequestKept ==
    ASSUME ClientTypeOK, ClientTypeOK', CallInv, NEW c \in Calls, Request(c)
    PROVE  CallInv'
<1>1. /\ UNCHANGED <<hand, inbox, receipts, effects>>
      /\ call[c].at = "request"
      /\ \A d \in Calls : d # c => call'[d] = call[d]
      /\ call'[c].at \in {"wait", "back"}
      /\ call'[c].reply \in {call[c].reply, "unavailable"}
    BY DEF Request, writerVars, panelVars, At, ClientTypeOK
<1>2. ~OnItsWay(c)
    BY <1>1 DEF CallInv, SentOnce, Unsent
<1>3. /\ QueuesHold(writeCh', controlCh', hand')
      /\ \A d \in Calls : OnItsWay(d)' => OnItsWay(d) \/ d = c
    <2>1. CASE enqueueLocked(c)
        BY <1>1, <1>2, <2>1, EnqueueHolds DEF Messages
    <2>2. CASE UNCHANGED <<writeCh, controlCh>>
        BY <1>1, <2>2, QueuesAreHeld DEF OnItsWay
    <2> QED
        BY <2>1, <2>2 DEF Request, queueVars
<1>4. ASSUME NEW d \in Calls
      PROVE  /\ OnItsWay(d)' => OnItsWay(d) \/ (call[d].at \in Unsent /\ call'[d].at \notin Unsent)
             /\ call'[d].at \in Unsent => call[d].at \in Unsent
             /\ call[d].at \in AfterHTTP => call'[d].at \in AfterHTTP
             /\ call'[d].reply = "ok" \/ call'[d].at = "ok" => effects[d] > 0
    BY <1>1, <1>3 DEF Unsent, AfterHTTP, CallInv, SuccessIsProcessed
<1> QED
    BY <1>1, <1>3, <1>4, CallKept

\* A caller goes on: it never returns to the socket, nor to before its HTTP
\* request, and takes for a success only what the panel has confirmed.
LEMMA CallerKept ==
    ASSUME ClientTypeOK, ClientTypeOK', CallInv, NEW c \in Calls,
           ChooseSocket(c) \/ WaitEnds(c) \/ RequestReturns(c) \/ Returned(c)
           \/ HTTPAnswered(c) \/ HTTPFails(c)
    PROVE  CallInv'
<1>1. /\ UNCHANGED <<writeCh, controlCh, hand, inbox, effects>> /\ receipts' \subseteq receipts
      /\ \A d \in Calls : d # c => call'[d] = call[d]
    BY DEF ChooseSocket, WaitEnds, RequestReturns, Returned, HTTPAnswered, HTTPFails, At,
           ClientTypeOK, queueVars, writerVars, panelVars
<1>2. /\ call'[c].at \in Unsent => call[c].at \in Unsent
      /\ call[c].at \in AfterHTTP => call'[c].at \in AfterHTTP
    BY DEF ChooseSocket, WaitEnds, RequestReturns, Returned, HTTPAnswered, HTTPFails, At,
           ClientTypeOK, Unsent, AfterHTTP
<1>3. call'[c].reply = "ok" \/ call'[c].at = "ok" => effects[c] > 0
    <2>1. call[c].reply = "ok" \/ call[c].at = "ok" => effects[c] > 0
        BY DEF CallInv, SuccessIsProcessed
    <2>2. CASE ChooseSocket(c) \/ WaitEnds(c) \/ HTTPFails(c)
        BY <2>1, <2>2 DEF ChooseSocket, WaitEnds, HTTPFails, At, ClientTypeOK
    <2>3. CASE RequestReturns(c)
        BY <2>1, <2>3 DEF RequestReturns, ClientTypeOK
    <2>4. CASE Returned(c)
        BY <2>1, <2>4, ClientAssumption DEF Returned, ClientTypeOK
    <2>5. CASE HTTPAnswered(c)
        <3>1. PICK r \in receipts : r.call = c /\ At(c, IF r.reply = "ok" THEN "ok" ELSE "failed")
            BY <2>5 DEF HTTPAnswered
        <3>2. r.reply = "ok" => effects[c] > 0
            BY <3>1 DEF CallInv, SuccessIsProcessed
        <3> QED
            BY <2>1, <3>1, <3>2 DEF At, ClientTypeOK
    <2> QED
        BY <2>2, <2>3, <2>4, <2>5
<1>4. \A d \in Calls : OnItsWay(d)' <=> OnItsWay(d)
    BY <1>1 DEF OnItsWay
<1>5. QueuesHold(writeCh', controlCh', hand')
    BY <1>1, QueuesAreHeld
<1>6. \A d \in Calls : call'[d].reply = "ok" \/ call'[d].at = "ok" => effects[d] > 0
    BY <1>1, <1>3 DEF CallInv, SuccessIsProcessed
<1> QED
    BY <1>1, <1>2, <1>4, <1>5, <1>6, CallKept

\* A receipt that is read keeps the invariant (receiveReceipt).
LEMMA ReceiptKept ==
    ASSUME ClientTypeOK, ClientTypeOK', CallInv, NEW r \in receipts, receiveReceipt(r)
    PROVE  CallInv'
<1>1. /\ UNCHANGED <<writeCh, controlCh, hand, inbox, effects>> /\ receipts' \subseteq receipts
      /\ r.call \in Calls
    BY DEF receiveReceipt, ClientTypeOK, Receipts, queueVars, writerVars
<1>2. ASSUME NEW c \in Calls
      PROVE  /\ call'[c].at = call[c].at
             /\ call'[c].reply = call[c].reply \/ (c = r.call /\ call'[c].reply = r.reply)
    BY <1>1 DEF receiveReceipt, ClientTypeOK
<1>3. \A c \in Calls : call'[c].reply = "ok" \/ call'[c].at = "ok" => effects[c] > 0
    BY <1>2 DEF CallInv, SuccessIsProcessed
<1>4. \A c \in Calls : OnItsWay(c)' <=> OnItsWay(c)
    BY <1>1 DEF OnItsWay
<1>5. QueuesHold(writeCh', controlCh', hand')
    BY <1>1, QueuesAreHeld
<1> QED
    BY <1>1, <1>2, <1>3, <1>4, <1>5, CallKept

\* No call exists at first.
LEMMA CallInvInit == ClientInit => CallInv
<1> SUFFICES ASSUME ClientInit PROVE CallInv
    OBVIOUS
<1>1. SentOnce
    BY EmptyIn, ClientAssumption DEF ClientInit, SentOnce, OnItsWay
<1>2. AtMostTwice
    <2>1. ASSUME NEW c \in Calls
          PROVE  effects[c] + (IF MayArrive(c) THEN 1 ELSE 0) + (IF MayArriveHTTP(c) THEN 1 ELSE 0) <= 2
        <3>1. effects[c] = 0
            BY DEF ClientInit
        <3> QED
            BY <3>1
    <2> QED
        BY <2>1 DEF AtMostTwice
<1>3. SuccessIsProcessed
    BY ClientAssumption DEF ClientInit, SuccessIsProcessed
<1> QED
    BY <1>1, <1>2, <1>3 DEF CallInv

\* Every step keeps the invariant.
LEMMA CallInvStep == ClientTypeOK /\ ClientTypeOK' /\ CallInv /\ [ClientNext]_clientVars => CallInv'
BY RunKept, TakenKept, WrittenKept, SendRawKept, RequestKept, CallerKept, SendHTTPKept, ReceiptKept,
   ServeKept DEF ClientNext

\* Each channel carries a call once, and what a caller takes for a success is
\* one of the panel's at most two.
THEOREM CallInvHolds == ClientSpec => []CallInv
BY CallInvInit, CallInvStep, ClientTypesCorrect, PTL DEF ClientSpec

-----------------------------------------------------------------------------
(***************************************************************************)
(* Both channels together are one call.                                    *)
(***************************************************************************)
\* Where a caller stands shows what its call has come to.
Shown(at) == IF at \in {"idle", "ok", "failed"} THEN at ELSE "asked"

\* The abstract outcome of each stage.
LEMMA OutcomeIs ==
    /\ Outcome = [c \in Calls |-> Shown(call[c].at)]
    /\ Outcome' = [c \in Calls |-> Shown(call'[c].at)]
BY DEF Outcome, Shown

\* One caller's step, seen from outside.
LEMMA OneOutcome ==
    ASSUME ClientTypeOK, NEW c \in Calls, NEW k, call' = [call EXCEPT ![c] = k]
    PROVE  /\ Outcome' = [Outcome EXCEPT ![c] = Shown(k.at)]
           /\ Outcome[c] = Shown(call[c].at)
           /\ Shown(k.at) = Shown(call[c].at) => Outcome' = Outcome
BY OutcomeIs DEF ClientTypeOK

\* Equal stages show the same outcome.
LEMMA SameOutcome ==
    ASSUME \A c \in Calls : Shown(call'[c].at) = Shown(call[c].at)
    PROVE  Outcome' = Outcome
BY OutcomeIs

\* A caller's step is a step of RemoteCall or a stutter.
LEMMA CallerShown ==
    ASSUME ClientTypeOK, CallInv, NEW c \in Calls,
           \/ ChooseSocket(c) \/ Request(c) \/ WaitEnds(c) \/ RequestReturns(c) \/ Returned(c)
           \/ SendHTTP(c) \/ HTTPAnswered(c) \/ HTTPFails(c)
    PROVE  \/ AbstractCall!Ask(c) \/ AbstractCall!Succeed(c) \/ AbstractCall!Fail(c)
           \/ UNCHANGED <<Outcome, effects>>
<1> DEFINE k == call'[c]
<1>1. call' = [call EXCEPT ![c] = k] /\ call[c] \in Entries /\ effects' = effects
    BY DEF ChooseSocket, Request, WaitEnds, RequestReturns, Returned, SendHTTP, HTTPAnswered,
           HTTPFails, At, ClientTypeOK, Entries, panelVars
<1> DEFINE old == Shown(call[c].at)
           new == Shown(k.at)
<1>2. \/ old = "idle" /\ new = "asked"
      \/ old = "asked" /\ new = "ok" /\ effects[c] > 0
      \/ old = "asked" /\ new = "failed"
      \/ old = new
    <2>1. CASE ChooseSocket(c) \/ Request(c) \/ WaitEnds(c) \/ SendHTTP(c)
        BY <1>1, <2>1 DEF ChooseSocket, Request, WaitEnds, SendHTTP, At, Entries, Shown, ClientTypeOK
    <2>2. CASE RequestReturns(c)
        BY <1>1, <2>2 DEF RequestReturns, Entries, Shown, ClientTypeOK
    <2>3. CASE HTTPFails(c)
        BY <1>1, <2>3 DEF HTTPFails, At, Entries, Shown, ClientTypeOK
    <2>4. CASE Returned(c)
        <3>1. call[c].at = "back" /\ k.at \in {"ok", "failed", "http"}
              /\ (k.at = "ok" => call[c].reply = "ok")
            BY <2>4 DEF Returned, ClientTypeOK
        <3> QED
            BY <3>1 DEF Shown, CallInv, SuccessIsProcessed
    <2>5. CASE HTTPAnswered(c)
        <3>1. PICK r \in receipts : r.call = c /\ At(c, IF r.reply = "ok" THEN "ok" ELSE "failed")
            BY <2>5 DEF HTTPAnswered
        <3>2. call[c].at = "answer" /\ k.at = IF r.reply = "ok" THEN "ok" ELSE "failed"
            BY <2>5, <3>1 DEF HTTPAnswered, At, ClientTypeOK
        <3> QED
            BY <3>1, <3>2 DEF Shown, CallInv, SuccessIsProcessed
    <2> QED
        BY <2>1, <2>2, <2>3, <2>4, <2>5
<1> HIDE DEF k
<1>3. /\ Outcome' = [Outcome EXCEPT ![c] = new] /\ Outcome[c] = old
      /\ old = new => Outcome' = Outcome
    BY <1>1, OneOutcome
<1> HIDE DEF old, new
<1> QED
    BY <1>1, <1>2, <1>3 DEF AbstractCall!Ask, AbstractCall!Succeed, AbstractCall!Fail

\* The panel's handling is RemoteCall's, or one it allows to be lost.
LEMMA ServeShown ==
    ASSUME ClientTypeOK, CallInv, NEW q \in inbox, Serve(q)
    PROVE  AbstractCall!Effect(q.call) \/ UNCHANGED <<Outcome, effects>>
<1> DEFINE c == q.call
<1>1. c \in Calls /\ effects[c] \in Nat
    BY DEF ClientTypeOK, Requests
<1>2. call' = call /\ Outcome' = Outcome
    BY SameOutcome DEF Serve
<1>3. effects' = effects \/ effects' = [effects EXCEPT ![c] = @ + 1]
    BY DEF Serve
<1>4. Outcome[c] # "idle"
    BY <1>1 DEF Outcome, CallInv, SentOnce, Unsent, AfterHTTP
<1>5. effects[c] < 2
    <2>1. MayArrive(c) \/ MayArriveHTTP(c)
        BY DEF MayArrive, MayArriveHTTP
    <2>2. effects[c] + (IF MayArrive(c) THEN 1 ELSE 0) + (IF MayArriveHTTP(c) THEN 1 ELSE 0) <= 2
        BY <1>1 DEF CallInv, AtMostTwice
    <2> QED
        BY <1>1, <2>1, <2>2
<1> QED
    BY <1>1, <1>2, <1>3, <1>4, <1>5 DEF AbstractCall!Effect

\* Every other step happens inside the client.
LEMMA InsideShown ==
    ASSUME ClientTypeOK,
           \/ Connect \/ SyncReady \/ Poll \/ Select \/ beginWrite \/ write \/ ConnectReturns
           \/ Cleared \/ Disconnected \/ SendRaw \/ QuarantineEnds \/ UNCHANGED clientVars
           \/ \E r \in receipts : receiveReceipt(r)
    PROVE  UNCHANGED <<Outcome, effects>>
<1>1. effects' = effects
    BY DEF Connect, SyncReady, Poll, Select, beginWrite, write, ConnectReturns, Cleared,
           Disconnected, SendRaw, QuarantineEnds, clientVars, receiveReceipt, panelVars
<1>2. ASSUME NEW c \in Calls PROVE call'[c].at = call[c].at
    <2>1. call' = call \/ Cleared \/ \E r \in receipts : receiveReceipt(r)
        BY DEF Connect, SyncReady, Poll, Select, beginWrite, write, ConnectReturns,
               Disconnected, SendRaw, QuarantineEnds, clientVars
    <2>2. Cleared => call'[c].at = call[c].at
        BY DEF Cleared, ClientTypeOK
    <2>3. ASSUME NEW r \in receipts, receiveReceipt(r) PROVE call'[c].at = call[c].at
        BY <2>3 DEF receiveReceipt, ClientTypeOK
    <2> QED
        BY <2>1, <2>2, <2>3
<1> QED
    BY <1>1, <1>2, SameOutcome

\* Every step implements one of RemoteCall or a stutter.
LEMMA CallRefined ==
    ClientTypeOK /\ CallInv /\ [ClientNext]_clientVars => [AbstractCall!CallNext]_<<Outcome, effects>>
<1> SUFFICES ASSUME ClientTypeOK, CallInv, [ClientNext]_clientVars
             PROVE  [AbstractCall!CallNext]_<<Outcome, effects>>
    OBVIOUS
<1>1. ASSUME NEW c \in Calls,
             \/ ChooseSocket(c) \/ Request(c) \/ WaitEnds(c) \/ RequestReturns(c) \/ Returned(c)
             \/ SendHTTP(c) \/ HTTPAnswered(c) \/ HTTPFails(c)
      PROVE  [AbstractCall!CallNext]_<<Outcome, effects>>
    BY <1>1, CallerShown DEF AbstractCall!CallNext
<1>2. ASSUME NEW q \in inbox, Serve(q) PROVE [AbstractCall!CallNext]_<<Outcome, effects>>
    <2>1. q.call \in Calls
        BY DEF ClientTypeOK, Requests
    <2> QED
        BY <1>2, <2>1, ServeShown DEF AbstractCall!CallNext
<1> QED
    BY <1>1, <1>2, InsideShown DEF ClientNext

\* Whoever calls the panel, over the socket and then over HTTP, may rely on
\* RemoteCall: the call ends once, succeeds only when the panel has processed
\* it, and is processed at most twice, however connections end and receipts
\* are delayed, and however many callers share the queues.
THEOREM ClientIsRemoteCall == ClientSpec => CallIsRemoteCall
<1>1. ClientInit => AbstractCall!CallInit
    BY DEF ClientInit, Outcome, AbstractCall!CallInit
<1>2. ClientTypeOK /\ CallInv /\ [ClientNext]_clientVars => [AbstractCall!CallNext]_AbstractCall!callVars
    BY CallRefined DEF AbstractCall!callVars
<1> QED
    BY <1>1, <1>2, ClientTypesCorrect, CallInvHolds, PTL
       DEF ClientSpec, CallIsRemoteCall, AbstractCall!CallSpec

-----------------------------------------------------------------------------
(***************************************************************************)
(* RealityRelay, the experimental entry (realityrelay/server.go,           *)
(* agentcli/reality_relay.go): a reload revokes what it should, the        *)
(* statistics are exact and the file is followed.                          *)
(***************************************************************************)

\* A list of clients gives one route for each.
LEMMA InRoutes ==
    /\ NoTarget \in Routes
    /\ \A c \in Configs : \A r \in AllRoutes(c) : r \in Routes
<1>1. NoTarget \in Routes
    BY DEF Routes
<1>2. ASSUME NEW c \in Configs, NEW r \in AllRoutes(c) PROVE r \in Routes
    <2>1. AllRoutes(c) \in {AllRoutes(d) : d \in Configs}
        OBVIOUS
    <2>2. r \in UNION {AllRoutes(d) : d \in Configs}
        BY <2>1
    <2> QED
        BY <2>2 DEF Routes
<1> QED
    BY <1>1, <1>2

\* identify and handle pick one of the routes of the configuration, or none.
LEMMA RouteType ==
    ASSUME NEW c \in Configs, NEW f
    PROVE  RouteOf(c, f) \in Routes
<1>1. CASE f.name \notin c.names \/ (Identify(c, f) = {} /\ c.fallback = NoTarget)
    BY <1>1, InRoutes DEF RouteOf
<1>2. CASE f.name \in c.names /\ Identify(c, f) # {}
    <2>1. RouteOf(c, f) \in Identify(c, f)
        BY <1>2 DEF RouteOf
    <2> QED
        BY <2>1, InRoutes DEF Identify, AllRoutes
<1>3. CASE f.name \in c.names /\ Identify(c, f) = {} /\ c.fallback # NoTarget
    <2> DEFINE r == [name |-> "fallback", key |-> NoTarget, sid |-> NoTarget, target |-> c.fallback]
    <2>1. r \in AllRoutes(c) /\ r.name = "fallback"
        BY <1>3 DEF AllRoutes
    <2> HIDE DEF r
    <2>2. RouteOf(c, f) \in AllRoutes(c)
        BY <1>3, <2>1 DEF RouteOf
    <2> QED
        BY <2>2, InRoutes
<1> QED
    BY <1>1, <1>2, <1>3

\* A client that is not there has no counters.
LEMMA NoPeerType == NoPeer \in Handlers /\ NoPeer.pc = "none" /\ NoPeer.counters = 0
<1>1. FirstRelay \in Configs /\ NoTarget \in Routes
    BY InRoutes DEF Configs
<1> QED
    BY <1>1 DEF NoPeer, Handlers

\* The parts of a handler have their types.
LEMMA PeerType ==
    ASSUME RelayTypeOK, NEW p \in Peers, NEW h \in Handlers
    PROVE  [peer EXCEPT ![p] = h] \in [Peers -> Handlers]
BY DEF RelayTypeOK

\* A handler that returned is one.
LEMMA LeaveType ==
    ASSUME RelayTypeOK, NEW p \in Peers, LeaveRelay(p)
    PROVE  peer' \in [Peers -> Handlers] /\ tracked' \in SUBSET (Peers \X {"client", "remote"})
BY NoPeerType DEF LeaveRelay, RelayTypeOK

\* Closing what is tracked keeps the types.
LEMMA CloseTrackedType ==
    ASSUME RelayTypeOK, CloseTracked
    PROVE  /\ peer' \in [Peers -> Handlers]
           /\ \A p \in Peers :
                /\ peer'[p].client = (peer[p].client /\ <<p, "client">> \notin tracked)
                /\ peer'[p].remote = (peer[p].remote /\ <<p, "remote">> \notin tracked)
                /\ peer'[p].pc = peer[p].pc /\ peer'[p].config = peer[p].config
                /\ peer'[p].flight = peer[p].flight /\ peer'[p].route = peer[p].route
                /\ peer'[p].counters = peer[p].counters
<1>1. ASSUME NEW p \in Peers
      PROVE  /\ peer'[p] \in Handlers
             /\ peer'[p].client = (peer[p].client /\ <<p, "client">> \notin tracked)
             /\ peer'[p].remote = (peer[p].remote /\ <<p, "remote">> \notin tracked)
             /\ peer'[p].pc = peer[p].pc /\ peer'[p].config = peer[p].config
             /\ peer'[p].flight = peer[p].flight /\ peer'[p].route = peer[p].route
             /\ peer'[p].counters = peer[p].counters
    <2> DEFINE a == peer[p].client /\ <<p, "client">> \notin tracked
               b == peer[p].remote /\ <<p, "remote">> \notin tracked
    <2>1. peer[p] \in Handlers /\ a \in BOOLEAN /\ b \in BOOLEAN
        BY DEF RelayTypeOK, Handlers
    <2>2. peer'[p] = [peer[p] EXCEPT !.client = a, !.remote = b]
        BY DEF CloseTracked
    <2> HIDE DEF a, b
    <2> QED
        BY <2>1, <2>2 DEF Handlers, a, b
<1>2. peer' = [p \in Peers |-> peer'[p]]
    BY DEF CloseTracked
<1> QED
    BY <1>1, <1>2

\* The counters of a configuration: those that are shared keep their numbers.
LEMMA NewCountersAre ==
    ASSUME RelayTypeOK, NEW c
    PROVE  /\ NewCounters(c) \in [DOMAIN NewCounters(c) -> [id : Nat, active : Nat]]
           /\ DOMAIN NewCounters(c) = {r.name : r \in AllRoutes(c)}
           /\ \A n \in DOMAIN NewCounters(c) :
                 \/ n \in DOMAIN relay.counters /\ NewCounters(c)[n] = relay.counters[n]
                 \/ n \notin DOMAIN relay.counters
                    /\ NewCounters(c)[n] = [id |-> relay.made + 1, active |-> 0]
<1>1. relay.made + 1 \in Nat
    BY DEF RelayTypeOK
<1>2. \A n \in DOMAIN relay.counters : relay.counters[n] \in [id : Nat, active : Nat]
    BY DEF RelayTypeOK
<1>3. [id |-> relay.made + 1, active |-> 0] \in [id : Nat, active : Nat]
    BY <1>1
<1> QED
    BY <1>2, <1>3 DEF NewCounters

-----------------------------------------------------------------------------
(***************************************************************************)
(* The shape of the steps that change the server.                          *)
(***************************************************************************)
LEMMA CountersOfType ==
    ASSUME RelayTypeOK, NEW p \in Peers
    PROVE  CountersOf(p) \in Nat
BY DEF CountersOf, RelayTypeOK

\* The server after one counter has changed.
LEMMA CounterMoves ==
    ASSUME RelayTypeOK, NEW n \in DOMAIN relay.counters, NEW k \in Nat,
           relay' = [relay EXCEPT !.counters[n].active = k]
    PROVE  /\ relay' = [config |-> relay.config, closed |-> relay.closed, made |-> relay.made,
                        counters |-> [relay.counters EXCEPT ![n].active = k]]
           /\ relay'.config = relay.config /\ relay'.closed = relay.closed /\ relay'.made = relay.made
           /\ DOMAIN relay'.counters = DOMAIN relay.counters
           /\ relay'.counters \in [DOMAIN relay.counters -> [id : Nat, active : Nat]]
           /\ \A m \in DOMAIN relay.counters :
                 /\ relay'.counters[m].id = relay.counters[m].id
                 /\ relay'.counters[m].active = IF m = n THEN k ELSE relay.counters[m].active
<1> DEFINE C == relay.counters
           D == [C EXCEPT ![n].active = k]
<1>1. relay = [config |-> relay.config, closed |-> relay.closed, made |-> relay.made, counters |-> C]
      /\ C \in [DOMAIN C -> [id : Nat, active : Nat]]
    BY DEF RelayTypeOK
<1>2. relay' = [config |-> relay.config, closed |-> relay.closed, made |-> relay.made,
                counters |-> D]
    BY <1>1
<1>3. /\ D \in [DOMAIN C -> [id : Nat, active : Nat]]
      /\ \A m \in DOMAIN C : /\ D[m].id = C[m].id
                             /\ D[m].active = IF m = n THEN k ELSE C[m].active
    <2> HIDE DEF C
    <2> QED
        BY <1>1
<1> HIDE DEF D
<1>4. relay'.config = relay.config /\ relay'.closed = relay.closed /\ relay'.made = relay.made
      /\ relay'.counters = D
    BY <1>2
<1> QED
    BY <1>2, <1>3, <1>4 DEF D
-----------------------------------------------------------------------------
(***************************************************************************)
(* The handlers a route counts.                                            *)
(***************************************************************************)
HandlersWith(P, n, id) == {p \in Peers : P[p].pc = "copy" /\ P[p].route.name = n /\ P[p].counters = id}

\* Which connections count towards the total.
LEMMA CountedIs ==
    /\ ActiveIsExact <=> \A n \in DOMAIN relay.counters :
          relay.counters[n].active = Cardinality(HandlersWith(peer, n, relay.counters[n].id))
    /\ ActiveIsExact' <=> \A n \in DOMAIN relay'.counters :
          relay'.counters[n].active = Cardinality(HandlersWith(peer', n, relay'.counters[n].id))
BY DEF ActiveIsExact, HandlersWith

\* The counted connections are finitely many.
LEMMA CountedFinite ==
    ASSUME NEW P, NEW n, NEW id
    PROVE  IsFiniteSet(HandlersWith(P, n, id)) /\ Cardinality(HandlersWith(P, n, id)) \in Nat
BY RelayAssumption, FS_Subset, FS_CardinalityType DEF HandlersWith

\* A handler that does not copy is not counted.
LEMMA NotCounted ==
    ASSUME ActiveIsExact, relay'.counters = relay.counters,
           \A p \in Peers : \/ peer'[p] = peer[p]
                            \/ peer'[p].pc # "copy" /\ peer[p].pc # "copy"
                            \/ /\ peer'[p].pc = peer[p].pc /\ peer'[p].route = peer[p].route
                               /\ peer'[p].counters = peer[p].counters
    PROVE  ActiveIsExact'
<1>1. \A n, id : HandlersWith(peer', n, id) = HandlersWith(peer, n, id)
    BY DEF HandlersWith
<1> QED
    BY <1>1, CountedIs

\* What a step on one handler has to keep, besides the statistics.
LEMMA HandlerKept ==
    ASSUME RelayTypeOK, RelayInv, NEW p \in Peers,
           \A q \in Peers \ {p} : peer'[q] = peer[q],
           UNCHANGED <<relayFile, follower>>, relay'.config = relay.config, relay'.closed = relay.closed,
           tracked \ {<<p, "client">>, <<p, "remote">>} \subseteq tracked',
           peer'[p].pc \in {"dial", "dialled", "copy"} =>
              peer'[p].route = RouteOf(peer'[p].config, peer'[p].flight),
           peer'[p].pc \notin {"none", "accepted"} => <<p, "client">> \in tracked',
           peer'[p].pc = "copy" =>
              /\ <<p, "remote">> \in tracked'
              /\ ~relay.closed /\ relay.config = peer'[p].config
    PROVE  HandlersRegistered' /\ FileIsNewer' /\ FileIsFollowed'
<1>1. HandlersRegistered'
    <2>1. ASSUME NEW q \in Peers \ {p}
          PROVE  /\ <<q, "client">> \in tracked => <<q, "client">> \in tracked'
                 /\ <<q, "remote">> \in tracked => <<q, "remote">> \in tracked'
        OBVIOUS
    <2> QED
        BY <2>1 DEF RelayInv, HandlersRegistered
<1> QED
    BY <1>1 DEF RelayInv, FileIsNewer, FileIsFollowed

\* A handler that does not copy, before and after its step.
LEMMA HandlerMoves ==
    ASSUME RelayTypeOK, RelayInv, NEW p \in Peers, NEW h \in Handlers,
           peer' = [peer EXCEPT ![p] = h], h.pc # "copy", peer[p].pc # "copy",
           UNCHANGED <<relay, relayFile, follower>>,
           tracked' \in SUBSET (Peers \X {"client", "remote"}),
           tracked \ {<<p, "client">>, <<p, "remote">>} \subseteq tracked',
           h.pc \in {"dial", "dialled"} => h.route = RouteOf(h.config, h.flight),
           h.pc \notin {"none", "accepted"} => <<p, "client">> \in tracked',
           h.counters <= relay.made
    PROVE  RelayTypeOK' /\ RelayInv'
<1>1. peer' \in [Peers -> Handlers] /\ peer'[p] = h /\ \A q \in Peers \ {p} : peer'[q] = peer[q]
    BY PeerType DEF RelayTypeOK
<1>2. RelayTypeOK'
    BY <1>1 DEF RelayTypeOK
<1>3. HandlersRegistered' /\ FileIsNewer' /\ FileIsFollowed'
    BY <1>1, HandlerKept
<1>4. CountersAreNew'
    BY <1>1 DEF RelayInv, CountersAreNew
<1>5. ActiveIsExact'
    BY <1>1, NotCounted DEF RelayInv
<1> QED
    BY <1>2, <1>3, <1>4, <1>5 DEF RelayInv

\* What one step of a handler does to the shared counters.
LEMMA ServeSteps ==
    ASSUME RelayTypeOK, RelayInv, NEW p \in Peers,
           \/ AcceptPeer(p) \/ TrackPeer(p) \/ BeginHandler(p) \/ FailHandler(p) \/ DialRoute(p)
           \/ \E f \in Flights : ReadFlight(p, f)
    PROVE  RelayTypeOK' /\ RelayInv'
<1>0. /\ peer[p] \in Handlers /\ peer[p].counters <= relay.made /\ relay.made \in Nat
      /\ tracked \in SUBSET (Peers \X {"client", "remote"}) /\ relay.config \in Configs
      /\ NoPeer \in Handlers /\ NoPeer.pc = "none" /\ NoPeer.counters <= relay.made
    BY NoPeerType DEF RelayTypeOK, RelayInv, CountersAreNew
<1>a. peer[p].pc \notin {"none", "accepted"} => <<p, "client">> \in tracked
    BY DEF RelayInv, HandlersRegistered
<1>1. CASE AcceptPeer(p)
    <2> DEFINE h == [NoPeer EXCEPT !.pc = "accepted", !.client = TRUE]
    <2>1. h \in Handlers /\ h.pc = "accepted" /\ h.counters <= relay.made
        BY <1>0 DEF Handlers
    <2>2. peer' = [peer EXCEPT ![p] = h] /\ peer[p].pc # "copy"
          /\ UNCHANGED <<relay, tracked, relayFile, follower>>
        BY <1>1 DEF AcceptPeer
    <2> HIDE DEF h
    <2> QED
        BY <1>0, <2>1, <2>2, <1>a, HandlerMoves
<1>2. CASE TrackPeer(p)
    <2>1. CASE relay.closed
        <3>1. peer' = [peer EXCEPT ![p] = NoPeer] /\ peer[p].pc # "copy"
              /\ UNCHANGED <<relay, tracked, relayFile, follower>>
            BY <1>2, <2>1 DEF TrackPeer
        <3>2. NoPeer.pc \notin {"dial", "dialled", "copy"}
            BY <1>0
        <3> QED
            BY <1>0, <3>1, <3>2, <1>a, HandlerMoves
    <2>2. CASE ~relay.closed
        <3> DEFINE h == [peer[p] EXCEPT !.pc = "start"]
        <3>1. h \in Handlers /\ h.pc = "start" /\ h.counters = peer[p].counters
            BY <1>0 DEF Handlers
        <3>2. peer' = [peer EXCEPT ![p] = h] /\ peer[p].pc # "copy"
              /\ tracked' = tracked \cup {<<p, "client">>} /\ UNCHANGED <<relay, relayFile, follower>>
            BY <1>2, <2>2 DEF TrackPeer
        <3>3. tracked' \in SUBSET (Peers \X {"client", "remote"}) /\ <<p, "client">> \in tracked'
              /\ tracked \ {<<p, "client">>, <<p, "remote">>} \subseteq tracked'
            BY <1>0, <3>2
        <3> HIDE DEF h
        <3> QED
            BY <1>0, <3>1, <3>2, <3>3, <1>a, HandlerMoves
    <2> QED
        BY <2>1, <2>2
<1>3. CASE BeginHandler(p)
    <2> DEFINE h == [peer[p] EXCEPT !.pc = "hello", !.config = relay.config]
    <2>1. h \in Handlers /\ h.pc = "hello" /\ h.counters = peer[p].counters
        BY <1>0 DEF Handlers
    <2>2. peer' = [peer EXCEPT ![p] = h] /\ peer[p].pc = "start"
          /\ UNCHANGED <<relay, tracked, relayFile, follower>>
        BY <1>3 DEF BeginHandler, RelayTypeOK
    <2> HIDE DEF h
    <2> QED
        BY <1>0, <2>1, <2>2, <1>a, HandlerMoves
<1>4. CASE FailHandler(p)
    <2>1. /\ peer' = [peer EXCEPT ![p] = NoPeer] /\ peer[p].pc # "copy"
          /\ tracked' = tracked \ {<<p, "client">>, <<p, "remote">>}
          /\ UNCHANGED <<relay, relayFile, follower>>
        BY <1>4 DEF FailHandler, LeaveRelay
    <2>2. NoPeer.pc \notin {"dial", "dialled", "copy"}
        BY <1>0
    <2>3. tracked' \in SUBSET (Peers \X {"client", "remote"})
          /\ tracked \ {<<p, "client">>, <<p, "remote">>} \subseteq tracked'
        BY <1>0, <2>1
    <2> QED
        BY <1>0, <2>1, <2>2, <2>3, <1>a, HandlerMoves
<1>5. CASE DialRoute(p)
    <2> DEFINE h == [peer[p] EXCEPT !.pc = "dialled", !.remote = TRUE]
    <2>1. h \in Handlers /\ h.pc = "dialled" /\ h.counters = peer[p].counters
          /\ h.route = peer[p].route /\ h.config = peer[p].config /\ h.flight = peer[p].flight
        BY <1>0 DEF Handlers
    <2>2. peer' = [peer EXCEPT ![p] = h] /\ peer[p].pc = "dial"
          /\ UNCHANGED <<relay, tracked, relayFile, follower>>
        BY <1>5 DEF DialRoute, RelayTypeOK
    <2>3. h.route = RouteOf(h.config, h.flight)
        BY <2>1, <2>2 DEF RelayInv, HandlersRegistered
    <2> HIDE DEF h
    <2> QED
        BY <1>0, <2>1, <2>2, <2>3, <1>a, HandlerMoves
<1>6. ASSUME NEW f \in Flights, ReadFlight(p, f) PROVE RelayTypeOK' /\ RelayInv'
    <2> DEFINE r == RouteOf(peer[p].config, f)
               h == [peer[p] EXCEPT !.pc = "dial", !.flight = f, !.route = r]
    <2>0. r \in Routes
        BY <1>0, RouteType DEF Handlers
    <2> HIDE DEF r
    <2>1. h \in Handlers /\ h.pc = "dial" /\ h.counters = peer[p].counters
          /\ h.route = r /\ h.config = peer[p].config /\ h.flight = f
        BY <1>0, <2>0 DEF Handlers
    <2>2. peer' = [peer EXCEPT ![p] = h] /\ peer[p].pc = "hello"
          /\ UNCHANGED <<relay, tracked, relayFile, follower>>
        BY <1>6 DEF ReadFlight, RelayTypeOK, r
    <2>3. h.route = RouteOf(h.config, h.flight)
        BY <2>1 DEF r
    <2> HIDE DEF h
    <2> QED
        BY <1>0, <2>1, <2>2, <2>3, <1>a, HandlerMoves
<1> QED
    BY <1>1, <1>2, <1>3, <1>4, <1>5, <1>6

\* A counter that goes with its handlers is exact, and so are the others.
LEMMA CountedWith ==
    ASSUME RelayTypeOK, RelayTypeOK', ActiveIsExact, NEW n \in DOMAIN relay.counters,
           DOMAIN relay'.counters = DOMAIN relay.counters,
           \A m \in DOMAIN relay.counters :
              /\ relay'.counters[m].id = relay.counters[m].id
              /\ m # n => /\ relay'.counters[m].active = relay.counters[m].active
                          /\ HandlersWith(peer', m, relay.counters[m].id) = HandlersWith(peer, m, relay.counters[m].id),
           relay'.counters[n].active = Cardinality(HandlersWith(peer', n, relay.counters[n].id))
    PROVE  ActiveIsExact'
BY CountedIs

\* A handler loads the configuration and is counted.
LEMMA EnterKept ==
    ASSUME RelayTypeOK, RelayInv, NEW p \in Peers, peer[p].pc = "dialled", StillCurrent(p), Enter(p),
           UNCHANGED <<relayFile, follower>>
    PROVE  RelayTypeOK' /\ RelayInv'
<1> DEFINE n == peer[p].route.name
           C == CountersOf(p)
           h == [peer[p] EXCEPT !.pc = "copy", !.counters = C]
<1>0. /\ peer[p] \in Handlers /\ relay.made \in Nat /\ C \in Nat
      /\ tracked \in SUBSET (Peers \X {"client", "remote"})
    BY CountersOfType DEF RelayTypeOK
<1>1. C = IF n \in DOMAIN relay.counters THEN relay.counters[n].id ELSE 0
    BY DEF CountersOf
<1>2. C <= relay.made /\ (C = 0 <=> n \notin DOMAIN relay.counters)
    BY <1>0, <1>1 DEF RelayInv, CountersAreNew
<1>3. peer' = [peer EXCEPT ![p] = h] /\ tracked' = tracked \cup {<<p, "remote">>}
    BY DEF Enter, RelayTypeOK
<1>4. relay' = IF C = 0 THEN relay
               ELSE [relay EXCEPT !.counters[n].active = relay.counters[n].active + 1]
    BY DEF Enter
<1> HIDE DEF C
<1>5. /\ h \in Handlers /\ h.pc = "copy" /\ h.counters = C /\ h.route = peer[p].route
      /\ h.config = peer[p].config /\ h.flight = peer[p].flight
    BY <1>0 DEF Handlers
<1> HIDE DEF h
<1>6. /\ peer' \in [Peers -> Handlers] /\ peer'[p] = h /\ \A q \in Peers \ {p} : peer'[q] = peer[q]
      /\ tracked' \in SUBSET (Peers \X {"client", "remote"})
    BY <1>0, <1>3, <1>5, PeerType DEF RelayTypeOK
<1>7. \A m, id : m # n \/ id # C => HandlersWith(peer', m, id) = HandlersWith(peer, m, id)
    BY <1>5, <1>6 DEF HandlersWith
<1>8. p \notin HandlersWith(peer, n, C) /\ HandlersWith(peer', n, C) = HandlersWith(peer, n, C) \cup {p}
    BY <1>5, <1>6 DEF HandlersWith
<1>9. /\ relay'.config = relay.config /\ relay'.closed = relay.closed /\ relay'.made = relay.made
      /\ RelayTypeOK' /\ CountersAreNew' /\ ActiveIsExact'
    <2>1. CASE C = 0
        <3>1. relay' = relay /\ n \notin DOMAIN relay.counters
            BY <1>2, <1>4, <2>1
        <3>2. RelayTypeOK'
            BY <1>6, <3>1 DEF RelayTypeOK
        <3>3. CountersAreNew'
            BY <1>2, <1>5, <1>6, <3>1 DEF RelayInv, CountersAreNew
        <3>4. ActiveIsExact'
            BY <1>7, <3>1, CountedIs DEF RelayInv
        <3> QED
            BY <3>1, <3>2, <3>3, <3>4
    <2>2. CASE C # 0
        <3> DEFINE k == relay.counters[n].active + 1
        <3>0. n \in DOMAIN relay.counters /\ C = relay.counters[n].id /\ k \in Nat
            BY <1>1, <1>2, <2>2 DEF RelayTypeOK
        <3>1. relay' = [relay EXCEPT !.counters[n].active = k]
            BY <1>4, <2>2
        <3>2. Cardinality(HandlersWith(peer', n, C)) = k
            <4>1. relay.counters[n].active = Cardinality(HandlersWith(peer, n, C))
                BY <3>0, CountedIs DEF RelayInv
            <4> QED
                BY <1>8, <4>1, CountedFinite, FS_AddElement
        <3> HIDE DEF k
        <3>3. /\ relay' = [config |-> relay.config, closed |-> relay.closed, made |-> relay.made,
                           counters |-> [relay.counters EXCEPT ![n].active = k]]
              /\ relay'.config = relay.config /\ relay'.closed = relay.closed
              /\ relay'.made = relay.made /\ DOMAIN relay'.counters = DOMAIN relay.counters
              /\ relay'.counters \in [DOMAIN relay.counters -> [id : Nat, active : Nat]]
              /\ \A m \in DOMAIN relay.counters :
                    /\ relay'.counters[m].id = relay.counters[m].id
                    /\ relay'.counters[m].active = IF m = n THEN k ELSE relay.counters[m].active
            BY <3>0, <3>1, CounterMoves
        <3>4. RelayTypeOK'
            BY <1>6, <3>3 DEF RelayTypeOK
        <3>5. CountersAreNew'
            BY <1>2, <1>5, <1>6, <3>3 DEF RelayInv, CountersAreNew
        <3>6. ActiveIsExact'
            <4>1. \A m \in DOMAIN relay.counters :
                     /\ relay'.counters[m].id = relay.counters[m].id
                     /\ m # n => /\ relay'.counters[m].active = relay.counters[m].active
                                 /\ HandlersWith(peer', m, relay.counters[m].id)
                                       = HandlersWith(peer, m, relay.counters[m].id)
                BY <1>7, <3>3
            <4>2. relay'.counters[n].active = Cardinality(HandlersWith(peer', n, relay.counters[n].id))
                BY <3>0, <3>2, <3>3
            <4>3. n \in DOMAIN relay.counters /\ DOMAIN relay'.counters = DOMAIN relay.counters
                BY <3>0, <3>3
            <4>4. ActiveIsExact
                BY DEF RelayInv
            <4> HIDE DEF n
            <4> QED
                BY <3>4, <4>1, <4>2, <4>3, <4>4, CountedWith
        <3> QED
            BY <3>3, <3>4, <3>5, <3>6
    <2> QED
        BY <2>1, <2>2
<1>10. /\ <<p, "client">> \in tracked' /\ <<p, "remote">> \in tracked'
       /\ tracked \ {<<p, "client">>, <<p, "remote">>} \subseteq tracked'
       /\ ~relay.closed /\ relay.config = peer'[p].config
       /\ peer'[p].route = RouteOf(peer'[p].config, peer'[p].flight)
    BY <1>3, <1>5, <1>6 DEF StillCurrent, RelayInv, HandlersRegistered
<1>11. HandlersRegistered' /\ FileIsNewer' /\ FileIsFollowed'
    BY <1>6, <1>9, <1>10, HandlerKept
<1> QED
    BY <1>9, <1>11 DEF RelayInv

\* A handler returns and takes itself out.
LEMMA FinishKept ==
    ASSUME RelayTypeOK, RelayInv, NEW p \in Peers, FinishCopy(p)
    PROVE  RelayTypeOK' /\ RelayInv'
<1> DEFINE n == peer[p].route.name
           C == peer[p].counters
<1>0. /\ peer[p] \in Handlers /\ relay.made \in Nat /\ C \in Nat /\ peer[p].pc = "copy"
      /\ tracked \in SUBSET (Peers \X {"client", "remote"})
      /\ NoPeer \in Handlers /\ NoPeer.pc = "none" /\ NoPeer.counters <= relay.made
      /\ UNCHANGED <<relayFile, follower>>
    BY NoPeerType DEF RelayTypeOK, FinishCopy, Handlers
<1>1. peer' = [peer EXCEPT ![p] = NoPeer] /\ tracked' = tracked \ {<<p, "client">>, <<p, "remote">>}
    BY DEF FinishCopy, LeaveRelay
<1>2. relay' = IF n \in DOMAIN relay.counters /\ relay.counters[n].id = C
               THEN [relay EXCEPT !.counters[n].active = relay.counters[n].active - 1] ELSE relay
    BY DEF FinishCopy
<1>3. /\ peer' \in [Peers -> Handlers] /\ peer'[p] = NoPeer /\ \A q \in Peers \ {p} : peer'[q] = peer[q]
      /\ tracked' \in SUBSET (Peers \X {"client", "remote"})
    BY <1>0, <1>1, PeerType DEF RelayTypeOK
<1>4. \A m, id : m # n \/ id # C => HandlersWith(peer', m, id) = HandlersWith(peer, m, id)
    BY <1>0, <1>3 DEF HandlersWith
<1>5. p \in HandlersWith(peer, n, C) /\ HandlersWith(peer', n, C) = HandlersWith(peer, n, C) \ {p}
    BY <1>0, <1>3 DEF HandlersWith
<1>6. /\ relay'.config = relay.config /\ relay'.closed = relay.closed /\ relay'.made = relay.made
      /\ RelayTypeOK' /\ CountersAreNew' /\ ActiveIsExact'
    <2>1. CASE ~(n \in DOMAIN relay.counters /\ relay.counters[n].id = C)
        <3>1. relay' = relay
            BY <1>2, <2>1
        <3>2. RelayTypeOK'
            BY <1>0, <1>3, <3>1 DEF RelayTypeOK
        <3>3. CountersAreNew'
            BY <1>0, <1>3, <3>1 DEF RelayInv, CountersAreNew
        <3>4. ActiveIsExact'
            BY <1>4, <2>1, <3>1, CountedIs DEF RelayInv
        <3> QED
            BY <3>1, <3>2, <3>3, <3>4
    <2>2. CASE n \in DOMAIN relay.counters /\ relay.counters[n].id = C
        <3> DEFINE k == relay.counters[n].active - 1
        <3>1. relay' = [relay EXCEPT !.counters[n].active = k]
            BY <1>2, <2>2
        <3>2. Cardinality(HandlersWith(peer', n, C)) = k /\ k \in Nat
            <4>1. relay.counters[n].active = Cardinality(HandlersWith(peer, n, C))
                BY <2>2, CountedIs DEF RelayInv
            <4>2. Cardinality(HandlersWith(peer', n, C)) = Cardinality(HandlersWith(peer, n, C)) - 1
                <5> DEFINE S == HandlersWith(peer, n, C)
                <5>1. IsFiniteSet(S) /\ p \in S /\ HandlersWith(peer', n, C) = S \ {p}
                    BY <1>5, CountedFinite
                <5> HIDE DEF S
                <5>2. Cardinality(S \ {p}) = Cardinality(S) - 1
                    BY <5>1, FS_RemoveElement
                <5> QED
                    BY <5>1, <5>2 DEF S
            <4>3. Cardinality(HandlersWith(peer', n, C)) \in Nat
                BY CountedFinite
            <4> QED
                BY <4>1, <4>2, <4>3
        <3> HIDE DEF k
        <3>3. /\ relay' = [config |-> relay.config, closed |-> relay.closed, made |-> relay.made,
                           counters |-> [relay.counters EXCEPT ![n].active = k]]
              /\ relay'.config = relay.config /\ relay'.closed = relay.closed
              /\ relay'.made = relay.made /\ DOMAIN relay'.counters = DOMAIN relay.counters
              /\ relay'.counters \in [DOMAIN relay.counters -> [id : Nat, active : Nat]]
              /\ \A m \in DOMAIN relay.counters :
                    /\ relay'.counters[m].id = relay.counters[m].id
                    /\ relay'.counters[m].active = IF m = n THEN k ELSE relay.counters[m].active
            BY <2>2, <3>1, <3>2, CounterMoves
        <3>4. RelayTypeOK'
            BY <1>0, <1>3, <3>3 DEF RelayTypeOK
        <3>5. CountersAreNew'
            BY <1>0, <1>3, <3>3 DEF RelayInv, CountersAreNew
        <3>6. ActiveIsExact'
            <4>1. \A m \in DOMAIN relay.counters :
                     /\ relay'.counters[m].id = relay.counters[m].id
                     /\ m # n => /\ relay'.counters[m].active = relay.counters[m].active
                                 /\ HandlersWith(peer', m, relay.counters[m].id)
                                       = HandlersWith(peer, m, relay.counters[m].id)
                BY <1>4, <3>3
            <4>2. relay'.counters[n].active = Cardinality(HandlersWith(peer', n, relay.counters[n].id))
                BY <2>2, <3>2, <3>3
            <4>3. n \in DOMAIN relay.counters /\ DOMAIN relay'.counters = DOMAIN relay.counters
                BY <2>2, <3>3
            <4>4. ActiveIsExact
                BY DEF RelayInv
            <4> HIDE DEF n
            <4> QED
                BY <3>4, <4>1, <4>2, <4>3, <4>4, CountedWith
        <3> QED
            BY <3>3, <3>4, <3>5, <3>6
    <2> QED
        BY <2>1, <2>2
<1>7. HandlersRegistered' /\ FileIsNewer' /\ FileIsFollowed'
    <2>1. tracked \ {<<p, "client">>, <<p, "remote">>} \subseteq tracked'
        BY <1>1
    <2>2. peer'[p].pc \notin {"start", "hello", "dial", "dialled", "copy"} /\ peer'[p].pc = "none"
        BY <1>0, <1>3
    <2> QED
        BY <1>0, <1>3, <1>6, <2>1, <2>2, HandlerKept
<1> QED
    BY <1>6, <1>7 DEF RelayInv

\* A handler registers, or finds itself revoked.
LEMMA RegisterKept ==
    ASSUME RelayTypeOK, RelayInv, NEW p \in Peers, RegisterRemote(p)
    PROVE  RelayTypeOK' /\ RelayInv'
<1>1. CASE StillCurrent(p)
    BY <1>1, EnterKept DEF RegisterRemote
<1>2. CASE ~StillCurrent(p)
    <2>1. /\ peer' = [peer EXCEPT ![p] = NoPeer] /\ peer[p].pc # "copy"
          /\ tracked' = tracked \ {<<p, "client">>, <<p, "remote">>}
          /\ UNCHANGED <<relay, relayFile, follower>>
        BY <1>2 DEF RegisterRemote, LeaveRelay
    <2>2. NoPeer \in Handlers /\ NoPeer.pc = "none" /\ NoPeer.counters <= relay.made
        BY NoPeerType DEF RelayTypeOK
    <2>3. tracked' \in SUBSET (Peers \X {"client", "remote"})
          /\ tracked \ {<<p, "client">>, <<p, "remote">>} \subseteq tracked'
        BY <2>1 DEF RelayTypeOK
    <2>4. NoPeer.pc \notin {"start", "hello", "dial", "dialled", "copy"}
        BY <2>2
    <2> QED
        BY <2>1, <2>2, <2>3, <2>4, HandlerMoves
<1> QED
    BY <1>1, <1>2

\* Whoever copies has both connections registered, and loses both.
LEMMA EverybodyClosed ==
    ASSUME RelayTypeOK, RelayInv, CloseTracked, tracked' = tracked
    PROVE  HandlersRegistered'
<1>1. ASSUME NEW p \in Peers
      PROVE  /\ peer'[p].pc \notin {"none", "accepted"} => <<p, "client">> \in tracked'
             /\ peer'[p].pc \in {"dial", "dialled", "copy"} =>
                  peer'[p].route = RouteOf(peer'[p].config, peer'[p].flight)
             /\ peer'[p].pc = "copy" => /\ <<p, "remote">> \in tracked'
                                        /\ ~(peer'[p].client \/ peer'[p].remote)
    BY CloseTrackedType DEF RelayInv, HandlersRegistered
<1> QED
    BY <1>1 DEF HandlersRegistered

\* Closing connections keeps the counters.
LEMMA CloseKept ==
    ASSUME RelayTypeOK, RelayInv, CloseRelay
    PROVE  RelayTypeOK' /\ RelayInv'
<1>1. /\ relay'.config = relay.config /\ relay'.closed = TRUE /\ relay'.made = relay.made
      /\ relay'.counters = relay.counters
      /\ relay' = [config |-> relay.config, closed |-> TRUE, made |-> relay.made,
                   counters |-> relay.counters]
    BY DEF CloseRelay, RelayTypeOK
<1>2. CloseTracked /\ UNCHANGED <<tracked, relayFile, follower>>
    BY DEF CloseRelay
<1>3. RelayTypeOK'
    BY <1>1, <1>2, CloseTrackedType DEF RelayTypeOK
<1>4. HandlersRegistered'
    BY <1>2, EverybodyClosed
<1>5. CountersAreNew' /\ ActiveIsExact'
    BY <1>1, <1>2, CloseTrackedType, NotCounted DEF RelayInv, CountersAreNew
<1>6. FileIsNewer' /\ FileIsFollowed'
    BY <1>1, <1>2 DEF RelayInv, FileIsNewer, FileIsFollowed
<1> QED
    BY <1>3, <1>4, <1>5, <1>6 DEF RelayInv

\* Changes of the file, and a look at its modification time.
LEMMA FileKept ==
    ASSUME RelayTypeOK, RelayInv, StatRelayFile \/ \E c \in RelayConfigs : WriteRelayFile(c)
    PROVE  RelayTypeOK' /\ RelayInv'
<1>1. UNCHANGED <<relay, peer, tracked>>
    BY DEF StatRelayFile, WriteRelayFile
<1>2. RelayTypeOK' /\ FileIsNewer' /\ FileIsFollowed'
    <2>1. CASE StatRelayFile
        BY <1>1, <2>1 DEF StatRelayFile, RelayTypeOK, RelayInv, FileIsNewer, FileIsFollowed
    <2>2. ASSUME NEW c \in RelayConfigs, WriteRelayFile(c)
          PROVE  RelayTypeOK' /\ FileIsNewer' /\ FileIsFollowed'
        <3>1. relayFile' = [mod |-> relayFile.mod + 1, content |-> c] /\ follower' = follower
            BY <2>2 DEF WriteRelayFile
        <3>2. RelayTypeOK'
            BY <1>1, <3>1 DEF RelayTypeOK, Configs
        <3>3. follower.applied < relayFile'.mod /\ follower.stat < relayFile'.mod
            BY <3>1 DEF RelayTypeOK, RelayInv, FileIsNewer
        <3>4. follower.applied # relayFile'.mod
            BY <3>1, <3>3 DEF RelayTypeOK
        <3> QED
            BY <3>1, <3>2, <3>3, <3>4 DEF RelayTypeOK, FileIsNewer, FileIsFollowed
    <2> QED
        BY <2>1, <2>2
<1>3. HandlersRegistered' /\ CountersAreNew' /\ ActiveIsExact'
    BY <1>1, NotCounted DEF RelayInv, HandlersRegistered, CountersAreNew
<1> QED
    BY <1>2, <1>3 DEF RelayInv

\* A configuration takes over: its new counters are those of no handler.
LEMMA TakesOver ==
    ASSUME RelayTypeOK, RelayInv, NEW c \in Configs, CloseTracked,
           relay' = [relay EXCEPT !.config = c, !.counters = NewCounters(c), !.made = relay.made + 1],
           relayFile' = relayFile, tracked' = tracked, follower' \in [applied : Nat, stat : Nat]
    PROVE  /\ RelayTypeOK' /\ HandlersRegistered' /\ CountersAreNew' /\ ActiveIsExact'
           /\ relay'.config = c /\ relay'.closed = relay.closed
<1>1. /\ relay'.config = c /\ relay'.closed = relay.closed /\ relay'.made = relay.made + 1
      /\ relay'.counters = NewCounters(c)
      /\ relay' = [config |-> c, closed |-> relay.closed, made |-> relay.made + 1,
                   counters |-> NewCounters(c)]
    BY DEF RelayTypeOK
<1> DEFINE D == NewCounters(c)
<1>0. /\ D \in [DOMAIN D -> [id : Nat, active : Nat]] /\ relay'.counters = D
      /\ \A n \in DOMAIN D : \/ n \in DOMAIN relay.counters /\ D[n] = relay.counters[n]
                             \/ D[n] = [id |-> relay.made + 1, active |-> 0]
    BY <1>1, NewCountersAre
<1> HIDE DEF D
<1>2. RelayTypeOK'
    <2>1. peer' \in [Peers -> Handlers] /\ relay.made + 1 \in Nat
        BY CloseTrackedType DEF RelayTypeOK
    <2> QED
        BY <1>0, <1>1, <2>1 DEF RelayTypeOK
<1>3. CountersAreNew'
    <2>1. \A n \in DOMAIN relay.counters : relay.counters[n].id \in 1..relay.made
        BY DEF RelayInv, CountersAreNew
    <2>2. \A n \in DOMAIN relay'.counters : relay'.counters[n].id \in 1..relay'.made
        <3>1. ASSUME NEW n \in DOMAIN D PROVE D[n].id \in 1..relay.made + 1
            BY <1>0, <2>1, <3>1 DEF RelayTypeOK
        <3> QED
            BY <1>0, <1>1, <3>1
    <2>3. \A p \in Peers : peer'[p].counters \in Nat /\ peer'[p].counters <= relay.made
        BY CloseTrackedType DEF RelayInv, CountersAreNew, RelayTypeOK, Handlers
    <2>4. \A p \in Peers : peer'[p].counters <= relay'.made
        BY <1>1, <2>3 DEF RelayTypeOK
    <2> QED
        BY <2>2, <2>4 DEF CountersAreNew
<1>4. ActiveIsExact'
    <2>1. ASSUME NEW n \in DOMAIN relay'.counters
          PROVE  relay'.counters[n].active = Cardinality(HandlersWith(peer', n, relay'.counters[n].id))
        <3>1. \A id : HandlersWith(peer', n, id) = HandlersWith(peer, n, id)
            BY CloseTrackedType DEF HandlersWith
        <3>2. CASE n \in DOMAIN relay.counters /\ relay'.counters[n] = relay.counters[n]
            BY <3>1, <3>2, CountedIs DEF RelayInv
        <3>3. CASE relay'.counters[n] = [id |-> relay.made + 1, active |-> 0]
            <4>1. relay'.counters[n].id = relay.made + 1 /\ relay'.counters[n].active = 0
                BY <3>3
            <4>2. \A p \in Peers : peer[p].counters # relay.made + 1
                BY DEF RelayInv, CountersAreNew, RelayTypeOK, Handlers
            <4>3. HandlersWith(peer, n, relay.made + 1) = {}
                BY <4>2 DEF HandlersWith
            <4> QED
                BY <3>1, <4>1, <4>3, FS_EmptySet
        <3> QED
            BY <1>0, <3>2, <3>3
    <2> QED
        BY <2>1, CountedIs
<1> QED
    BY <1>1, <1>2, <1>3, <1>4, EverybodyClosed

\* Reload replaces the configuration and closes the revoked.
LEMMA ReloadKept ==
    ASSUME RelayTypeOK, RelayInv, ReloadRelay
    PROVE  RelayTypeOK' /\ RelayInv'
<1> DEFINE c == relayFile.content
           ok == Compiles(c) /\ ~relay.closed /\ c.listen = relay.config.listen
<1>1. c \in Configs /\ UNCHANGED <<tracked, relayFile>>
    BY DEF ReloadRelay, RelayTypeOK
<1>2. follower' = [applied |-> IF ok THEN follower.stat ELSE follower.applied, stat |-> NoStat]
    BY DEF ReloadRelay
<1>3. /\ follower' \in [applied : Nat, stat : Nat] /\ FileIsNewer'
      /\ ok => follower'.applied = follower.stat
      /\ ~ok => follower'.applied = follower.applied
    BY <1>1, <1>2 DEF RelayTypeOK, RelayInv, FileIsNewer, NoStat
<1>4. /\ RelayTypeOK' /\ HandlersRegistered' /\ CountersAreNew' /\ ActiveIsExact'
      /\ relay'.closed = relay.closed
      /\ ok => relay'.config = c
      /\ ~ok => relay'.config = relay.config
    <2>1. CASE ok /\ c # relay.config
        <3>1. /\ relay' = [relay EXCEPT !.config = c, !.counters = NewCounters(c),
                                        !.made = relay.made + 1]
              /\ CloseTracked
            BY <2>1 DEF ReloadRelay
        <3> QED
            BY <1>1, <1>3, <2>1, <3>1, TakesOver
    <2>2. CASE ~(ok /\ c # relay.config)
        <3>1. UNCHANGED <<relay, peer>>
            BY <2>2 DEF ReloadRelay
        <3>2. RelayTypeOK' /\ HandlersRegistered' /\ CountersAreNew'
            BY <1>1, <1>3, <3>1 DEF RelayTypeOK, RelayInv, HandlersRegistered, CountersAreNew
        <3>3. ActiveIsExact'
            BY <3>1, NotCounted DEF RelayInv
        <3> QED
            BY <2>2, <3>1, <3>2, <3>3
    <2> QED
        BY <2>1, <2>2
<1>5. FileIsFollowed'
    BY <1>1, <1>3, <1>4 DEF RelayInv, FileIsFollowed
<1> QED
    BY <1>3, <1>4, <1>5 DEF RelayInv

-----------------------------------------------------------------------------
\* The relay starts without connections.
LEMMA RelayInitHolds == RelayInit => RelayTypeOK /\ RelayInv
<1> SUFFICES ASSUME RelayInit PROVE RelayTypeOK /\ RelayInv
    OBVIOUS
<1>1. /\ relay.closed = FALSE /\ relay.config = FirstRelay /\ relay.made = 1
      /\ relay.counters = [n \in {r.name : r \in AllRoutes(FirstRelay)} |-> [id |-> 1, active |-> 0]]
      /\ relay = [config |-> FirstRelay, closed |-> FALSE, made |-> 1, counters |-> relay.counters]
    BY DEF RelayInit
<1>2. /\ \A p \in Peers : peer[p] = NoPeer
      /\ peer \in [Peers -> Handlers]
    BY NoPeerType DEF RelayInit
<1>3. /\ relay.counters \in [DOMAIN relay.counters -> [id : Nat, active : Nat]]
      /\ \A n \in DOMAIN relay.counters : relay.counters[n].id = 1 /\ relay.counters[n].active = 0
    BY <1>1
<1>4. /\ relayFile.mod = 1 /\ relayFile.content = FirstRelay /\ follower.applied = 1
      /\ follower.stat = 0 /\ tracked = {}
      /\ relayFile \in [mod : Nat, content : Configs] /\ follower \in [applied : Nat, stat : Nat]
    BY DEF RelayInit, NoStat, Configs
<1>5. RelayTypeOK
    BY <1>1, <1>2, <1>3, <1>4 DEF RelayTypeOK, Configs
<1>6. HandlersRegistered
    BY <1>2, NoPeerType DEF HandlersRegistered
<1>7. CountersAreNew
    BY <1>1, <1>2, <1>3, NoPeerType DEF CountersAreNew
<1>8. ActiveIsExact
    <2>1. \A n, id : HandlersWith(peer, n, id) = {}
        BY <1>2, NoPeerType DEF HandlersWith
    <2> QED
        BY <1>3, <2>1, CountedIs, FS_EmptySet
<1>9. FileIsNewer /\ FileIsFollowed
    BY <1>1, <1>4 DEF FileIsNewer, FileIsFollowed
<1> QED
    BY <1>5, <1>6, <1>7, <1>8, <1>9 DEF RelayInv

\* Every step keeps the invariant.
LEMMA RelayStepHolds == RelayTypeOK /\ RelayInv /\ [RelayNext]_relayVars => RelayTypeOK' /\ RelayInv'
<1> SUFFICES ASSUME RelayTypeOK, RelayInv, [RelayNext]_relayVars PROVE RelayTypeOK' /\ RelayInv'
    OBVIOUS
<1>1. CASE UNCHANGED relayVars
    <2>1. RelayTypeOK'
        BY <1>1 DEF relayVars, RelayTypeOK
    <2>2. ActiveIsExact'
        BY <1>1, NotCounted DEF relayVars, RelayInv
    <2>3. HandlersRegistered' /\ CountersAreNew' /\ FileIsNewer' /\ FileIsFollowed'
        BY <1>1 DEF relayVars, RelayInv, HandlersRegistered, CountersAreNew, FileIsNewer, FileIsFollowed
    <2> QED
        BY <2>1, <2>2, <2>3 DEF RelayInv
<1>2. CASE RelayNext
    BY <1>2, CloseKept, FileKept, ReloadKept, ServeSteps, RegisterKept, FinishKept DEF RelayNext
<1> QED
    BY <1>1, <1>2

\* Handlers are registered as long as they copy, a counter made anew is that of
\* no old handler, and nothing newer than the file is known of it.
THEOREM RelayInvHolds == RelaySpec => [](RelayTypeOK /\ RelayInv)
BY RelayInitHolds, RelayStepHolds, PTL DEF RelaySpec

\* Server.Reload, handle and relayConfigWatcher.check, for every number of
\* connections, routes and configurations: nobody stays connected whom the
\* configuration of now sends elsewhere, a route counts exactly its handlers,
\* and a modification time taken as applied is that of the configuration in use.
THEOREM RelayIsCurrent == RelaySpec => []RelayEntryHolds
<1>1. RelayInv => RelayEntryHolds
    BY DEF RelayInv, HandlersRegistered, RelayEntryHolds, NobodyRevoked
<1> QED
    BY <1>1, RelayInvHolds, PTL

-----------------------------------------------------------------------------
(***************************************************************************)
(* Probing, the measurements of outbounds (probe.go, probe_health.go): the *)
(* results are those of the targets of now, and what a node says of one    *)
(* agrees with its last measurements, for every set of nodes and places.   *)
(***************************************************************************)

\* A measurement more repeats the last one, or repeats nothing.
LEMMA TwiceAppend ==
    ASSUME NEW s \in Seq(BOOLEAN), s # <<>>, NEW ok \in BOOLEAN
    PROVE  /\ Twice(Append(s, ok)) =
                IF ok = s[Len(s)] THEN Twice(s) \cup {Len(s) + 1} ELSE Twice(s)
           /\ Twice(s) \subseteq 2 .. Len(s)
           /\ Append(s, ok)[Len(Append(s, ok))] = ok
           /\ Len(Append(s, ok)) = Len(s) + 1
           /\ Len(s) \in Nat \ {0}
           /\ \A i \in 1 .. Len(s) : Append(s, ok)[i] = s[i]
<1> DEFINE t == Append(s, ok)
<1>1. /\ Len(s) \in Nat \ {0}
      /\ t \in Seq(BOOLEAN)
      /\ Len(t) = Len(s) + 1 /\ t[Len(t)] = ok
      /\ \A i \in 1 .. Len(s) : t[i] = s[i]
    OBVIOUS
<1> HIDE DEF t
<1>2. \A i \in 2 .. Len(s) : i \in 1 .. Len(s) /\ i - 1 \in 1 .. Len(s)
    BY <1>1
<1>3. \A i \in 2 .. Len(s) : t[i] = s[i] /\ t[i - 1] = s[i - 1]
    BY <1>1, <1>2
<1>4. Len(s) + 1 \in 2 .. Len(t) /\ Len(s) + 1 - 1 = Len(s) /\ Len(s) \in 1 .. Len(s)
    BY <1>1
<1>5. t[Len(s) + 1] = ok /\ t[Len(s) + 1 - 1] = s[Len(s)]
    BY <1>1, <1>4
<1>6. \A i : i \in 2 .. Len(t) <=> i \in 2 .. Len(s) \/ i = Len(s) + 1
    BY <1>1
<1>7. Twice(s) \subseteq 2 .. Len(s)
    BY DEF Twice
<1>8. CASE ok = s[Len(s)]
    <2>1. \A i : i \in Twice(t) <=> i \in Twice(s) \/ i = Len(s) + 1
        BY <1>3, <1>5, <1>6, <1>8 DEF Twice
    <2> QED
        BY <2>1, <1>1, <1>7, <1>8 DEF t
<1>9. CASE ok # s[Len(s)]
    <2>1. \A i : i \in Twice(t) <=> i \in Twice(s)
        BY <1>3, <1>5, <1>6, <1>9 DEF Twice
    <2> QED
        BY <2>1, <1>1, <1>7, <1>9 DEF t
<1> QED
    BY <1>8, <1>9

\* The greatest of a set of numbers is what CHOOSE finds.
LEMMA GreatestIsChosen ==
    ASSUME NEW S \in SUBSET Nat, NEW m \in S, \A j \in S : j <= m
    PROVE  (CHOOSE i \in S : \A j \in S : j <= i) = m
<1>1. \A i \in S : (\A j \in S : j <= i) => i = m
    <2> SUFFICES ASSUME NEW i \in S, \A j \in S : j <= i PROVE i = m
        OBVIOUS
    <2>1. i <= m /\ m <= i /\ i \in Nat /\ m \in Nat
        OBVIOUS
    <2> QED
        BY <2>1
<1> QED
    BY <1>1

\* A first measurement gives the result.
LEMMA MeasuredFirst ==
    ASSUME NEW n, NEW place \in Targets, NEW ok \in BOOLEAN, seconds \in Nat
    PROVE  /\ Recorded(NoResult, place, ok) \in Results
           /\ Recorded(NoResult, place, ok).place = place
           /\ Measured(Recorded(NoResult, place, ok), Append(<<>>, ok))
<1> DEFINE t == Append(<<>>, ok)
           r == Recorded(NoResult, place, ok)
<1>1. Len(t) = 1 /\ t[1] = ok
    OBVIOUS
<1> HIDE DEF t
<1>2. Twice(t) = {}
    BY <1>1 DEF Twice
<1>3. /\ r.place = place /\ r.healthy = ok /\ r.checked = seconds
      /\ r.good = (IF ok THEN 1 ELSE 0) /\ r.bad = (IF ok THEN 0 ELSE 1)
      /\ r = [place |-> r.place, checked |-> r.checked, good |-> r.good, bad |-> r.bad,
              healthy |-> r.healthy]
    BY DEF Recorded, NoResult
<1> HIDE DEF r
<1>4. r \in Results
    <2>1. r.good \in 0 .. 2 /\ r.bad \in 0 .. 2
        BY <1>3
    <2> QED
        BY <1>3, <2>1 DEF Results
<1>5. Measured(r, t)
    <2>1. Agreeing(t) = 1
        BY <1>1, <1>2 DEF Agreeing
    <2>2. Debounced(t) = ok
        BY <1>1, <1>2 DEF Debounced
    <2>3. t[Len(t)] = ok
        BY <1>1
    <2> QED
        BY <1>2, <1>3, <2>1, <2>2, <2>3 DEF Measured
<1> QED
    BY <1>3, <1>4, <1>5 DEF r, t

\* A further measurement that repeats the last one settles the result; another
\* leaves it.
LEMMA MeasuredNext ==
    ASSUME NEW s \in Seq(BOOLEAN), s # <<>>, NEW p \in Results, p # NoResult, Measured(p, s),
           NEW place \in Targets, NEW ok \in BOOLEAN, seconds \in Nat
    PROVE  /\ Recorded(p, place, ok) \in Results
           /\ Recorded(p, place, ok).place = place
           /\ Measured(Recorded(p, place, ok), Append(s, ok))
<1> DEFINE t == Append(s, ok)
           r == Recorded(p, place, ok)
           g == IF ok THEN p.good + 1 ELSE 0
           b == IF ok THEN 0 ELSE p.bad + 1
<1>1. /\ Twice(t) = IF ok = s[Len(s)] THEN Twice(s) \cup {Len(s) + 1} ELSE Twice(s)
      /\ Twice(s) \subseteq 2 .. Len(s)
      /\ t[Len(t)] = ok /\ Len(t) = Len(s) + 1 /\ Len(s) \in Nat \ {0}
      /\ \A i \in 1 .. Len(s) : t[i] = s[i]
    BY TwiceAppend
<1>2. /\ r.place = place /\ r.checked = seconds
      /\ r.good = (IF g >= 2 THEN 2 ELSE g) /\ r.bad = (IF b >= 2 THEN 2 ELSE b)
      /\ r.healthy = (IF g >= 2 THEN TRUE ELSE IF b >= 2 THEN FALSE ELSE p.healthy)
      /\ r = [place |-> r.place, checked |-> r.checked, good |-> r.good, bad |-> r.bad,
              healthy |-> r.healthy]
    BY DEF Recorded
<1> HIDE DEF r, t
<1>3. p.good \in 0 .. 2 /\ p.bad \in 0 .. 2 /\ p.healthy \in BOOLEAN
    BY DEF Results
<1>4. s[Len(s)] \in BOOLEAN
    BY <1>1
<1>5. Agreeing(s) \in {1, 2}
    BY DEF Agreeing
<1>6. /\ p.good = (IF s[Len(s)] THEN Agreeing(s) ELSE 0)
      /\ p.bad = (IF s[Len(s)] THEN 0 ELSE Agreeing(s))
      /\ p.healthy = Debounced(s)
      /\ Twice(s) # {} => \E i \in Twice(s) : \A j \in Twice(s) : j <= i
    BY DEF Measured
<1>7. r \in Results
    <2>1. r.good \in 0 .. 2 /\ r.bad \in 0 .. 2
        BY <1>2, <1>3
    <2>2. r.healthy \in BOOLEAN
        BY <1>2, <1>3
    <2> QED
        BY <1>2, <2>1, <2>2 DEF Results
<1>8. CASE ok = s[Len(s)]
    <2>1. Len(t) \in Twice(t) /\ \A j \in Twice(t) : j <= Len(t)
        BY <1>1, <1>8
    <2>2. Twice(t) \in SUBSET Nat
        BY <1>1, <1>8
    <2>3. Debounced(t) = ok
        <3>1. (CHOOSE i \in Twice(t) : \A j \in Twice(t) : j <= i) = Len(t)
            BY <2>1, <2>2, GreatestIsChosen
        <3> QED
            BY <1>1, <2>1, <3>1 DEF Debounced
    <2>4. Agreeing(t) = 2
        BY <2>1 DEF Agreeing
    <2>5. CASE ok
        <3>1. g >= 2 /\ b = 0
            BY <1>5, <1>6, <1>8, <2>5
        <3>2. r.good = 2 /\ r.bad = 0 /\ r.healthy = TRUE
            BY <1>2, <3>1
        <3> QED
            BY <1>1, <1>2, <1>7, <2>1, <2>3, <2>4, <2>5, <3>2 DEF Measured, r, t
    <2>6. CASE ~ok
        <3>1. g = 0 /\ b >= 2
            BY <1>5, <1>6, <1>8, <2>6
        <3>2. r.good = 0 /\ r.bad = 2 /\ r.healthy = FALSE
            BY <1>2, <3>1
        <3> QED
            BY <1>1, <1>2, <1>7, <2>1, <2>3, <2>4, <2>6, <3>2 DEF Measured, r, t
    <2> QED
        BY <2>5, <2>6
<1>9. CASE ok # s[Len(s)]
    <2>1. Twice(t) = Twice(s)
        BY <1>1, <1>9
    <2>2. Agreeing(t) = 1
        <3>1. Len(t) \notin 2 .. Len(s)
            BY <1>1
        <3> QED
            BY <1>1, <2>1, <3>1 DEF Agreeing
    <2>3. Debounced(t) = Debounced(s)
        <3>1. CASE Twice(s) = {}
            <4>1. t[1] = s[1]
                BY <1>1
            <4> QED
                BY <2>1, <3>1, <4>1 DEF Debounced
        <3>2. CASE Twice(s) # {}
            <4>1. PICK m \in Twice(s) : \A j \in Twice(s) : j <= m
                BY <1>6, <3>2
            <4>2. Twice(s) \in SUBSET Nat
                BY <1>1
            <4>3. (CHOOSE i \in Twice(s) : \A j \in Twice(s) : j <= i) = m
                BY <4>1, <4>2, GreatestIsChosen
            <4>4. m \in 1 .. Len(s)
                BY <1>1
            <4>5. t[m] = s[m]
                BY <1>1, <4>4
            <4> QED
                BY <2>1, <3>2, <4>3, <4>5 DEF Debounced
        <3> QED
            BY <3>1, <3>2
    <2>5. CASE ok
        <3>1. ~s[Len(s)]
            BY <1>4, <1>9, <2>5
        <3>3. p.good = 0
            BY <1>6, <3>1
        <3>4. g = 1 /\ b = 0
            BY <2>5, <3>3
        <3>5. r.good = 1 /\ r.bad = 0 /\ ~(g >= 2) /\ ~(b >= 2)
            BY <1>2, <3>4
        <3>2. r.good = 1 /\ r.bad = 0 /\ r.healthy = p.healthy
            BY <1>2, <3>5, Zenon
        <3> QED
            BY <1>1, <1>2, <1>6, <1>7, <2>1, <2>2, <2>3, <2>5, <3>2 DEF Measured, r, t
    <2>6. CASE ~ok
        <3>1. s[Len(s)]
            BY <1>4, <1>9, <2>6
        <3>3. p.bad = 0
            BY <1>6, <3>1
        <3>4. g = 0 /\ b = 1
            BY <2>6, <3>3
        <3>5. r.good = 0 /\ r.bad = 1 /\ ~(g >= 2) /\ ~(b >= 2)
            BY <1>2, <3>4
        <3>2. r.good = 0 /\ r.bad = 1 /\ r.healthy = p.healthy
            BY <1>2, <3>5, Zenon
        <3> QED
            BY <1>1, <1>2, <1>6, <1>7, <2>1, <2>2, <2>3, <2>6, <3>2 DEF Measured, r, t
    <2> QED
        BY <2>5, <2>6
<1> QED
    BY <1>8, <1>9

\* Nothing is measured at first.
LEMMA ProbingInitInv == ProbingInit => ProbingInv
<1> SUFFICES ASSUME ProbingInit PROVE ProbingInv
    OBVIOUS
<1>1. NoResult \in Results /\ <<>> \in Seq(BOOLEAN)
    BY DEF NoResult, Results, Targets
<1> DEFINE none == <<>>
<1>2. none \in Seq(BOOLEAN)
    OBVIOUS
<1> HIDE DEF none
<1>3. outcomes \in [ProbeNodes -> Seq(BOOLEAN)]
    BY <1>2 DEF ProbingInit, none
<1>4. ProbingTypeOK
    BY <1>1, <1>3 DEF ProbingInit, ProbingTypeOK, Idle, Targets
<1> QED
    BY <1>4 DEF ProbingInit, ProbingInv, ChangeIsSignalled

\* A step keeps what is known of the measurements.
LEMMA ProbingStepInv == ProbingInv /\ [ProbingNext]_probingVars => ProbingInv'
<1> SUFFICES ASSUME ProbingInv, [ProbingNext]_probingVars PROVE ProbingInv'
    OBVIOUS
<1> USE DEF ProbingInv
<1>1. NoResult \in Results
    BY DEF NoResult, Results, Targets
<1>2. ASSUME NEW next \in [ProbeNodes -> Places \cup {NoPlace}], UpdatePlaces(next)
      PROVE  ProbingInv'
    <2> DEFINE none == <<>>
    <2>4. none \in Seq(BOOLEAN)
        OBVIOUS
    <2> HIDE DEF none
    <2>5. outcomes' \in [ProbeNodes -> Seq(BOOLEAN)]
        BY <1>2, <2>4 DEF ProbingTypeOK, UpdatePlaces, none
    <2>1. ProbingTypeOK'
        BY <1>1, <1>2, <2>5 DEF ProbingTypeOK, UpdatePlaces, Targets
    <2>2. ChangeIsSignalled'
        BY <1>2 DEF ChangeIsSignalled, UpdatePlaces
    <2>3. ASSUME NEW n \in ProbeNodes
          PROVE  IF outcomes'[n] = <<>> THEN results'[n] = NoResult
                 ELSE /\ places'[n] # NoPlace /\ results'[n].place = places'[n]
                      /\ Measured(results'[n], outcomes'[n])
        BY <1>2 DEF UpdatePlaces
    <2> QED
        BY <2>1, <2>2, <2>3
<1>3. ASSUME NEW n \in ProbeNodes, NEW ok \in BOOLEAN, RecordProbe(n, ok)
      PROVE  ProbingInv'
    <2>1. CASE ~(StillTarget(n) /\ results[n].checked < seconds)
        <3>1. ProbingTypeOK'
            BY <1>3, <2>1 DEF ProbingTypeOK, RecordProbe, Targets
        <3>2. UNCHANGED <<places, results, outcomes, unprobed, wake, signalling>>
            BY <1>3, <2>1 DEF RecordProbe
        <3> QED
            BY <3>1, <3>2 DEF ChangeIsSignalled
    <2>2. CASE StillTarget(n) /\ results[n].checked < seconds
        <3> DEFINE r == Recorded(results[n], round[n], ok)
        <3>1. /\ results' = [results EXCEPT ![n] = r]
              /\ outcomes' = [outcomes EXCEPT ![n] = Append(@, ok)]
              /\ round' = [round EXCEPT ![n] = NoPlace]
              /\ round[n] = places[n] /\ places[n] # NoPlace
              /\ UNCHANGED <<places, wake, signalling, seconds, unprobed>>
            BY <1>3, <2>2 DEF RecordProbe, StillTarget
        <3>2. /\ round[n] \in Targets /\ results[n] \in Results
              /\ outcomes[n] \in Seq(BOOLEAN) /\ seconds \in Nat
            BY DEF ProbingTypeOK
        <3>3. r \in Results /\ r.place = places[n] /\ Measured(r, Append(outcomes[n], ok))
            <4>1. CASE outcomes[n] = <<>>
                BY <3>1, <3>2, <4>1, MeasuredFirst
            <4>2. CASE outcomes[n] # <<>>
                <5>1. results[n] # NoResult
                    BY <3>1, <4>2 DEF NoResult
                <5>2. Measured(results[n], outcomes[n])
                    BY <4>2
                <5> QED
                    BY <3>1, <3>2, <4>2, <5>1, <5>2, MeasuredNext
            <4> QED
                BY <4>1, <4>2
        <3> HIDE DEF r
        <3>4. ProbingTypeOK'
            BY <3>1, <3>2, <3>3 DEF ProbingTypeOK, Targets
        <3>5. ASSUME NEW m \in ProbeNodes
              PROVE  IF outcomes'[m] = <<>> THEN results'[m] = NoResult
                     ELSE /\ places'[m] # NoPlace /\ results'[m].place = places'[m]
                          /\ Measured(results'[m], outcomes'[m])
            <4>1. CASE m = n
                <5>1. outcomes'[n] = Append(outcomes[n], ok) /\ results'[n] = r
                    BY <3>1 DEF ProbingTypeOK
                <5>2. Append(outcomes[n], ok) # <<>>
                    BY <3>2
                <5> QED
                    BY <3>1, <3>3, <4>1, <5>1, <5>2
            <4>2. CASE m # n
                BY <3>1, <4>2 DEF ProbingTypeOK
            <4> QED
                BY <4>1, <4>2
        <3> QED
            BY <3>1, <3>4, <3>5 DEF ChangeIsSignalled
    <2> QED
        BY <2>1, <2>2
<1>4. CASE SignalChange \/ SecondPasses \/ (\E tick \in BOOLEAN : StartRound(tick))
          \/ UNCHANGED probingVars
    <2>4. seconds' \in Nat
        BY <1>4 DEF ProbingTypeOK, SignalChange, SecondPasses, StartRound, probingVars
    <2>5. wake' \in BOOLEAN /\ signalling' \in BOOLEAN
        BY <1>4, Zenon DEF ProbingTypeOK, SignalChange, SecondPasses, StartRound, probingVars
    <2>1. ProbingTypeOK'
        BY <1>4, <2>4, <2>5
        DEF ProbingTypeOK, SignalChange, SecondPasses, StartRound, probingVars
    <2>2. ChangeIsSignalled'
        BY <1>4 DEF ChangeIsSignalled, SignalChange, SecondPasses, StartRound, probingVars
    <2>3. UNCHANGED <<places, results, outcomes>>
        BY <1>4 DEF SignalChange, SecondPasses, StartRound, probingVars
    <2> QED
        BY <2>1, <2>2, <2>3
<1> QED
    BY <1>2, <1>3, <1>4 DEF ProbingNext

\* The invariant of the monitor: its counters are about its last measurements.
THEOREM ProbingInvHolds == ProbingSpec => []ProbingInv
BY ProbingInitInv, ProbingStepInv, PTL DEF ProbingSpec

\* A result is about the target the node has now and says what its own
\* measurements say after debouncing, and a change that no round has seen has
\* its signal waiting (Monitor.Update, Monitor.record in probe.go).
THEOREM ResultsAreCurrent == ProbingSpec => []ProbingHolds
<1>1. ProbingInv => ProbingHolds
    BY DEF ProbingInv, ProbingHolds, ResultsAreMeasured, Measured
<1> QED
    BY <1>1, ProbingInvHolds, PTL

-----------------------------------------------------------------------------
(***************************************************************************)
(* TrafficMeter, the machine's quota (machinetraffic/meter.go): for every  *)
(* quota, the meter stops before more than it allows is used, except for   *)
(* bytes that were lost with counters or files, which it knows to be lost. *)
(***************************************************************************)

\* The numbers of the world.
MeterNumbers ==
    /\ calendar \in Nat /\ net \in Nat /\ boot \in Nat /\ due \in Nat /\ gaps \in Nat
    /\ panelSide \in Policies

\* An answer of the panel that the meter m may get.
Answers(p, m) ==
    /\ p \in Policies /\ Follows(p, panelSide) /\ p.period <= calendar
    /\ p.rev >= m.policy.rev => p.ifc >= m.policy.ifc

\* A meter of a process that lives.
Living(m) ==
    /\ m \in Meters /\ m.loaded
    /\ Sound(m, m.lost, ~m.lost)
    /\ m.sample.err = "lost" => m.lost

\* What a reading shows since the last one is a number.
LEMMA DeltaIsNumber ==
    ASSUME MeterNumbers, NEW r \in Readings
    PROVE  delta(r) \in Nat
BY DEF delta, Readings, MeterNumbers

\* What is read of the records of a meter.
LEMMA MeterFields ==
    ASSUME NEW m \in Meters
    PROVE  /\ m.policy \in Policies /\ m.sample \in Samples
           /\ m.policy.rev \in Nat /\ m.policy.mode \in {"nic", "proxy"}
           /\ m.policy.ifc \in Nat \ {0} /\ m.policy.period \in Nat /\ m.policy.tx \in Nat
           /\ m.policy.init \in BOOLEAN
           /\ m.sample.tx \in Nat /\ m.sample.period \in Nat /\ m.sample.init \in BOOLEAN
           /\ m.sample.err \in {"none", "read", "write", "lost"}
           /\ m.prev \in Readings \cup {NoReading}
           /\ m.loaded \in BOOLEAN /\ m.lost \in BOOLEAN /\ m.writeFailed \in BOOLEAN
           /\ m.confirmed \in BOOLEAN /\ m.stage \in {"dead", "started", "ticked"}
BY DEF Meters, Policies, Samples

\* What is read of the records of a policy.
LEMMA PolicyFields ==
    ASSUME NEW p \in Policies
    PROVE  /\ p.rev \in Nat /\ p.mode \in {"nic", "proxy"} /\ p.ifc \in Nat \ {0}
           /\ p.period \in Nat /\ p.tx \in Nat /\ p.init \in BOOLEAN
BY DEF Policies

\* A newer policy adopted: each field.
LEMMA AdoptFields ==
    ASSUME NEW m \in Meters, NEW p \in Policies
    PROVE  LET n == Adopt(m, p)
               newer == p.period > m.policy.period
               switched == (p.mode = "proxy") # (m.policy.mode = "proxy")
               period == IF p.period < m.policy.period THEN m.policy.period ELSE p.period
               told == IF p.period < m.policy.period THEN 0 ELSE p.tx
               s == IF newer THEN NewSample(p.period) ELSE m.sample
           IN /\ n \in Meters
              /\ n.stage = m.stage /\ n.loaded = m.loaded
              /\ n.writeFailed = m.writeFailed
              /\ n.lost = (m.lost /\ ~newer)
              /\ n.policy.rev = p.rev /\ n.policy.ifc = p.ifc /\ n.policy.mode = p.mode
              /\ n.policy.period = period
              /\ n.prev = (IF (newer /\ m.lost) \/ p.ifc # m.policy.ifc THEN NoReading
                           ELSE m.prev)
              /\ n.sample.period = s.period
              /\ n.sample.init = (s.init /\ ~switched)
              /\ n.sample.err = (IF switched THEN "none" ELSE s.err)
              /\ n.sample.tx = (IF s.period = period THEN Larger(s.tx, told) ELSE s.tx)
<1> DEFINE old == m.policy
           newer == p.period > old.period
           q == IF p.period < old.period THEN [p EXCEPT !.period = old.period, !.tx = 0] ELSE p
           s == IF newer THEN NewSample(p.period) ELSE m.sample
           switched == (p.mode = "proxy") # (old.mode = "proxy")
           t == [s EXCEPT !.init = s.init /\ ~switched,
                          !.err = IF switched THEN "none" ELSE s.err,
                          !.tx = IF s.period = q.period THEN Larger(s.tx, q.tx) ELSE s.tx]
           lost == m.lost /\ ~newer
           prev == IF (newer /\ m.lost) \/ p.ifc # old.ifc THEN NoReading ELSE m.prev
<1>1. Adopt(m, p) = [m EXCEPT !.policy = Kept(q), !.lost = lost, !.prev = prev, !.sample = t]
    BY DEF Adopt
<1>2. old \in Policies /\ m.sample \in Samples /\ m.prev \in Readings \cup {NoReading}
    BY DEF Meters
<1>3. q \in Policies /\ q.rev = p.rev /\ q.mode = p.mode /\ q.ifc = p.ifc
      /\ q.period = (IF p.period < old.period THEN old.period ELSE p.period)
      /\ q.tx = (IF p.period < old.period THEN 0 ELSE p.tx)
    BY <1>2 DEF Policies
<1>4. s \in Samples
    BY <1>2, PolicyFields DEF Samples, NewSample
<1>5. lost \in BOOLEAN /\ prev \in Readings \cup {NoReading}
    BY <1>2
<1> HIDE DEF q, s, lost, prev
<1>6. Kept(q) \in Policies /\ Kept(q).rev = q.rev /\ Kept(q).mode = q.mode
      /\ Kept(q).ifc = q.ifc /\ Kept(q).period = q.period
    BY <1>3 DEF Kept, Policies
<1>7. t \in Samples /\ t.period = s.period /\ t.init = (s.init /\ ~switched)
      /\ t.err = (IF switched THEN "none" ELSE s.err)
      /\ t.tx = (IF s.period = q.period THEN Larger(s.tx, q.tx) ELSE s.tx)
    <2>1. s.tx \in Nat /\ q.tx \in Nat
        BY <1>3, <1>4 DEF Samples, Policies
    <2>2. (IF s.period = q.period THEN Larger(s.tx, q.tx) ELSE s.tx) \in Nat
        BY <2>1 DEF Larger
    <2>3. (s.init /\ ~switched) \in BOOLEAN
        OBVIOUS
    <2>4. (IF switched THEN "none" ELSE s.err) \in {"none", "read", "write", "lost"}
        BY <1>4 DEF Samples
    <2> QED
        BY <1>4, <2>2, <2>3, <2>4 DEF Samples
<1> HIDE DEF t
<1>8. /\ Adopt(m, p) \in Meters
      /\ Adopt(m, p).stage = m.stage /\ Adopt(m, p).loaded = m.loaded
      /\ Adopt(m, p).writeFailed = m.writeFailed /\ Adopt(m, p).lost = lost
      /\ Adopt(m, p).policy = Kept(q) /\ Adopt(m, p).prev = prev /\ Adopt(m, p).sample = t
    BY <1>1, <1>5, <1>6, <1>7 DEF Meters
<1>9. Adopt(m, p).policy.period = (IF p.period < old.period THEN old.period ELSE p.period)
    BY <1>3, <1>6, <1>8
<1>10. t.tx = (IF s.period = (IF p.period < old.period THEN old.period ELSE p.period)
               THEN Larger(s.tx, IF p.period < old.period THEN 0 ELSE p.tx) ELSE s.tx)
    BY <1>3, <1>7
<1> QED
    BY <1>3, <1>6, <1>7, <1>8, <1>9, <1>10 DEF s, lost, prev

\* What a state has counted, and what the next reading adds, are numbers.
LEMMA CountIsNumber ==
    ASSUME MeterNumbers, NEW x, x.sample \in Samples, x.prev \in Readings \cup {NoReading}
    PROVE  Count(x) \in Nat /\ Behind(x) \in {0, 1}
BY DEF Count, Behind, Samples

\* A policy that a living meter adopts leaves it living, and what it counts in
\* order.
LEMMA AdoptSound ==
    ASSUME MeterNumbers, NEW m \in Meters, Living(m), NEW p, Answers(p, m),
           p.rev >= m.policy.rev, panelSide.ifc <= gaps + 1
    PROVE  /\ Living(Adopt(m, p))
           /\ \A recent \in BOOLEAN : Accounts(m, recent) => Accounts(Adopt(m, p), recent)
<1> DEFINE n == Adopt(m, p)
           newer == p.period > m.policy.period
           switched == (p.mode = "proxy") # (m.policy.mode = "proxy")
           period == IF p.period < m.policy.period THEN m.policy.period ELSE p.period
           told == IF p.period < m.policy.period THEN 0 ELSE p.tx
           s == IF newer THEN NewSample(p.period) ELSE m.sample
<1>1. p \in Policies /\ p.ifc >= m.policy.ifc /\ p.period <= calendar /\ Follows(p, panelSide)
    BY DEF Answers
<1>2. /\ n \in Meters
      /\ n.stage = m.stage /\ n.loaded = m.loaded
      /\ n.lost = (m.lost /\ ~newer)
      /\ n.policy.rev = p.rev /\ n.policy.ifc = p.ifc /\ n.policy.mode = p.mode
      /\ n.policy.period = period
      /\ n.prev = (IF (newer /\ m.lost) \/ p.ifc # m.policy.ifc THEN NoReading ELSE m.prev)
      /\ n.sample.period = s.period
      /\ n.sample.init = (s.init /\ ~switched)
      /\ n.sample.err = (IF switched THEN "none" ELSE s.err)
      /\ n.sample.tx = (IF s.period = period THEN Larger(s.tx, told) ELSE s.tx)
    BY <1>1, AdoptFields
<1> HIDE DEF n
<1>3. /\ m.policy.ifc \in Nat \ {0} /\ p.ifc \in Nat \ {0} /\ p.period \in Nat
      /\ m.policy.period \in Nat /\ p.tx \in Nat /\ m.sample.tx \in Nat
      /\ m.sample.period \in Nat /\ n.sample.tx \in Nat /\ n.sample.period \in Nat
      /\ m.sample \in Samples /\ n.sample \in Samples
      /\ m.prev \in Readings \cup {NoReading} /\ n.prev \in Readings \cup {NoReading}
      /\ m.sample.init \in BOOLEAN
    BY <1>1, <1>2, MeterFields, PolicyFields
<1>4. /\ Count(m) \in Nat /\ Behind(m) \in {0, 1} /\ Count(n) \in Nat /\ Behind(n) \in {0, 1}
    BY <1>3, CountIsNumber
<1>5. /\ due \in Nat /\ gaps \in Nat /\ calendar \in Nat /\ panelSide.ifc \in Nat \ {0}
    BY PolicyFields DEF MeterNumbers
<1>6. /\ m.policy.period = m.sample.period /\ m.sample.period <= calendar
      /\ m.loaded
      /\ m.lost /\ m.sample.period < calendar => due = 0
      /\ m.sample.err = "lost" => m.lost
      /\ ~forgot => due + panelSide.ifc <= Quota + gaps + m.policy.ifc
      /\ ~forgot /\ ~m.lost
            => due + panelSide.ifc <= Count(m) + Behind(m) + gaps + m.policy.ifc
    BY DEF Living, Sound, Agrees, Covers, WithinQuota
<1>7. newer => s.period = p.period /\ ~s.init /\ s.err = "none" /\ s.tx = 0
    BY DEF NewSample
<1>8. ~newer => s = m.sample
    OBVIOUS
<1>9. n.sample.period = period /\ period <= calendar /\ period \in Nat
    BY <1>1, <1>2, <1>3, <1>6, <1>7, <1>8
<1>10. Agrees(n)
    <2>1. n.prev = NoReading \/ n.prev = m.prev
        BY <1>2
    <2>2. Follows(n.policy, panelSide)
        BY <1>1, <1>2 DEF Follows
    <2> QED
        BY <1>2, <1>9, <2>1, <2>2 DEF Agrees, Living, Sound
<1>11. p.ifc # m.policy.ifc => p.ifc >= m.policy.ifc + 1
    BY <1>1, <1>3
<1>12. ~newer => Count(n) >= Count(m) /\ n.lost = m.lost
    <2> SUFFICES ASSUME ~newer PROVE Count(n) >= Count(m) /\ n.lost = m.lost
        OBVIOUS
    <2>1. n.sample.tx >= m.sample.tx /\ n.sample.period = m.sample.period
        <3>1. told \in Nat
            BY <1>3
        <3> QED
            BY <1>2, <1>3, <1>8, <3>1 DEF Larger
    <2>2. Count(n) >= Count(m)
        BY <1>3, <1>5, <2>1 DEF Count
    <2>3. n.lost = (m.lost /\ TRUE) /\ m.lost \in BOOLEAN
        BY <1>2, MeterFields
    <2> QED
        BY <2>2, <2>3, Zenon
<1>13. p.ifc = m.policy.ifc /\ ~(newer /\ m.lost) => Behind(n) = Behind(m)
    BY <1>2 DEF Behind
<1>14. Sound(n, n.lost, ~n.lost)
    <2>1. n.lost /\ n.sample.period < calendar => due = 0
        BY <1>2, <1>6, <1>8
    <2>2. ~forgot => WithinQuota(n)
        <3> SUFFICES ASSUME ~forgot PROVE due + panelSide.ifc <= Quota + gaps + p.ifc
            BY <1>2 DEF WithinQuota
        <3> QED
            BY <1>1, <1>3, <1>5, <1>6, MeterAssumption
    <2>3. ~forgot /\ ~n.lost => Covers(n)
        <3> SUFFICES ASSUME ~forgot, ~n.lost
                     PROVE  due + panelSide.ifc <= Count(n) + Behind(n) + gaps + p.ifc
            BY <1>2 DEF Covers
        <3>1. CASE newer /\ m.lost
            <4>1. due = 0
                BY <1>1, <1>3, <1>5, <1>6, <3>1
            <4> QED
                BY <1>3, <1>4, <1>5, <4>1
        <3>2. CASE newer /\ ~m.lost
            <4>1. Count(m) = 0
                BY <1>1, <1>3, <1>5, <1>6, <3>2 DEF Count
            <4> QED
                BY <1>3, <1>4, <1>5, <1>6, <1>11, <1>13, <3>2, <4>1
        <3>3. CASE ~newer
            <4>1. ~m.lost
                BY <1>12, <3>3
            <4> QED
                BY <1>3, <1>4, <1>5, <1>6, <1>11, <1>12, <1>13, <3>3, <4>1
        <3> QED
            BY <3>1, <3>2, <3>3
    <2> QED
        BY <1>10, <2>1, <2>2, <2>3 DEF Sound
<1>15. n.sample.err = "lost" => n.lost
    BY <1>2, <1>6, <1>7, <1>8
<1>16. ASSUME NEW recent \in BOOLEAN, Accounts(m, recent) PROVE Accounts(n, recent)
    <2> SUFFICES ASSUME Counting(n)
                 PROVE  /\ ~forgot => due + panelSide.ifc
                                       <= Count(n) + gaps + p.ifc + (IF recent THEN 1 ELSE 0)
                        /\ n.prev = NoReading =>
                             /\ p.ifc >= 2
                             /\ ~forgot => due + panelSide.ifc + (IF recent THEN 0 ELSE 1)
                                             <= Count(n) + gaps + p.ifc
        BY <1>2 DEF Accounts
    <2>1. ~switched /\ s.init /\ n.sample.err = "none" /\ ~n.lost /\ n.stage = "ticked"
          /\ p.mode = "nic"
        BY <1>2 DEF Counting
    <2>2. ~newer
        BY <1>7, <2>1
    <2>3. Counting(m)
        <3>1. m.policy.mode = "nic"
            BY <2>1, MeterFields
        <3> QED
            BY <1>2, <1>8, <2>1, <2>2, <3>1 DEF Counting
    <2>4. /\ ~forgot => due + panelSide.ifc
                          <= Count(m) + gaps + m.policy.ifc + (IF recent THEN 1 ELSE 0)
          /\ m.prev = NoReading =>
               /\ m.policy.ifc >= 2
               /\ ~forgot => due + panelSide.ifc + (IF recent THEN 0 ELSE 1)
                               <= Count(m) + gaps + m.policy.ifc
        BY <1>16, <2>3 DEF Accounts
    <2>5. Count(n) >= Count(m)
        BY <1>12, <2>2
    <2>6. ~forgot => due + panelSide.ifc
                       <= Count(n) + gaps + p.ifc + (IF recent THEN 1 ELSE 0)
        BY <1>1, <1>3, <1>4, <1>5, <2>4, <2>5
    <2>7. CASE m.prev = NoReading
        BY <1>1, <1>3, <1>4, <1>5, <2>4, <2>5, <2>6, <2>7
    <2>8. CASE m.prev # NoReading /\ p.ifc = m.policy.ifc
        <3>1. n.prev # NoReading
            BY <1>2, <2>2, <2>8
        <3> QED
            BY <2>6, <3>1
    <2>9. CASE p.ifc # m.policy.ifc
        <3>1. p.ifc >= 2
            BY <1>3, <1>11, <2>9
        <3>2. ~forgot => due + panelSide.ifc + (IF recent THEN 0 ELSE 1)
                           <= Count(n) + gaps + p.ifc
            BY <1>3, <1>4, <1>5, <1>11, <2>4, <2>5, <2>9
        <3> QED
            BY <2>6, <3>1, <3>2
    <2> QED
        BY <2>7, <2>8, <2>9
<1> QED
    BY <1>2, <1>6, <1>14, <1>15, <1>16 DEF Living, n

\* A meter that finds no state takes over what the panel was told: it is lost
\* until the next period if there was something.
LEMMA AdoptedSound ==
    ASSUME MeterNumbers, NEW m \in Meters, panelSide.ifc <= gaps + 1,
           panelSide.period <= calendar, ~forgot => due <= Quota + gaps,
           due = 0 \/ (panelSide.init /\ panelSide.period = calendar), m.stage = "started",
           m.sample.err # "lost"
    PROVE  Living(Adopted(m, panelSide))
           /\ \A recent \in BOOLEAN : Accounts(Adopted(m, panelSide), recent)
<1> DEFINE n == Adopted(m, panelSide)
           p == panelSide
<1>1. p \in Policies /\ calendar \in Nat /\ due \in Nat /\ gaps \in Nat
    BY DEF MeterNumbers
<1>2. /\ p.rev \in Nat /\ p.mode \in {"nic", "proxy"} /\ p.ifc \in Nat \ {0}
      /\ p.period \in Nat /\ p.tx \in Nat /\ p.init \in BOOLEAN
    BY <1>1, PolicyFields
<1>3. Kept(p) \in Policies /\ Kept(p).rev = p.rev /\ Kept(p).ifc = p.ifc
      /\ Kept(p).period = p.period
    BY <1>1 DEF Kept, Policies
<1>4. [NewSample(p.period) EXCEPT !.tx = p.tx] \in Samples
      /\ [NewSample(p.period) EXCEPT !.tx = p.tx].period = p.period
      /\ [NewSample(p.period) EXCEPT !.tx = p.tx].init = FALSE
      /\ [NewSample(p.period) EXCEPT !.tx = p.tx].err = "none"
    BY <1>2 DEF NewSample, Samples
<1>5. /\ n \in Meters /\ n.stage = "started" /\ n.loaded /\ n.lost = p.init
      /\ n.policy = Kept(p) /\ n.prev = NoReading /\ n.sample.period = p.period
      /\ n.sample.err = "none" /\ n.sample \in Samples
    BY <1>2, <1>3, <1>4 DEF Adopted, Meters
<1> HIDE DEF n
<1>6. Count(n) \in Nat /\ Behind(n) \in {0, 1}
    BY <1>5, CountIsNumber
<1>7. Agrees(n)
    BY <1>2, <1>3, <1>5 DEF Agrees, Follows
<1>8. n.lost /\ n.sample.period < calendar => due = 0
    BY <1>1, <1>2, <1>5
<1>9. ~forgot => WithinQuota(n)
    BY <1>1, <1>2, <1>3, <1>5, MeterAssumption DEF WithinQuota
<1>10. ~n.lost => Covers(n)
    BY <1>1, <1>2, <1>3, <1>5, <1>6 DEF Covers
<1>11. \A recent \in BOOLEAN : Accounts(n, recent)
    BY <1>5 DEF Accounts, Counting
<1> QED
    BY <1>5, <1>7, <1>8, <1>9, <1>10, <1>11 DEF Living, Sound, n

\* A state found in the file.
LEMMA LoadedSound ==
    ASSUME MeterTypeOK, FileInv, meter = Dead, ~Absent, NEW m, m = [Loaded EXCEPT !.stage = "started"]
    PROVE  /\ m \in Meters /\ Living(m) /\ m.stage = "started" /\ ~m.writeFailed
           /\ disk = [policy |-> m.policy, sample |-> m.sample, prev |-> m.prev]
<1>1. disk \in Files
    BY DEF Absent, MeterTypeOK
<1>2. Dead \in Meters /\ ~Dead.writeFailed /\ ~Dead.lost
    BY DEF MeterTypeOK, Dead
<1>3. /\ m = [Dead EXCEPT !.stage = "started", !.loaded = TRUE,
                          !.lost = disk.sample.err = "lost", !.policy = disk.policy,
                          !.sample = disk.sample, !.prev = disk.prev]
    BY <1>2 DEF Loaded, Absent, Meters
<1>4. /\ disk.policy \in Policies /\ disk.sample \in Samples
      /\ disk.prev \in Readings \cup {NoReading}
      /\ disk = [policy |-> disk.policy, sample |-> disk.sample, prev |-> disk.prev]
    BY <1>1 DEF Files
<1>5. /\ m \in Meters /\ m.stage = "started" /\ ~m.writeFailed /\ m.loaded
      /\ m.lost = (disk.sample.err = "lost") /\ m.policy = disk.policy
      /\ m.sample = disk.sample /\ m.prev = disk.prev
    BY <1>2, <1>3, <1>4 DEF Meters
<1>6. Sound(disk, disk.sample.err = "lost", disk.sample.err # "lost")
    BY <1>2 DEF FileInv
<1>7. Sound(m, m.lost, ~m.lost)
    BY <1>5, <1>6 DEF Sound, Agrees, WithinQuota, Covers, Count, Behind
<1> QED
    BY <1>4, <1>5, <1>7 DEF Living

\* The new period begins with nothing counted.
LEMMA InPeriodSound ==
    ASSUME MeterNumbers, NEW m \in Meters, Living(m), panelSide.ifc <= gaps + 1
    PROVE  /\ Living(InPeriod(m)) /\ InPeriod(m).sample.period = calendar
<1>1. CASE calendar <= m.policy.period
    <2>1. InPeriod(m) = m
        BY <1>1 DEF InPeriod
    <2>2. m.sample.period = calendar
        <3>1. m.policy.period = m.sample.period /\ m.sample.period <= calendar
            BY DEF Living, Sound, Agrees
        <3> QED
            BY <1>1, <3>1, MeterFields DEF MeterNumbers
    <2> QED
        BY <2>1, <2>2
<1>2. CASE ~(calendar <= m.policy.period)
    <2> DEFINE n == InPeriod(m)
               prev == IF m.lost THEN NoReading ELSE m.prev
    <2>1. n = [m EXCEPT !.policy.period = calendar, !.sample = NewSample(calendar),
                        !.lost = FALSE, !.prev = prev]
        BY <1>2 DEF InPeriod
    <2>2. NewSample(calendar) \in Samples /\ NewSample(calendar).period = calendar
          /\ NewSample(calendar).err = "none" /\ NewSample(calendar).tx = 0
        BY DEF NewSample, Samples, MeterNumbers
    <2>3. prev \in Readings \cup {NoReading}
        BY MeterFields
    <2>4. [m.policy EXCEPT !.period = calendar] \in Policies
          /\ [m.policy EXCEPT !.period = calendar].period = calendar
          /\ [m.policy EXCEPT !.period = calendar].ifc = m.policy.ifc
          /\ [m.policy EXCEPT !.period = calendar].rev = m.policy.rev
        BY MeterFields DEF Policies, MeterNumbers
    <2> HIDE DEF prev
    <2>5. /\ n \in Meters /\ n.loaded = m.loaded /\ n.lost = FALSE
          /\ n.policy = [m.policy EXCEPT !.period = calendar]
          /\ n.sample = NewSample(calendar) /\ n.prev = prev
        BY <2>1, <2>2, <2>3, <2>4 DEF Meters
    <2> HIDE DEF n
    <2>6. /\ m.policy.ifc \in Nat \ {0} /\ due \in Nat /\ gaps \in Nat /\ calendar \in Nat
          /\ panelSide.ifc \in Nat \ {0} /\ m.sample.period \in Nat
        BY MeterFields, PolicyFields DEF MeterNumbers
    <2>7. /\ Agrees(m) /\ m.loaded
          /\ m.lost /\ m.sample.period < calendar => due = 0
          /\ ~forgot => WithinQuota(m)
          /\ ~forgot /\ ~m.lost => Covers(m)
        BY DEF Living, Sound
    <2>8. m.sample.period < calendar
        BY <1>2, <2>6, <2>7 DEF Agrees
    <2>9. Count(n) \in Nat /\ Behind(n) \in {0, 1} /\ Count(m) = 0 /\ Behind(m) \in {0, 1}
        <3>1. Count(m) = 0
            BY <2>6, <2>8 DEF Count
        <3> QED
            BY <2>2, <2>3, <2>5, <3>1, CountIsNumber, MeterFields
    <2>10. Agrees(n)
        BY <2>2, <2>4, <2>5, <2>6, <2>7 DEF Agrees, Follows, prev
    <2>11. ~forgot => WithinQuota(n)
        BY <2>4, <2>5, <2>7 DEF WithinQuota
    <2>12. ~forgot => Covers(n)
        <3>1. CASE m.lost
            <4>1. due = 0
                BY <2>7, <2>8, <3>1
            <4> QED
                BY <2>4, <2>5, <2>6, <2>9, <4>1 DEF Covers
        <3>2. CASE ~m.lost
            <4>1. Behind(n) = Behind(m)
                BY <2>5, <3>2 DEF Behind, prev
            <4> QED
                BY <2>4, <2>5, <2>6, <2>7, <2>9, <3>2, <4>1 DEF Covers
        <3> QED
            BY <3>1, <3>2
    <2> QED
        BY <2>2, <2>5, <2>7, <2>10, <2>11, <2>12 DEF Living, Sound, n
<1> QED
    BY <1>1, <1>2

\* A reading accounts for all that is due; without one nothing is counted.
LEMMA CountedSound ==
    ASSUME MeterNumbers, NEW m \in Meters, Living(m), m.sample.period = calendar,
           NEW readable \in BOOLEAN
    PROVE  /\ Living(Counted(m, readable))
           /\ Accounts([Counted(m, readable) EXCEPT !.stage = "ticked"], FALSE)
<1> DEFINE n == Counted(m, readable)
<1>1. /\ m.policy.ifc \in Nat \ {0} /\ due \in Nat /\ gaps \in Nat /\ calendar \in Nat
      /\ panelSide.ifc \in Nat \ {0} /\ m.sample.tx \in Nat /\ m.sample \in Samples
      /\ m.prev \in Readings \cup {NoReading} /\ m.policy.mode \in {"nic", "proxy"}
    BY MeterFields, PolicyFields DEF MeterNumbers
<1>2. /\ Agrees(m) /\ m.loaded
      /\ ~forgot => WithinQuota(m)
      /\ ~forgot /\ ~m.lost => Covers(m)
      /\ m.sample.err = "lost" => m.lost
    BY DEF Living, Sound
<1>3. ~(m.sample.period < calendar)
    BY <1>1
<1>4. CASE m.policy.mode = "nic" /\ ~m.lost /\ readable
    <2> DEFINE d == IF m.prev = NoReading THEN 0 ELSE delta(m.prev)
               r == [boot |-> boot, at |-> net]
               s == [m.sample EXCEPT !.err = "none", !.init = TRUE, !.tx = add(m.sample.tx, d)]
    <2>1. n = [m EXCEPT !.prev = r, !.sample = s]
        BY <1>1, <1>4 DEF Counted, Meters, Samples
    <2>2. d \in Nat /\ Behind(m) <= d /\ Behind(m) \in {0, 1}
        BY <1>1, CountIsNumber, DeltaIsNumber DEF Behind
    <2>3. r \in Readings /\ r # NoReading /\ r.boot = boot /\ r.at = net
        BY FilesAssumption DEF Readings, MeterNumbers
    <2>4. add(m.sample.tx, d) \in Nat
          /\ (add(m.sample.tx, d) = m.sample.tx + d \/ add(m.sample.tx, d) >= Quota)
        BY <1>1, <2>2, MeterAssumption DEF add
    <2>5. /\ s \in Samples /\ s.period = m.sample.period /\ s.err = "none"
          /\ s.tx = add(m.sample.tx, d)
        BY <1>1, <2>4 DEF Samples
    <2> HIDE DEF d, r, s, n
    <2>6. /\ n \in Meters /\ n.policy = m.policy /\ n.prev = r /\ n.sample = s
          /\ n.lost = m.lost /\ n.loaded = m.loaded
        BY <2>1, <2>3, <2>5 DEF Meters
    <2>7. Count(m) = m.sample.tx /\ Count(n) = add(m.sample.tx, d) /\ Behind(n) \in {0, 1}
        BY <2>3, <2>5, <2>6, CountIsNumber DEF Count
    <2>8. ~forgot => due + panelSide.ifc <= Count(n) + gaps + m.policy.ifc
        <3> SUFFICES ASSUME ~forgot
                     PROVE  due + panelSide.ifc <= Count(n) + gaps + m.policy.ifc
            OBVIOUS
        <3>1. due + panelSide.ifc <= m.sample.tx + Behind(m) + gaps + m.policy.ifc
              /\ due + panelSide.ifc <= Quota + gaps + m.policy.ifc
            BY <1>2, <1>4, <2>7 DEF Covers, WithinQuota
        <3>2. CASE add(m.sample.tx, d) = m.sample.tx + d
            BY <1>1, <2>2, <2>7, <3>1, <3>2
        <3>3. CASE add(m.sample.tx, d) >= Quota
            BY <1>1, <2>4, <2>7, <3>1, <3>3, MeterAssumption
        <3> QED
            BY <2>4, <3>2, <3>3
    <2>9. Agrees(n)
        BY <1>2, <2>3, <2>5, <2>6 DEF Agrees, MeterNumbers
    <2>10. ~forgot => WithinQuota(n) /\ Covers(n)
        BY <1>1, <1>2, <2>4, <2>6, <2>7, <2>8 DEF WithinQuota, Covers
    <2>11. Living(n)
        BY <1>2, <1>4, <2>5, <2>6, <2>9, <2>10 DEF Living, Sound
    <2> DEFINE t == [n EXCEPT !.stage = "ticked"]
    <2>12. t.policy = n.policy /\ t.prev = n.prev /\ t.sample = n.sample
        BY <2>6 DEF Meters
    <2>13. Count(t) = Count(n) /\ t.prev # NoReading /\ t.policy = m.policy /\ Count(n) \in Nat
        BY <2>3, <2>4, <2>6, <2>7, <2>12 DEF Count
    <2> HIDE DEF t
    <2>14. Accounts(t, FALSE)
        BY <1>1, <2>8, <2>13 DEF Accounts
    <2> QED
        BY <2>11, <2>14 DEF n, t
<1>5. CASE ~(m.policy.mode = "nic" /\ ~m.lost /\ readable)
    <2>1. PICK e \in {"none", "lost", "read"}, i \in BOOLEAN :
             /\ n = [m EXCEPT !.sample.err = e, !.sample.init = i]
             /\ e = "lost" => m.lost
             /\ m.policy.mode = "nic" /\ ~m.lost => e = "read"
        <3>1. CASE m.policy.mode = "proxy"
            BY <3>1 DEF Counted
        <3>2. CASE m.policy.mode = "nic" /\ m.lost
            BY <3>2 DEF Counted
        <3>3. CASE m.policy.mode = "nic" /\ ~m.lost
            <4>1. ~readable
                BY <1>5, <3>3
            <4>2. n = [m EXCEPT !.sample.err = "read"]
                BY <3>3, <4>1 DEF Counted
            <4>3. n = [m EXCEPT !.sample.err = "read", !.sample.init = m.sample.init]
                BY <4>2, <1>1 DEF Meters, Samples
            <4>4. m.sample.init \in BOOLEAN
                BY MeterFields
            <4> QED
                BY <3>3, <4>3, <4>4
        <3> QED
            BY <1>1, <3>1, <3>2, <3>3
    <2> DEFINE s == [m.sample EXCEPT !.err = e, !.init = i]
    <2>2. n = [m EXCEPT !.sample = s]
        BY <2>1 DEF Meters, Samples
    <2>3. s \in Samples /\ s.period = m.sample.period /\ s.tx = m.sample.tx /\ s.err = e
        BY <1>1, <2>1 DEF Samples
    <2> HIDE DEF s, n
    <2>4. /\ n \in Meters /\ n.policy = m.policy /\ n.prev = m.prev /\ n.sample = s
          /\ n.lost = m.lost /\ n.loaded = m.loaded
        BY <2>2, <2>3 DEF Meters
    <2>5. Count(n) = Count(m) /\ Behind(n) = Behind(m)
        BY <2>3, <2>4 DEF Count, Behind
    <2>6. Agrees(n)
        BY <1>2, <2>3, <2>4 DEF Agrees
    <2>7. /\ ~forgot => WithinQuota(n)
          /\ ~forgot /\ ~n.lost => Covers(n)
        BY <1>2, <2>4, <2>5 DEF WithinQuota, Covers
    <2>8. Living(n)
        BY <1>2, <1>3, <2>1, <2>3, <2>4, <2>6, <2>7 DEF Living, Sound
    <2> DEFINE t == [n EXCEPT !.stage = "ticked"]
    <2>9. t.policy = n.policy /\ t.sample = n.sample /\ t.lost = n.lost
        BY <2>4 DEF Meters
    <2>10. ~Counting(t)
        BY <2>1, <2>3, <2>4, <2>9 DEF Counting
    <2> QED
        BY <2>8, <2>10 DEF Accounts, n, t
<1> QED
    BY <1>4, <1>5

\* What a write leaves, done or failed.
LEMMA SaveKeeps ==
    ASSUME MeterTypeOK, FileInv, panelSide.ifc <= gaps + 1,
           NEW n \in Meters, Living(n), Accounts(n, flowed'), n.stage # "dead",
           NEW err, err \in {n.sample.err, "write"}, Save(n, err),
           meter.lost /\ ~n.lost => due = 0,
           UNCHANGED <<calendar, net, boot, panelSide, due, gaps, forgot>>
    PROVE  /\ meter' \in Meters /\ disk' \in Files \cup {NoFileYet, Damaged}
           /\ meter'.stage = n.stage /\ meter'.loaded /\ meter'.policy = n.policy
           /\ Sound(meter, meter.lost, ~meter.lost)'
           /\ meter'.sample.err = "lost" => meter'.lost
           /\ ~meter'.writeFailed =>
                disk' = [policy |-> meter'.policy, sample |-> meter'.sample,
                         prev |-> meter'.prev]
           /\ Accounts(meter, flowed)'
           /\ FileInv'
<1> PICK v : v = meter'
    OBVIOUS
<1> PICK f : f = disk'
    OBVIOUS
<1> DEFINE file == [policy |-> n.policy, sample |-> n.sample, prev |-> n.prev]
           s == [n.sample EXCEPT !.err = err]
<1>1. n.loaded /\ Sound(n, n.lost, ~n.lost) /\ (n.sample.err = "lost" => n.lost)
    BY DEF Living
<1>2. s \in Samples /\ s.err = err /\ s.period = n.sample.period /\ s.tx = n.sample.tx
      /\ s.init = n.sample.init
    BY MeterFields DEF Samples
<1>3. file \in Files /\ file \notin {NoFileYet, Damaged}
      /\ file.policy = n.policy /\ file.sample = n.sample /\ file.prev = n.prev
    BY MeterFields, FilesAssumption DEF Files
<1> HIDE DEF s, file
<1>4. /\ v \in Meters /\ v.stage = n.stage /\ v.loaded /\ v.policy = n.policy
      /\ v.prev = n.prev /\ v.lost = n.lost /\ v.sample \in Samples
      /\ v.sample.err \in {err, n.sample.err}
      /\ v.sample.period = n.sample.period /\ v.sample.tx = n.sample.tx
      /\ v.sample.init = n.sample.init
      /\ \/ f = file /\ v.sample = n.sample
         \/ f = disk /\ v.writeFailed
    <2>1. CASE disk' = file /\ meter' = [n EXCEPT !.writeFailed = FALSE]
        BY <1>1, <2>1, MeterFields DEF Meters
    <2>2. CASE disk' = disk /\ meter' = [n EXCEPT !.writeFailed = TRUE, !.sample.err = err]
        <3>1. v = [n EXCEPT !.writeFailed = TRUE, !.sample = s]
            BY <2>2 DEF s, Meters, Samples
        <3> QED
            BY <1>1, <1>2, <2>2, <3>1 DEF Meters
    <2> QED
        BY <2>1, <2>2 DEF Save, file
<1>5. Sound(v, v.lost, ~v.lost)
    BY <1>1, <1>4 DEF Sound, Agrees, Covers, WithinQuota, Count, Behind
<1>6. Accounts(v, flowed')
    <2>1. Counting(v) => Counting(n)
        BY <1>4 DEF Counting
    <2>2. Count(v) = Count(n)
        BY <1>4 DEF Count
    <2> QED
        BY <1>4, <2>1, <2>2 DEF Accounts
<1>7. v.sample.err = "lost" => v.lost
    BY <1>1, <1>4
<1>8. f \notin {NoFileYet, Damaged} =>
        Sound(f, f.sample.err = "lost", ~v.lost /\ f.sample.err # "lost")
    <2>1. CASE f = file
        BY <1>1, <1>3, <1>4, <2>1 DEF Sound, Agrees, Covers, WithinQuota, Count, Behind
    <2>2. CASE f = disk
        <3> SUFFICES ASSUME disk \notin {NoFileYet, Damaged}
                     PROVE  Sound(disk, disk.sample.err = "lost",
                                  ~v.lost /\ disk.sample.err # "lost")
            BY <2>2
        <3>1. Sound(disk, disk.sample.err = "lost", ~meter.lost /\ disk.sample.err # "lost")
            BY DEF FileInv, Absent
        <3>2. due = 0 => Covers(disk)
            <4>1. disk.sample \in Samples /\ disk.prev \in Readings \cup {NoReading}
                  /\ disk.policy.ifc \in Nat \ {0}
                BY DEF MeterTypeOK, Files, Policies
            <4>2. Count(disk) \in Nat /\ Behind(disk) \in {0, 1}
                BY <4>1, CountIsNumber DEF MeterTypeOK, MeterNumbers
            <4> QED
                BY <4>1, <4>2, PolicyFields DEF Covers, MeterTypeOK
        <3> QED
            BY <1>4, <3>1, <3>2 DEF Sound
    <2> QED
        BY <1>4, <2>1, <2>2
<1>9. f \in {NoFileYet, Damaged} => f = disk
    BY <1>3, <1>4
<1>10. f \in Files \cup {NoFileYet, Damaged}
    BY <1>3, <1>4 DEF MeterTypeOK
<1>11. ~v.writeFailed => f = [policy |-> v.policy, sample |-> v.sample, prev |-> v.prev]
    BY <1>4 DEF file
<1>12. Sound(meter, meter.lost, ~meter.lost)'
    BY <1>5 DEF Sound, Agrees, Follows, Covers, WithinQuota, Count, Behind, delta
<1>13. Accounts(meter, flowed)'
    BY <1>6 DEF Accounts, Counting, Count
<1>14. FileInv'
    <2>1. Absent' => due' = 0 \/ (panelSide.init /\ panelSide.period = calendar)'
        BY <1>9 DEF FileInv, Absent
    <2>2. ~Absent' => Sound(disk, disk.sample.err = "lost",
                           ~meter.lost /\ disk.sample.err # "lost")'
        BY <1>8 DEF Absent, Sound, Agrees, Follows, Covers, WithinQuota, Count, Behind, delta
    <2> QED
        BY <2>1, <2>2 DEF FileInv
<1> QED
    BY <1>4, <1>7, <1>10, <1>11, <1>12, <1>13, <1>14

\* A meter and its answer, applied.
LEMMA ApplyKeeps ==
    ASSUME MeterTypeOK, WorldInv, FileInv, NEW m \in Meters, Living(m), Accounts(m, flowed),
           m.stage # "dead", meter.lost => m.lost, NEW p, Answers(p, m), p.rev >= m.policy.rev,
           Save([Adopt(m, p) EXCEPT !.confirmed = p.mode = "proxy"], Adopt(m, p).sample.err),
           UNCHANGED <<calendar, net, boot, panelSide, due, flowed, gaps, forgot>>
    PROVE  /\ meter' \in Meters /\ disk' \in Files \cup {NoFileYet, Damaged}
           /\ meter'.stage = m.stage /\ meter'.loaded
           /\ Sound(meter, meter.lost, ~meter.lost)'
           /\ meter'.sample.err = "lost" => meter'.lost
           /\ ~meter'.writeFailed =>
                disk' = [policy |-> meter'.policy, sample |-> meter'.sample,
                         prev |-> meter'.prev]
           /\ Accounts(meter, flowed)'
           /\ FileInv'
<1> DEFINE a == Adopt(m, p)
           n == [a EXCEPT !.confirmed = p.mode = "proxy"]
<1>1. MeterNumbers /\ panelSide.ifc <= gaps + 1
    BY DEF MeterTypeOK, MeterNumbers, WorldInv
<1>2. Living(a) /\ Accounts(a, flowed)
    BY <1>1, AdoptSound DEF MeterTypeOK
<1>3. p \in Policies /\ p.period <= calendar
    BY DEF Answers
<1>4. a \in Meters /\ a.stage = m.stage /\ a.lost = (m.lost /\ ~(p.period > m.policy.period))
    BY <1>3, AdoptFields
<1>5. meter.lost /\ ~a.lost => due = 0
    <2> SUFFICES ASSUME meter.lost, ~a.lost PROVE due = 0
        OBVIOUS
    <2>1. p.period > m.policy.period
        BY <1>4
    <2>2. m.sample.period < calendar
        BY <1>1, <1>3, <2>1, MeterFields, PolicyFields
        DEF Living, Sound, Agrees, MeterNumbers
    <2> QED
        BY <2>2 DEF Living, Sound
<1> HIDE DEF a
<1>6. /\ n \in Meters /\ n.stage = a.stage /\ n.loaded = a.loaded /\ n.policy = a.policy
      /\ n.sample = a.sample /\ n.prev = a.prev /\ n.lost = a.lost
    BY <1>4 DEF Meters
<1>7. Living(n) /\ Accounts(n, flowed)
    BY <1>2, <1>6
    DEF Living, Sound, Agrees, Covers, WithinQuota, Count, Behind, Accounts, Counting
<1>8. Save(n, n.sample.err)
    BY <1>6 DEF a
<1> HIDE DEF n
<1>9. Accounts(n, flowed')
    BY <1>7
<1>10. n.sample.err \in {n.sample.err, "write"} /\ n.stage # "dead"
    BY <1>4, <1>6
<1>11. meter.lost /\ ~n.lost => due = 0
    BY <1>5, <1>6
<1>12. n.stage = m.stage
    BY <1>4, <1>6
<1> QED
    BY <1>1, <1>6, <1>7, <1>8, <1>9, <1>10, <1>11, <1>12, SaveKeeps

\* What a tick leaves alone.
LEMMA TickFields ==
    ASSUME MeterNumbers, NEW m \in Meters, NEW readable \in BOOLEAN
    PROVE  LET n == Counted(InPeriod(m), readable)
           IN /\ n.policy.rev = m.policy.rev /\ n.policy.ifc = m.policy.ifc
              /\ n.lost = m.lost \/ m.policy.period < calendar
<1>1. /\ InPeriod(m) \in Meters /\ InPeriod(m).policy.rev = m.policy.rev
      /\ InPeriod(m).policy.ifc = m.policy.ifc
      /\ InPeriod(m).lost = m.lost \/ m.policy.period < calendar
    <2>1. CASE calendar <= m.policy.period
        BY <2>1 DEF InPeriod
    <2>2. CASE ~(calendar <= m.policy.period)
        <3> DEFINE prev == IF m.lost THEN NoReading ELSE m.prev
                   q == [m.policy EXCEPT !.period = calendar]
        <3>1. prev \in Readings \cup {NoReading}
            BY MeterFields
        <3>2. q \in Policies /\ q.rev = m.policy.rev /\ q.ifc = m.policy.ifc
            BY MeterFields DEF Policies, MeterNumbers
        <3>3. NewSample(calendar) \in Samples
            BY DEF NewSample, Samples, MeterNumbers
        <3>4. InPeriod(m) = [m EXCEPT !.policy = q, !.sample = NewSample(calendar),
                                      !.lost = FALSE, !.prev = prev]
            BY <2>2 DEF InPeriod, Meters
        <3>5. m.policy.period < calendar
            BY <2>2, MeterFields DEF MeterNumbers
        <3> HIDE DEF prev, q
        <3> QED
            BY <3>1, <3>2, <3>3, <3>4, <3>5 DEF Meters
    <2> QED
        BY <2>1, <2>2
<1>2. ASSUME NEW v \in Meters
      PROVE  Counted(v, readable).policy = v.policy /\ Counted(v, readable).lost = v.lost
    <2>1. CASE v.policy.mode = "proxy"
        BY <2>1 DEF Counted, Meters
    <2>2. CASE v.policy.mode # "proxy" /\ v.lost
        BY <2>2 DEF Counted, Meters
    <2>3. CASE v.policy.mode # "proxy" /\ ~v.lost /\ ~readable
        BY <2>3 DEF Counted, Meters
    <2>4. CASE v.policy.mode # "proxy" /\ ~v.lost /\ readable
        BY <2>4 DEF Counted, Meters
    <2> QED
        BY <2>1, <2>2, <2>3, <2>4
<1> QED
    BY <1>1, <1>2

\* Whoever is not blocked counts, or is in proxy mode.
LEMMA UnblockedCounts ==
    ASSUME NEW m \in Meters, ~Blocks(m), m.stage = "ticked", m.policy.mode = "nic"
    PROVE  Counting(m) /\ m.sample.tx < Quota /\ ~m.writeFailed
<1>1. m.sample.tx < Quota
    BY MeterFields, MeterAssumption DEF Blocks
<1> QED
    BY <1>1 DEF Blocks, Counting

\* The meter at first.
LEMMA DeadMeter == Dead \in Meters /\ Dead.stage = "dead" /\ ~Dead.lost /\ ~Dead.loaded
                   /\ FirstPolicy \in Policies
BY DEF Dead, Meters, FirstPolicy, Policies, NewSample, Samples

\* The first state.
LEMMA MeterInitInv == MeterInit => MeterInv
<1> SUFFICES ASSUME MeterInit PROVE MeterInv
    OBVIOUS
<1> USE DEF MeterInit
<1>1. MeterTypeOK
    BY DeadMeter DEF MeterTypeOK
<1>2. WorldInv
    BY MeterAssumption DEF WorldInv, FirstPolicy
<1>3. MemoryInv
    BY DeadMeter DEF MemoryInv, Accounts, Counting, Proxying
<1>4. FileInv
    BY DEF FileInv, Absent
<1> QED
    BY <1>1, <1>2, <1>3, <1>4 DEF MeterInv

\* The meter of a living process is sound.
LEMMA LivingMeter ==
    ASSUME MeterTypeOK, MemoryInv, meter.stage # "dead"
    PROVE  Living(meter) /\ Accounts(meter, flowed)
BY DEF MeterTypeOK, MemoryInv, Living

\* initTraffic: a process starts with what the file holds, or with nothing.
LEMMA StartMeterInv == MeterInv /\ StartMeter => MeterInv'
<1> SUFFICES ASSUME MeterInv, StartMeter PROVE MeterInv'
    OBVIOUS
<1> DEFINE m == [Loaded EXCEPT !.stage = "started"]
<1>1. /\ MeterTypeOK /\ WorldInv /\ MemoryInv /\ FileInv /\ meter = Dead /\ MeterNumbers
    BY DEF MeterInv, MemoryInv, StartMeter, MeterTypeOK, MeterNumbers
<1>2. /\ UNCHANGED <<calendar, net, boot, panelSide, due, flowed, gaps, forgot>>
      /\ exchange' = [at |-> "none"] /\ verdict_' = TRUE
      /\ \/ Apply(m, panelSide)
         \/ Loaded.loaded /\ meter' = m /\ disk' = disk
    BY DEF StartMeter, quotaVars
<1>3. panelSide \in Policies /\ Follows(panelSide, panelSide) /\ panelSide.period <= calendar
      /\ panelSide.ifc <= gaps + 1 /\ (~forgot => due <= Quota + gaps)
    BY <1>1, PolicyFields DEF MeterTypeOK, WorldInv, Follows
<1>4. SUFFICES /\ meter' \in Meters /\ disk' \in Files \cup {NoFileYet, Damaged}
               /\ meter'.stage = "started" /\ meter'.loaded
               /\ Sound(meter, meter.lost, ~meter.lost)'
               /\ meter'.sample.err = "lost" => meter'.lost
               /\ ~meter'.writeFailed =>
                    disk' = [policy |-> meter'.policy, sample |-> meter'.sample,
                             prev |-> meter'.prev]
               /\ Accounts(meter, flowed)'
               /\ FileInv'
    <2>1. MeterTypeOK'
        BY <1>1, <1>2, <1>4 DEF MeterTypeOK
    <2>2. WorldInv'
        BY <1>1, <1>2 DEF WorldInv
    <2>3. MemoryInv'
        BY <1>2, <1>4 DEF MemoryInv, Proxying
    <2> QED
        BY <1>4, <2>1, <2>2, <2>3 DEF MeterInv
<1>5. CASE Absent
    <2>1. m \in Meters /\ ~m.loaded /\ m.stage = "started" /\ m.sample.err # "lost"
        <3>1. Loaded = [Dead EXCEPT !.lost = (disk = Damaged)]
            BY <1>5 DEF Loaded, Absent
        <3>2. (disk = Damaged) \in BOOLEAN
            OBVIOUS
        <3> QED
            BY <3>1, <3>2, DeadMeter DEF Meters, Dead, NewSample
    <2> HIDE DEF m
    <2>2. Loaded.loaded => FALSE
        BY <1>5, DeadMeter DEF Loaded, Absent, Meters
    <2> DEFINE a == Adopted(m, panelSide)
               n == [a EXCEPT !.confirmed = panelSide.mode = "proxy"]
    <2>3. Save(n, a.sample.err)
        BY <1>2, <2>1, <2>2 DEF Apply
    <2>4. Living(a) /\ Accounts(a, flowed)
        <3>1. due = 0 \/ (panelSide.init /\ panelSide.period = calendar)
            BY <1>1, <1>5 DEF FileInv
        <3> QED
            BY <1>1, <1>3, <2>1, <3>1, AdoptedSound DEF MeterTypeOK
    <2>5. a.stage = "started"
        BY <2>1 DEF Adopted, Meters
    <2> HIDE DEF a
    <2>6. /\ n \in Meters /\ n.stage = a.stage /\ n.loaded = a.loaded /\ n.policy = a.policy
          /\ n.sample = a.sample /\ n.prev = a.prev /\ n.lost = a.lost
        BY <2>4 DEF Meters, Living
    <2>7. Living(n) /\ Accounts(n, flowed)
        BY <2>4, <2>6
        DEF Living, Sound, Agrees, Covers, WithinQuota, Count, Behind, Accounts, Counting
    <2>8. Save(n, n.sample.err) /\ n.stage = "started"
        BY <2>3, <2>5, <2>6
    <2> HIDE DEF n
    <2>9. Accounts(n, flowed') /\ ~meter.lost
        BY <1>1, <1>2, <2>7, DeadMeter
    <2>10. n.sample.err \in {n.sample.err, "write"} /\ n.stage # "dead"
        BY <2>8
    <2> QED
        BY <1>1, <1>2, <1>3, <2>6, <2>7, <2>8, <2>9, <2>10, SaveKeeps
<1>6. CASE ~Absent
    <2>1. /\ m \in Meters /\ Living(m) /\ m.stage = "started" /\ ~m.writeFailed
          /\ disk = [policy |-> m.policy, sample |-> m.sample, prev |-> m.prev]
        <3> PICK v : v = m
            OBVIOUS
        <3> QED
            BY <1>1, <1>6, LoadedSound
    <2> HIDE DEF m
    <2>2. Accounts(m, flowed) /\ m.loaded
        BY <2>1 DEF Accounts, Counting, Living
    <2>3. CASE Apply(m, panelSide)
        <3>1. panelSide.rev >= m.policy.rev /\ Answers(panelSide, m)
            BY <1>1, <1>3, <2>1, MeterFields, PolicyFields
            DEF Living, Sound, Agrees, Follows, Answers
        <3>2. Save([Adopt(m, panelSide) EXCEPT !.confirmed = panelSide.mode = "proxy"],
                   Adopt(m, panelSide).sample.err)
            <4>1. ~(panelSide.rev < m.policy.rev)
                BY <1>3, <2>1, <3>1, MeterFields, PolicyFields
            <4> QED
                BY <2>2, <2>3, <4>1 DEF Apply
        <3> QED
            BY <1>1, <1>2, <2>1, <2>2, <3>1, <3>2, DeadMeter, ApplyKeeps
    <2>4. CASE meter' = m /\ disk' = disk
        <3> PICK v : v = m
            OBVIOUS
        <3>1. /\ v \in Meters /\ Sound(v, v.lost, ~v.lost) /\ (v.sample.err = "lost" => v.lost)
              /\ ~Counting(v)
            BY <2>1 DEF Living, Counting
        <3>2. meter' = v /\ disk' = disk
            BY <2>4
        <3>3. Sound(meter, meter.lost, ~meter.lost)'
            BY <1>2, <3>1, <3>2
            DEF Sound, Agrees, Follows, Covers, WithinQuota, Count, Behind, delta
        <3>4. Accounts(meter, flowed)'
            BY <3>1, <3>2 DEF Accounts, Counting
        <3>5. FileInv'
            <4>1. Sound(disk, disk.sample.err = "lost", ~meter.lost /\ disk.sample.err # "lost")
                BY <1>1, <1>6 DEF FileInv
            <4>2. Sound(disk, disk.sample.err = "lost", ~v.lost /\ disk.sample.err # "lost")
                BY <1>1, <4>1, DeadMeter DEF Sound
            <4>3. Sound(disk, disk.sample.err = "lost",
                        ~meter.lost /\ disk.sample.err # "lost")'
                BY <1>2, <3>2, <4>2
                DEF Sound, Agrees, Follows, Covers, WithinQuota, Count, Behind, delta
            <4> QED
                BY <1>6, <3>2, <4>3 DEF FileInv, Absent
        <3> QED
            BY <1>1, <2>1, <2>2, <2>4, <3>1, <3>3, <3>4, <3>5 DEF MeterTypeOK
    <2> QED
        BY <1>2, <2>3, <2>4
<1> QED
    BY <1>5, <1>6

\* A tick of the meter, whether the interface can be read and the file written or not.
LEMMA TickInv == MeterInv /\ Tick => MeterInv'
<1> SUFFICES ASSUME MeterInv, Tick PROVE MeterInv'
    OBVIOUS
<1>1. /\ MeterTypeOK /\ WorldInv /\ MemoryInv /\ FileInv /\ MeterNumbers
      /\ meter.stage # "dead" /\ meter \in Meters
    BY DEF MeterInv, Tick, MeterTypeOK, MeterNumbers
<1>2. /\ UNCHANGED <<calendar, net, boot, panelSide, exchange, due, gaps, forgot>>
      /\ verdict_' = Blocks(meter') /\ flowed' = FALSE
    BY DEF Tick
<1>3. PICK readable \in BOOLEAN :
        Save([Counted(InPeriod(meter), readable) EXCEPT !.stage = "ticked"], "write")
    BY DEF Tick
<1> DEFINE c == Counted(InPeriod(meter), readable)
           n == [c EXCEPT !.stage = "ticked"]
<1>4. Living(meter) /\ panelSide.ifc <= gaps + 1
    BY <1>1, LivingMeter DEF WorldInv
<1>5. Living(InPeriod(meter)) /\ InPeriod(meter).sample.period = calendar
      /\ InPeriod(meter) \in Meters
    BY <1>1, <1>4, InPeriodSound DEF Living
<1>6. Living(c) /\ Accounts(n, FALSE)
    <2> PICK v : v = InPeriod(meter)
        OBVIOUS
    <2> QED
        BY <1>1, <1>5, CountedSound
<1>7. /\ c.policy.rev = meter.policy.rev /\ c.policy.ifc = meter.policy.ifc
      /\ c.lost = meter.lost \/ meter.policy.period < calendar
    BY <1>1, TickFields
<1> HIDE DEF c
<1>8. /\ n \in Meters /\ n.stage = "ticked" /\ n.loaded = c.loaded /\ n.policy = c.policy
      /\ n.sample = c.sample /\ n.prev = c.prev /\ n.lost = c.lost
    BY <1>6 DEF Meters, Living
<1>9. Living(n)
    BY <1>6, <1>8 DEF Living, Sound, Agrees, Covers, WithinQuota, Count, Behind
<1>10. meter.lost /\ ~n.lost => due = 0
    BY <1>4, <1>7, <1>8 DEF Living, Sound, Agrees
<1>11. Save(n, "write")
    BY <1>3 DEF c
<1> HIDE DEF n
<1>12. Accounts(n, flowed') /\ n.stage # "dead"
    BY <1>2, <1>6, <1>8
<1>13. /\ meter' \in Meters /\ disk' \in Files \cup {NoFileYet, Damaged}
       /\ meter'.stage = n.stage /\ meter'.loaded /\ meter'.policy = n.policy
       /\ Sound(meter, meter.lost, ~meter.lost)'
       /\ meter'.sample.err = "lost" => meter'.lost
       /\ ~meter'.writeFailed =>
            disk' = [policy |-> meter'.policy, sample |-> meter'.sample, prev |-> meter'.prev]
       /\ Accounts(meter, flowed)'
       /\ FileInv'
    BY <1>1, <1>2, <1>4, <1>8, <1>9, <1>10, <1>11, <1>12, SaveKeeps
<1>14. MeterTypeOK'
    <2>1. verdict_' \in BOOLEAN
        BY <1>2 DEF Blocks
    <2> QED
        BY <1>1, <1>2, <1>13, <2>1 DEF MeterTypeOK
<1>15. WorldInv'
    BY <1>1, <1>2, <1>7, <1>8, <1>13 DEF WorldInv, Follows
<1>16. MemoryInv'
    <2>1. (Proxying /\ meter.policy.mode = "nic")' =>
            Counting(meter') /\ meter'.sample.tx < Quota /\ ~meter'.writeFailed
        <3> PICK v : v = meter'
            OBVIOUS
        <3> SUFFICES ASSUME ~Blocks(v), v.policy.mode = "nic"
                     PROVE  Counting(v) /\ v.sample.tx < Quota /\ ~v.writeFailed
            BY <1>2 DEF Proxying
        <3> QED
            BY <1>8, <1>13, UnblockedCounts
    <2> QED
        BY <1>8, <1>13, <2>1 DEF MemoryInv, Counting
<1> QED
    BY <1>13, <1>14, <1>15, <1>16 DEF MeterInv

\* Apply of an answer of the panel, in each of its ways.
LEMMA ApplyAnswerInv == MeterInv /\ ApplyAnswer => MeterInv'
<1> SUFFICES ASSUME MeterInv, ApplyAnswer PROVE MeterInv'
    OBVIOUS
<1> DEFINE p == exchange.policy
<1>1. /\ MeterTypeOK /\ WorldInv /\ MemoryInv /\ FileInv /\ MeterNumbers
      /\ meter.stage = "ticked" /\ meter \in Meters /\ p \in Policies
    BY DEF MeterInv, ApplyAnswer, MeterTypeOK, MeterNumbers, WorldInv
<1>2. /\ UNCHANGED <<calendar, net, boot, panelSide, due, flowed, gaps, forgot>>
      /\ verdict_' = (meter'.writeFailed \/ Blocks(meter'))
      /\ exchange' = [at |-> "none"] /\ Apply(meter, p)
    BY DEF ApplyAnswer, quotaVars
<1>3. Living(meter) /\ Accounts(meter, flowed) /\ meter.loaded
    BY <1>1, LivingMeter DEF Living
<1>4. /\ meter' \in Meters /\ disk' \in Files \cup {NoFileYet, Damaged}
      /\ meter'.stage = "ticked" /\ meter'.loaded
      /\ Sound(meter, meter.lost, ~meter.lost)'
      /\ meter'.sample.err = "lost" => meter'.lost
      /\ ~meter'.writeFailed =>
           disk' = [policy |-> meter'.policy, sample |-> meter'.sample, prev |-> meter'.prev]
      /\ Accounts(meter, flowed)'
      /\ FileInv'
    <2>1. CASE p.rev < meter.policy.rev
        <3>1. meter' = meter /\ disk' = disk
            BY <1>2, <1>3, <2>1 DEF Apply
        <3> QED
            BY <1>1, <1>2, <3>1
            DEF MeterTypeOK, MemoryInv, FileInv, Absent, Accounts, Counting, Sound, Agrees,
                Follows, Covers, WithinQuota, Count, Behind, delta
    <2>2. CASE ~(p.rev < meter.policy.rev)
        <3>1. p.rev >= meter.policy.rev /\ Answers(p, meter)
            BY <1>1, <2>2, MeterFields, PolicyFields DEF Answers, WorldInv, ApplyAnswer
        <3>2. Save([Adopt(meter, p) EXCEPT !.confirmed = p.mode = "proxy"],
                   Adopt(meter, p).sample.err)
            BY <1>2, <1>3, <2>2 DEF Apply
        <3> HIDE DEF p
        <3> QED
            BY <1>1, <1>2, <1>3, <3>1, <3>2, ApplyKeeps
    <2> QED
        BY <2>1, <2>2
<1>5. MeterTypeOK'
    <2>1. verdict_' \in BOOLEAN
        BY <1>2 DEF Blocks
    <2> QED
        BY <1>1, <1>2, <1>4, <2>1 DEF MeterTypeOK
<1>6. WorldInv'
    BY <1>1, <1>2 DEF WorldInv
<1>7. MemoryInv'
    <2>1. (Proxying /\ meter.policy.mode = "nic")' =>
            Counting(meter') /\ meter'.sample.tx < Quota /\ ~meter'.writeFailed
        <3> PICK v : v = meter'
            OBVIOUS
        <3> SUFFICES ASSUME ~Blocks(v), v.policy.mode = "nic"
                     PROVE  Counting(v) /\ v.sample.tx < Quota /\ ~v.writeFailed
            BY <1>2 DEF Proxying
        <3> QED
            BY <1>4, UnblockedCounts
    <2> QED
        BY <1>4, <2>1 DEF MemoryInv, Counting
<1> QED
    BY <1>4, <1>5, <1>6, <1>7 DEF MeterInv

\* What the world does on its own: the panel's totals and period change, a byte
\* flows that nobody counts, the counters restart, a period ends, or the panel
\* changes its policy and with it, maybe, the interface.
WorldMoves ==
    /\ forgot => forgot'
    /\ panelSide' \in Policies
    /\ \/ /\ UNCHANGED <<calendar, net, boot, due, gaps>>
          /\ panelSide'.rev = panelSide.rev /\ panelSide'.ifc = panelSide.ifc
       \/ /\ net' = net + 1
          /\ UNCHANGED <<calendar, boot, due, gaps, panelSide>>
       \/ /\ net' = 0 /\ boot' = boot + 1 /\ gaps' = gaps + 1
          /\ UNCHANGED <<calendar, due, panelSide>>
       \/ /\ calendar' = calendar + 1 /\ due' = 0
          /\ UNCHANGED <<net, boot, gaps, panelSide>>
       \/ /\ UNCHANGED <<calendar, net, boot, due>>
          /\ panelSide'.rev >= panelSide.rev
          /\ \/ gaps' = gaps /\ panelSide'.ifc = panelSide.ifc
             \/ gaps' = gaps + 1 /\ panelSide'.ifc = panelSide.ifc + 1

\* States stay sound as the world moves.
LEMMA SoundAsWorldMoves ==
    ASSUME MeterNumbers, panelSide.ifc <= gaps + 1, WorldMoves,
           NEW x, x.policy \in Policies, x.sample \in Samples,
           x.prev \in Readings \cup {NoReading},
           NEW l \in BOOLEAN, NEW k \in BOOLEAN, Sound(x, l, k)
    PROVE  Sound(x, l, k)'
<1>1. /\ calendar \in Nat /\ net \in Nat /\ boot \in Nat /\ due \in Nat /\ gaps \in Nat
      /\ panelSide.ifc \in Nat \ {0} /\ panelSide.rev \in Nat
      /\ panelSide'.ifc \in Nat \ {0} /\ panelSide'.rev \in Nat
      /\ x.policy.rev \in Nat /\ x.policy.ifc \in Nat \ {0}
      /\ x.sample.period \in Nat /\ x.sample.tx \in Nat
    BY PolicyFields DEF MeterNumbers, WorldMoves, Samples
<1>2. /\ calendar' \in Nat /\ net' \in Nat /\ boot' \in Nat /\ due' \in Nat /\ gaps' \in Nat
      /\ calendar' >= calendar /\ panelSide'.rev >= panelSide.rev
      /\ panelSide'.ifc >= panelSide.ifc /\ boot' >= boot
      /\ boot' = boot => net' >= net
    BY <1>1 DEF WorldMoves
<1>3. Count(x) \in Nat /\ Behind(x) \in {0, 1}
    BY CountIsNumber
<1>4. /\ Agrees(x) /\ (l /\ x.sample.period < calendar => due = 0)
      /\ ~forgot => WithinQuota(x)
      /\ ~forgot /\ k => Covers(x)
    BY DEF Sound
<1>5. Agrees(x)'
    <2>1. x.policy.period = x.sample.period /\ x.sample.period <= calendar'
        BY <1>1, <1>2, <1>4 DEF Agrees
    <2>2. Follows(x.policy, panelSide')
        BY <1>1, <1>2, <1>4 DEF Agrees, Follows
    <2>3. ASSUME x.prev # NoReading
          PROVE  x.prev.boot <= boot' /\ (x.prev.boot = boot' => x.prev.at <= net')
        <3>1. x.prev.boot \in Nat /\ x.prev.at \in Nat
            BY <2>3 DEF Readings
        <3>2. x.prev.boot <= boot /\ (x.prev.boot = boot => x.prev.at <= net)
            BY <1>4, <2>3 DEF Agrees
        <3>3. x.prev.boot = boot' => x.prev.boot = boot /\ boot' = boot
            BY <1>1, <1>2, <3>1, <3>2
        <3> QED
            BY <1>1, <1>2, <3>1, <3>2, <3>3
    <2> QED
        BY <2>1, <2>2, <2>3 DEF Agrees, Follows
<1>6. l /\ x.sample.period < calendar' => due' = 0
    BY <1>4 DEF WorldMoves
<1>7. (~forgot => WithinQuota(x))'
    <2> SUFFICES ASSUME ~forgot'
                 PROVE  due' + panelSide'.ifc <= Quota + gaps' + x.policy.ifc
        BY DEF WithinQuota
    <2>1. due + panelSide.ifc <= Quota + gaps + x.policy.ifc
        BY <1>4 DEF WithinQuota, WorldMoves
    <2> QED
        BY <1>1, <1>2, <2>1, MeterAssumption DEF WorldMoves
<1>8. (~forgot /\ k => Covers(x))'
    <2> SUFFICES ASSUME ~forgot', k PROVE Covers(x)'
        OBVIOUS
    <2>1. due + panelSide.ifc <= Count(x) + Behind(x) + gaps + x.policy.ifc
        BY <1>4 DEF Covers, WorldMoves
    <2>2. Count(x)' \in Nat /\ Behind(x)' \in {0, 1}
        BY <1>1, <1>2 DEF Count, Behind
    <2>3. CASE UNCHANGED <<calendar, net, boot>>
        <3>1. Count(x)' = Count(x) /\ Behind(x)' = Behind(x) /\ due' = due
            BY <1>1, <2>3 DEF Count, Behind, delta, WorldMoves
        <3>2. \/ gaps' = gaps /\ panelSide'.ifc = panelSide.ifc
              \/ gaps' = gaps + 1 /\ panelSide'.ifc = panelSide.ifc + 1
            BY <1>1, <2>3 DEF WorldMoves
        <3>3. due' + panelSide'.ifc <= Count(x) + Behind(x) + gaps' + x.policy.ifc
            BY <1>1, <1>3, <2>1, <3>1, <3>2
        <3> QED
            BY <3>1, <3>3 DEF Covers
    <2>4. CASE net' = net + 1 /\ UNCHANGED <<calendar, boot, due, gaps, panelSide>>
        <3>1. Count(x)' = Count(x)
            BY <2>4 DEF Count
        <3>2. Behind(x) <= Behind(x)'
            <4>1. CASE Behind(x) = 0
                BY <2>2, <4>1
            <4>2. CASE Behind(x) # 0
                <5>1. x.prev \in Readings /\ x.prev # NoReading /\ delta(x.prev) > 0
                    BY <4>2 DEF Behind
                <5>2. x.prev.boot = boot => x.prev.at <= net
                    BY <1>4, <5>1 DEF Agrees
                <5>3. delta(x.prev)' > 0
                    BY <1>1, <2>4, <5>1, <5>2 DEF delta, Readings
                <5> QED
                    BY <1>3, <5>1, <5>3 DEF Behind
            <4> QED
                BY <4>1, <4>2
        <3> QED
            BY <1>1, <1>3, <2>1, <2>2, <2>4, <3>1, <3>2 DEF Covers
    <2>5. CASE net' = 0 /\ boot' = boot + 1 /\ gaps' = gaps + 1
               /\ UNCHANGED <<calendar, due, panelSide>>
        <3>1. Count(x)' = Count(x)
            BY <2>5 DEF Count
        <3> QED
            BY <1>1, <1>3, <2>1, <2>2, <2>5, <3>1 DEF Covers
    <2>6. CASE calendar' = calendar + 1 /\ due' = 0 /\ UNCHANGED <<net, boot, gaps, panelSide>>
        <3>1. panelSide'.ifc = panelSide.ifc /\ gaps' = gaps /\ due' = 0
            BY <2>6
        <3>2. 0 + panelSide.ifc <= Count(x)' + Behind(x)' + gaps + x.policy.ifc
            BY <1>1, <2>2
        <3> QED
            BY <3>1, <3>2 DEF Covers
    <2> QED
        BY <2>3, <2>4, <2>5, <2>6 DEF WorldMoves
<1> QED
    BY <1>5, <1>6, <1>7, <1>8 DEF Sound

\* And so does the account of a meter that counts.
LEMMA AccountsAsWorldMoves ==
    ASSUME MeterNumbers, panelSide.ifc <= gaps + 1, WorldMoves, NEW x \in Meters,
           NEW old \in BOOLEAN, NEW new \in BOOLEAN, old => new, Accounts(x, old)
    PROVE  Accounts(x, new)'
<1>1. /\ calendar \in Nat /\ due \in Nat /\ gaps \in Nat
      /\ panelSide.ifc \in Nat \ {0} /\ panelSide'.ifc \in Nat \ {0}
      /\ x.policy.ifc \in Nat \ {0} /\ x.sample.period \in Nat /\ x.sample.tx \in Nat
      /\ due' \in Nat /\ gaps' \in Nat
    BY PolicyFields, MeterFields DEF MeterNumbers, WorldMoves
<1>2. Count(x) \in Nat /\ Count(x)' \in Nat
    BY <1>1 DEF Count
<1>3. due' + panelSide'.ifc <= due + panelSide.ifc + (gaps' - gaps) /\ gaps' >= gaps
      /\ \/ due' = due /\ calendar' = calendar
         \/ due' = 0 /\ gaps' = gaps /\ panelSide'.ifc = panelSide.ifc
    <2>1. \/ due' = due /\ calendar' = calendar
          \/ due' = 0 /\ gaps' = gaps /\ panelSide'.ifc = panelSide.ifc
        BY DEF WorldMoves
    <2>2. \/ gaps' = gaps /\ panelSide'.ifc = panelSide.ifc
          \/ gaps' = gaps + 1 /\ panelSide'.ifc = panelSide.ifc
          \/ gaps' = gaps + 1 /\ panelSide'.ifc = panelSide.ifc + 1
        BY DEF WorldMoves
    <2>3. due' <= due
        BY <1>1, <2>1
    <2> QED
        BY <1>1, <2>1, <2>2, <2>3
<1>4. SUFFICES ASSUME Counting(x)
               PROVE  /\ ~forgot' => due' + panelSide'.ifc <= Count(x)' + gaps' + x.policy.ifc
                                                           + (IF new THEN 1 ELSE 0)
                      /\ x.prev = NoReading =>
                           /\ x.policy.ifc >= 2
                           /\ ~forgot' => due' + panelSide'.ifc + (IF new THEN 0 ELSE 1)
                                           <= Count(x)' + gaps' + x.policy.ifc
    BY DEF Accounts, Counting
<1>5. /\ ~forgot => due + panelSide.ifc
                      <= Count(x) + gaps + x.policy.ifc + (IF old THEN 1 ELSE 0)
      /\ x.prev = NoReading =>
           /\ x.policy.ifc >= 2
           /\ ~forgot => due + panelSide.ifc + (IF old THEN 0 ELSE 1)
                           <= Count(x) + gaps + x.policy.ifc
    BY <1>4 DEF Accounts
<1>6. ~forgot' => ~forgot
    BY DEF WorldMoves
<1>7. CASE due' = due /\ calendar' = calendar
    <2>1. Count(x)' = Count(x)
        BY <1>7 DEF Count
    <2>2. (IF old THEN 1 ELSE 0) <= (IF new THEN 1 ELSE 0)
          /\ (IF new THEN 0 ELSE 1) <= (IF old THEN 0 ELSE 1)
          /\ (IF old THEN 1 ELSE 0) \in Nat /\ (IF new THEN 1 ELSE 0) \in Nat
          /\ (IF old THEN 0 ELSE 1) \in Nat /\ (IF new THEN 0 ELSE 1) \in Nat
        OBVIOUS
    <2> DEFINE a == IF old THEN 1 ELSE 0
               b == IF new THEN 1 ELSE 0
               c == IF old THEN 0 ELSE 1
               d == IF new THEN 0 ELSE 1
    <2> HIDE DEF a, b, c, d
    <2>3. a <= b /\ d <= c /\ a \in Nat /\ b \in Nat /\ c \in Nat /\ d \in Nat
        BY <2>2 DEF a, b, c, d
    <2>4. /\ ~forgot' => due + panelSide.ifc <= Count(x) + gaps + x.policy.ifc + a
          /\ x.prev = NoReading =>
               /\ x.policy.ifc >= 2
               /\ ~forgot' => due + panelSide.ifc + c <= Count(x) + gaps + x.policy.ifc
        BY <1>5, <1>6 DEF a, c
    <2>5. /\ ~forgot' => due' + panelSide'.ifc <= Count(x)' + gaps' + x.policy.ifc + b
          /\ x.prev = NoReading =>
               /\ x.policy.ifc >= 2
               /\ ~forgot' => due' + panelSide'.ifc + d <= Count(x)' + gaps' + x.policy.ifc
        BY <1>1, <1>2, <1>3, <1>7, <2>1, <2>3, <2>4
    <2> QED
        BY <2>5 DEF b, d
<1>8. CASE due' = 0 /\ gaps' = gaps /\ panelSide'.ifc = panelSide.ifc
    <2>1. panelSide.ifc <= Count(x)' + gaps + x.policy.ifc
          /\ (x.policy.ifc >= 2 => panelSide.ifc + 1 <= Count(x)' + gaps + x.policy.ifc)
        BY <1>1, <1>2
    <2> QED
        BY <1>1, <1>2, <1>5, <1>8, <2>1
<1> QED
    BY <1>3, <1>7, <1>8

\* The file, as the world moves and the process lives on or ends.
LEMMA FileAsWorldMoves ==
    ASSUME MeterInv, WorldMoves, disk' = disk, meter'.lost \in BOOLEAN,
           ~Absent /\ disk.sample.err # "lost" /\ ~meter'.lost => ~meter.lost \/ forgot',
           Absent /\ due' # 0 => panelSide'.init /\ panelSide'.period = calendar'
    PROVE  FileInv'
<1>1. MeterTypeOK /\ MeterNumbers /\ panelSide.ifc <= gaps + 1 /\ FileInv
    BY DEF MeterInv, MeterTypeOK, MeterNumbers, WorldInv
<1>2. CASE Absent
    BY <1>2 DEF FileInv, Absent
<1>3. CASE ~Absent
    <2> PICK f : f = disk
        OBVIOUS
    <2> PICK b : b = meter'.lost
        OBVIOUS
    <2> DEFINE l == (f.sample.err = "lost")
               k == ~meter.lost /\ f.sample.err # "lost"
    <2>1. f \in Files /\ f.policy \in Policies /\ f.sample \in Samples
          /\ f.prev \in Readings \cup {NoReading}
        BY <1>1, <1>3 DEF MeterTypeOK, Absent, Files
    <2>2. Sound(f, l, k)
        BY <1>1, <1>3 DEF FileInv
    <2>3. l \in BOOLEAN /\ k \in BOOLEAN
        OBVIOUS
    <2> PICK ll : ll = l
        OBVIOUS
    <2> PICK kk : kk = k
        OBVIOUS
    <2>4. Sound(f, ll, kk)'
        <3> HIDE DEF l, k
        <3> QED
            BY <1>1, <2>1, <2>2, <2>3, SoundAsWorldMoves
    <2>5. ~forgot' /\ ~b /\ f.sample.err # "lost" => kk
        BY <1>3
    <2>6. Sound(f, f.sample.err = "lost", ~b /\ f.sample.err # "lost")'
        BY <2>4, <2>5 DEF Sound
    <2> HIDE DEF l, k
    <2>7. Sound(disk, disk.sample.err = "lost", ~meter.lost /\ disk.sample.err # "lost")'
        BY <2>6 DEF Sound, Agrees, Follows, Covers, WithinQuota, Count, Behind, delta
    <2> QED
        BY <1>3, <2>7 DEF FileInv, Absent
<1> QED
    BY <1>2, <1>3

\* The meter of a process that lives on.
LEMMA MemoryAsWorldMoves ==
    ASSUME MeterInv, WorldMoves, disk' = disk, meter' = meter, verdict_' = verdict_,
           flowed' \in BOOLEAN, flowed => flowed'
    PROVE  MemoryInv'
<1>1. MeterTypeOK /\ MeterNumbers /\ panelSide.ifc <= gaps + 1 /\ MemoryInv /\ meter \in Meters
    BY DEF MeterInv, MeterTypeOK, MeterNumbers, WorldInv
<1> PICK m : m = meter
    OBVIOUS
<1> PICK old : old = flowed
    OBVIOUS
<1> PICK new : new = flowed'
    OBVIOUS
<1>2. m \in Meters /\ m.lost \in BOOLEAN /\ m.policy \in Policies /\ m.sample \in Samples
      /\ m.prev \in Readings \cup {NoReading}
    BY <1>1, MeterFields
<1>3. Accounts(meter, flowed)'
    <2>1. Accounts(m, old) /\ old \in BOOLEAN /\ new \in BOOLEAN /\ (old => new)
        BY <1>1 DEF MemoryInv, MeterTypeOK
    <2>2. Accounts(m, new)'
        BY <1>1, <1>2, <2>1, AccountsAsWorldMoves
    <2> QED
        BY <2>2 DEF Accounts, Counting, Count
<1>4. meter.stage # "dead" => Sound(meter, meter.lost, ~meter.lost)'
    <2> SUFFICES ASSUME m.stage # "dead" PROVE Sound(meter, meter.lost, ~meter.lost)'
        OBVIOUS
    <2> PICK l : l = m.lost
        OBVIOUS
    <2> PICK k : k = ~m.lost
        OBVIOUS
    <2>1. Sound(m, l, k) /\ l \in BOOLEAN /\ k \in BOOLEAN
        BY <1>1, <1>2 DEF MemoryInv
    <2>2. Sound(m, l, k)'
        BY <1>1, <1>2, <2>1, SoundAsWorldMoves
    <2> QED
        BY <2>2 DEF Sound, Agrees, Follows, Covers, WithinQuota, Count, Behind, delta
<1> QED
    BY <1>1, <1>3, <1>4 DEF MemoryInv, Proxying, Counting

\* Whoever dies has nothing in memory.
LEMMA MemoryOfDead ==
    ASSUME meter' = Dead
    PROVE  MemoryInv'
BY DeadMeter DEF MemoryInv, Proxying, Accounts, Counting

\* The steps that change neither the meter, the file nor what is due.
LEMMA QuietInv ==
    MeterInv /\ (AnswerLost \/ ConfirmationEnds \/ ProcessDies \/ UNCHANGED meterWorld)
        => MeterInv'
<1> SUFFICES ASSUME MeterInv, AnswerLost \/ ConfirmationEnds \/ ProcessDies
                              \/ UNCHANGED meterWorld
             PROVE  MeterInv'
    OBVIOUS
<1>1. /\ UNCHANGED <<calendar, net, boot, panelSide, disk, due, flowed, gaps>>
      /\ forgot' \in BOOLEAN /\ (forgot => forgot') /\ verdict_' \in BOOLEAN
    BY DEF AnswerLost, ConfirmationEnds, ProcessDies, Die, meterWorld, quotaVars, MeterInv,
           MeterTypeOK
<1>2. MeterTypeOK /\ WorldInv /\ MemoryInv /\ FileInv /\ meter \in Meters
    BY DEF MeterInv, MeterTypeOK
<1>3. WorldMoves
    BY <1>1, <1>2 DEF WorldMoves, MeterTypeOK
<1>4. /\ meter' = meter /\ forgot' = forgot /\ verdict_' = verdict_
         /\ exchange' \in {exchange, [at |-> "none"]}
      \/ /\ meter' = [meter EXCEPT !.confirmed = FALSE]
         /\ UNCHANGED <<forgot, verdict_, exchange>>
      \/ Die
    BY DEF AnswerLost, ConfirmationEnds, ProcessDies, meterWorld, quotaVars
<1>5. Absent /\ due' # 0 => panelSide'.init /\ panelSide'.period = calendar'
    BY <1>1, <1>2 DEF FileInv
<1>6. CASE meter' = meter /\ forgot' = forgot /\ verdict_' = verdict_
           /\ exchange' \in {exchange, [at |-> "none"]}
    <2>1. MemoryInv'
        BY <1>1, <1>2, <1>3, <1>6, MemoryAsWorldMoves DEF MeterTypeOK
    <2>2. FileInv'
        BY <1>1, <1>2, <1>3, <1>5, <1>6, FileAsWorldMoves, MeterFields
    <2>3. WorldInv' /\ MeterTypeOK'
        BY <1>1, <1>2, <1>6 DEF WorldInv, MeterTypeOK
    <2> QED
        BY <2>1, <2>2, <2>3 DEF MeterInv
<1>7. CASE meter' = [meter EXCEPT !.confirmed = FALSE]
           /\ UNCHANGED <<forgot, verdict_, exchange>>
    <2>1. /\ meter' \in Meters /\ meter'.stage = meter.stage /\ meter'.loaded = meter.loaded
          /\ meter'.lost = meter.lost /\ meter'.writeFailed = meter.writeFailed
          /\ meter'.policy = meter.policy /\ meter'.sample = meter.sample
          /\ meter'.prev = meter.prev
        BY <1>2, <1>7 DEF Meters
    <2>2. FileInv'
        BY <1>1, <1>2, <1>3, <1>5, <2>1, FileAsWorldMoves, MeterFields
    <2>3. WorldInv' /\ MeterTypeOK'
        BY <1>1, <1>2, <1>7, <2>1 DEF WorldInv, MeterTypeOK
    <2>4. MemoryInv'
        <3>1. meter.stage = "dead" => meter' = Dead
            <4>1. Dead.confirmed = FALSE
                BY DEF Dead
            <4>2. [Dead EXCEPT !.confirmed = FALSE] = Dead
                BY <4>1, DeadMeter DEF Meters
            <4> QED
                BY <1>2, <1>7, <4>2 DEF MemoryInv
        <3> QED
            BY <1>1, <1>2, <1>7, <2>1, <3>1
            DEF MemoryInv, Proxying, Accounts, Counting, Sound, Agrees, Follows, Covers,
                WithinQuota, Count, Behind, delta
    <2> QED
        BY <2>2, <2>3, <2>4 DEF MeterInv
<1>8. CASE Die
    <2>1. meter' = Dead /\ exchange' = [at |-> "none"] /\ verdict_' = TRUE
        BY <1>8 DEF Die
    <2>2. MemoryInv'
        BY <2>1, MemoryOfDead
    <2>3. ~Absent /\ disk.sample.err # "lost" => ~meter.lost \/ forgot'
        BY <1>2, <1>8, MeterFields DEF Die, Absent
    <2>6. meter'.lost \in BOOLEAN /\ disk' = disk
        BY <1>1, <2>1, DeadMeter, MeterFields
    <2>4. FileInv'
        BY <1>3, <1>5, <2>3, <2>6, FileAsWorldMoves
    <2>5. WorldInv' /\ MeterTypeOK'
        BY <1>1, <1>2, <2>1, DeadMeter DEF WorldInv, MeterTypeOK
    <2> QED
        BY <2>2, <2>4, <2>5 DEF MeterInv
<1> QED
    BY <1>4, <1>6, <1>7, <1>8

\* The panel answers what the meter told it, changes its policy or begins a period.
LEMMA PanelInv ==
    MeterInv /\ (ExchangeMachineTraffic \/ PanelEdits \/ PanelTurnsPeriod \/ PeriodEnds)
        => MeterInv'
<1> SUFFICES ASSUME MeterInv, ExchangeMachineTraffic \/ PanelEdits \/ PanelTurnsPeriod
                              \/ PeriodEnds
             PROVE  MeterInv'
    OBVIOUS
<1>1. /\ UNCHANGED <<net, boot, disk, meter, verdict_, flowed, forgot>>
      /\ MeterTypeOK /\ WorldInv /\ MemoryInv /\ FileInv /\ meter \in Meters
      /\ panelSide \in Policies /\ calendar \in Nat /\ gaps \in Nat /\ due \in Nat
    BY DEF ExchangeMachineTraffic, PanelEdits, PanelTurnsPeriod, PeriodEnds, MeterInv,
           MeterTypeOK, quotaVars
<1>2. /\ panelSide.rev \in Nat /\ panelSide.ifc \in Nat \ {0} /\ panelSide.period \in Nat
      /\ panelSide.tx \in Nat /\ panelSide.init \in BOOLEAN
      /\ panelSide.mode \in {"nic", "proxy"}
    BY <1>1, PolicyFields
<1>3. SUFFICES /\ WorldMoves /\ WorldInv'
               /\ calendar' \in Nat /\ due' \in Nat /\ gaps' \in Nat
               /\ exchange' \in [at : {"none"}] \cup [at : {"answer"}, policy : Policies]
               /\ Absent /\ due' # 0 => panelSide'.init /\ panelSide'.period = calendar'
    <2>1. MeterTypeOK'
        BY <1>1, <1>3 DEF MeterTypeOK, WorldMoves
    <2>2. MemoryInv'
        BY <1>1, <1>3, MemoryAsWorldMoves DEF MeterTypeOK
    <2>3. FileInv'
        BY <1>1, <1>3, FileAsWorldMoves, MeterFields
    <2> QED
        BY <1>3, <2>1, <2>2, <2>3 DEF MeterInv
<1>4. CASE ExchangeMachineTraffic
    <2> DEFINE s == meter.sample
               p == IF s.period > panelSide.period
                    THEN [panelSide EXCEPT !.period = s.period, !.tx = 0] ELSE panelSide
               q == IF s.period = p.period /\ s.init
                    THEN [p EXCEPT !.tx = Larger(p.tx, s.tx), !.init = TRUE] ELSE p
    <2>1. /\ panelSide' = q /\ exchange' = [at |-> "answer", policy |-> q]
          /\ UNCHANGED <<calendar, due, gaps>> /\ meter.stage = "ticked"
        BY <1>4 DEF ExchangeMachineTraffic, quotaVars
    <2>2. s.period \in Nat /\ s.tx \in Nat /\ s.period <= calendar
          /\ Follows(meter.policy, panelSide)
        BY <1>1, <2>1, MeterFields DEF MemoryInv, Sound, Agrees
    <2>3. /\ p \in Policies /\ p.rev = panelSide.rev /\ p.ifc = panelSide.ifc
          /\ p.period <= calendar /\ p.period >= panelSide.period /\ p.init = panelSide.init
        <3>1. CASE s.period > panelSide.period
            <4>1. p = [panelSide EXCEPT !.period = s.period, !.tx = 0]
                BY <3>1
            <4>2. /\ p \in Policies /\ p.rev = panelSide.rev /\ p.ifc = panelSide.ifc
                  /\ p.init = panelSide.init /\ p.period = s.period
                BY <1>1, <2>2, <4>1 DEF Policies
            <4> QED
                BY <1>2, <2>2, <3>1, <4>2
        <3>2. CASE ~(s.period > panelSide.period)
            BY <1>1, <1>2, <3>2 DEF WorldInv
        <3> QED
            BY <3>1, <3>2
    <2> HIDE DEF p
    <2>4. p.tx \in Nat /\ Larger(p.tx, s.tx) \in Nat
        BY <2>2, <2>3, PolicyFields DEF Larger
    <2>5. /\ q \in Policies /\ q.rev = p.rev /\ q.ifc = p.ifc /\ q.period = p.period
          /\ p.init => q.init
        BY <2>3, <2>4 DEF Policies
    <2> HIDE DEF q
    <2>6. WorldMoves
        BY <1>1, <2>1, <2>3, <2>5 DEF WorldMoves
    <2>7. WorldInv'
        <3>1. Follows(q, q) /\ q.period <= calendar
            BY <2>3, <2>5, PolicyFields DEF Follows
        <3>2. q.ifc >= meter.policy.ifc
            BY <1>1, <1>2, <2>2, <2>3, <2>5, MeterFields DEF Follows
        <3>3. exchange'.policy = q
            BY <2>1
        <3> QED
            BY <1>1, <2>1, <2>3, <2>5, <3>1, <3>2, <3>3 DEF WorldInv
    <2>8. Absent /\ due' # 0 => panelSide'.init /\ panelSide'.period = calendar'
        <3> SUFFICES ASSUME Absent, due # 0 PROVE q.init /\ q.period = calendar
            BY <2>1
        <3>1. panelSide.init /\ panelSide.period = calendar
            BY <1>1 DEF FileInv
        <3> QED
            BY <1>1, <1>2, <2>3, <2>5, <3>1, PolicyFields
    <2> QED
        BY <1>1, <2>1, <2>5, <2>6, <2>7, <2>8
<1>5. CASE PanelEdits
    <2>1. panelSide'.rev = panelSide.rev + 1 /\ panelSide' \in Policies
          /\ panelSide'.period = panelSide.period /\ panelSide'.init = panelSide.init
          /\ \/ gaps' = gaps /\ panelSide'.ifc = panelSide.ifc
             \/ gaps' = gaps + 1 /\ panelSide'.ifc = panelSide.ifc + 1
        <3>1. CASE panelSide' = [panelSide EXCEPT !.rev = @ + 1,
                                    !.mode = IF @ = "nic" THEN "proxy" ELSE "nic"]
                   /\ gaps' = gaps
            <4>1. (IF panelSide.mode = "nic" THEN "proxy" ELSE "nic") \in {"nic", "proxy"}
                  /\ panelSide.rev + 1 \in Nat
                BY <1>2
            <4> QED
                BY <1>1, <3>1, <4>1 DEF Policies
        <3>2. CASE panelSide' = [panelSide EXCEPT !.rev = @ + 1, !.ifc = @ + 1]
                   /\ gaps' = gaps + 1
            <4>1. panelSide.ifc + 1 \in Nat \ {0} /\ panelSide.rev + 1 \in Nat
                BY <1>2
            <4> QED
                BY <1>1, <3>2, <4>1 DEF Policies
        <3> QED
            BY <1>5, <3>1, <3>2 DEF PanelEdits
    <2>2. UNCHANGED <<calendar, due, exchange>>
        BY <1>5 DEF PanelEdits
    <2>3. WorldMoves
        BY <1>1, <1>2, <2>1, <2>2 DEF WorldMoves
    <2>4. exchange.at = "answer" => exchange.policy \in Policies
        BY <1>1 DEF MeterTypeOK
    <2>5. WorldInv'
        BY <1>1, <1>2, <2>1, <2>2, <2>4, PolicyFields, MeterAssumption DEF WorldInv, Follows
    <2> QED
        BY <1>1, <1>2, <2>1, <2>2, <2>3, <2>5 DEF FileInv, MeterTypeOK
<1>6. CASE PanelTurnsPeriod
    <2>1. /\ panelSide' = [panelSide EXCEPT !.period = calendar, !.tx = 0]
          /\ UNCHANGED <<calendar, due, gaps, exchange>> /\ panelSide.period < calendar
        BY <1>6 DEF PanelTurnsPeriod, quotaVars
    <2>2. panelSide' \in Policies /\ panelSide'.rev = panelSide.rev
          /\ panelSide'.ifc = panelSide.ifc /\ panelSide'.period = calendar
        BY <1>1, <2>1 DEF Policies
    <2>3. WorldInv'
        BY <1>1, <2>1, <2>2 DEF WorldInv, Follows
    <2>4. Absent => due = 0
        BY <1>1, <1>2, <2>1 DEF FileInv
    <2> QED
        BY <1>1, <2>1, <2>2, <2>3, <2>4 DEF WorldMoves, MeterTypeOK
<1>7. CASE PeriodEnds
    <2>1. calendar' = calendar + 1 /\ due' = 0 /\ UNCHANGED <<panelSide, exchange, gaps>>
        BY <1>7 DEF PeriodEnds
    <2>2. exchange.at = "answer" => exchange.policy.period \in Nat
        BY <1>1 DEF MeterTypeOK, Policies
    <2>3. WorldInv'
        BY <1>1, <1>2, <2>1, <2>2, MeterAssumption DEF WorldInv
    <2> QED
        BY <1>1, <2>1, <2>3 DEF WorldMoves, MeterTypeOK
<1> QED
    BY <1>4, <1>5, <1>6, <1>7

\* A reboot of the host, or an interface whose counters start again.
LEMMA CountersRestartInv == MeterInv /\ CountersRestart => MeterInv'
<1> SUFFICES ASSUME MeterInv, CountersRestart PROVE MeterInv'
    OBVIOUS
<1>1. MeterTypeOK /\ WorldInv /\ MemoryInv /\ FileInv /\ meter \in Meters
    BY DEF MeterInv, MeterTypeOK
<1>2. /\ gaps' = gaps + 1 /\ net' = 0 /\ boot' = boot + 1
      /\ UNCHANGED <<calendar, panelSide, disk, due, flowed>>
    BY DEF CountersRestart
<1>3. WorldMoves /\ forgot' \in BOOLEAN
    BY <1>1, <1>2 DEF WorldMoves, MeterTypeOK, CountersRestart, Die
<1>4. Absent /\ due' # 0 => panelSide'.init /\ panelSide'.period = calendar'
    BY <1>1, <1>2 DEF FileInv
<1>5. panelSide.ifc \in Nat /\ gaps \in Nat /\ due \in Nat /\ net' \in Nat /\ boot' \in Nat
      /\ gaps' \in Nat
    BY <1>1, <1>2, PolicyFields DEF MeterTypeOK
<1>6. CASE UNCHANGED <<meter, exchange, verdict_, forgot>>
    <2>1. MemoryInv'
        BY <1>1, <1>2, <1>3, <1>6, MemoryAsWorldMoves DEF MeterTypeOK
    <2>2. FileInv'
        BY <1>1, <1>2, <1>3, <1>4, <1>6, FileAsWorldMoves, MeterFields
    <2>3. WorldInv'
        BY <1>1, <1>2, <1>5, <1>6, MeterAssumption DEF WorldInv
    <2>4. MeterTypeOK'
        BY <1>1, <1>2, <1>5, <1>6 DEF MeterTypeOK
    <2> QED
        BY <2>1, <2>2, <2>3, <2>4 DEF MeterInv
<1>7. CASE Die
    <2>1. meter' = Dead /\ exchange' = [at |-> "none"] /\ verdict_' = TRUE
        BY <1>7 DEF Die
    <2>2. MemoryInv'
        BY <2>1, MemoryOfDead
    <2>3. ~Absent /\ disk.sample.err # "lost" => ~meter.lost \/ forgot'
        BY <1>1, <1>7, MeterFields DEF Die, Absent
    <2>4. meter'.lost \in BOOLEAN /\ disk' = disk
        BY <1>2, <2>1, DeadMeter, MeterFields
    <2>5. FileInv'
        BY <1>3, <1>4, <2>3, <2>4, FileAsWorldMoves
    <2>6. WorldInv'
        BY <1>1, <1>2, <1>3, <1>5, <2>1, MeterAssumption DEF WorldInv, WorldMoves
    <2>7. MeterTypeOK'
        BY <1>1, <1>2, <1>3, <1>5, <2>1, DeadMeter DEF MeterTypeOK
    <2> QED
        BY <2>2, <2>5, <2>6, <2>7 DEF MeterInv
<1> QED
    BY <1>6, <1>7 DEF CountersRestart

\* The file is lost or damaged.
LEMMA FileLostInv == MeterInv /\ FileLost => MeterInv'
<1> SUFFICES ASSUME MeterInv, FileLost PROVE MeterInv'
    OBVIOUS
<1>1. MeterTypeOK /\ WorldInv /\ MemoryInv /\ FileInv /\ meter = Dead
    BY DEF MeterInv, FileLost, MemoryInv
<1>2. /\ UNCHANGED <<calendar, net, boot, panelSide, exchange, meter, verdict_, flowed, gaps,
                     forgot>>
      /\ disk' \in {NoFileYet, Damaged}
      /\ due' = (IF panelSide.init /\ panelSide.period = calendar THEN due ELSE 0)
    BY DEF FileLost
<1>3. due \in Nat /\ due' \in {0, due} /\ gaps \in Nat /\ panelSide.ifc \in Nat
    BY <1>1, <1>2, PolicyFields DEF MeterTypeOK
<1>4. MeterTypeOK'
    BY <1>1, <1>2, <1>3 DEF MeterTypeOK
<1>5. WorldInv'
    BY <1>1, <1>2, <1>3, MeterAssumption DEF WorldInv
<1>6. MemoryInv'
    BY <1>1, <1>2, MemoryOfDead
<1>7. FileInv'
    BY <1>2 DEF FileInv, Absent
<1> QED
    BY <1>4, <1>5, <1>6, <1>7 DEF MeterInv

\* Bytes flow.
LEMMA TrafficInv == MeterInv /\ Traffic => MeterInv'
<1> SUFFICES ASSUME MeterInv, Traffic PROVE MeterInv'
    OBVIOUS
<1>1. MeterTypeOK /\ WorldInv /\ MemoryInv /\ FileInv /\ meter \in Meters
    BY DEF MeterInv, MeterTypeOK
<1>2. /\ UNCHANGED <<calendar, boot, panelSide, exchange, disk, meter, verdict_, gaps, forgot>>
      /\ net' = net + 1 /\ flowed' = TRUE /\ flowed = FALSE /\ Proxying
      /\ due' = (IF meter.policy.mode = "nic" THEN due + 1 ELSE due)
    BY <1>1 DEF Traffic, MeterTypeOK
<1>3. CASE meter.policy.mode # "nic"
    <2>1. WorldMoves
        BY <1>1, <1>2, <1>3 DEF WorldMoves, MeterTypeOK
    <2>2. MemoryInv'
        BY <1>2, <2>1, MemoryAsWorldMoves
    <2>3. FileInv'
        BY <1>1, <1>2, <1>3, <2>1, FileAsWorldMoves, MeterFields DEF FileInv
    <2>4. WorldInv' /\ MeterTypeOK'
        BY <1>1, <1>2, <1>3 DEF WorldInv, MeterTypeOK
    <2> QED
        BY <2>2, <2>3, <2>4 DEF MeterInv
<1>4. CASE meter.policy.mode = "nic"
    <2> PICK m : m = meter
        OBVIOUS
    <2>1. /\ Counting(m) /\ m.sample.tx < Quota /\ ~m.writeFailed /\ due' = due + 1
          /\ Accounts(m, FALSE) /\ m.stage = "ticked"
        BY <1>1, <1>2, <1>4 DEF MemoryInv, Proxying
    <2>2. /\ m.loaded /\ Sound(m, m.lost, ~m.lost) /\ ~m.lost /\ m.sample.err = "none"
          /\ disk = [policy |-> m.policy, sample |-> m.sample, prev |-> m.prev]
        BY <1>1, <2>1 DEF MemoryInv, Counting
    <2>3. /\ calendar \in Nat /\ net \in Nat /\ boot \in Nat /\ due \in Nat /\ gaps \in Nat
          /\ panelSide.ifc \in Nat \ {0} /\ m.policy.ifc \in Nat \ {0} /\ m.sample.tx \in Nat
          /\ m.prev \in Readings \cup {NoReading} /\ Quota \in Nat \ {0}
        BY <1>1, MeterFields, PolicyFields, MeterAssumption DEF MeterTypeOK
    <2>4. Count(m) \in Nat /\ Count(m) < Quota
        BY <2>1, <2>3 DEF Count
    <2>5. Agrees(m) /\ m.policy.ifc <= panelSide.ifc
        BY <2>2 DEF Sound, Agrees, Follows
    <2>6. Agrees(m)'
        <3>1. ASSUME m.prev # NoReading
              PROVE  m.prev.boot <= boot /\ (m.prev.boot = boot => m.prev.at <= net + 1)
            BY <2>3, <2>5, <3>1 DEF Agrees, Readings
        <3> QED
            BY <1>2, <2>5, <3>1 DEF Agrees, Follows
    <2>7. Behind(m)' \in {0, 1} /\ (m.prev # NoReading => Behind(m)' = 1)
        <3>1. ASSUME m.prev # NoReading PROVE delta(m.prev)' > 0
            <4>1. m.prev.boot = boot => m.prev.at <= net
                BY <2>5, <3>1 DEF Agrees
            <4> QED
                BY <1>2, <2>3, <3>1, <4>1 DEF delta, Readings
        <3> QED
            BY <3>1 DEF Behind
    <2>8. ~forgot => /\ due + panelSide.ifc <= Count(m) + gaps + m.policy.ifc
                     /\ m.prev = NoReading =>
                          due + panelSide.ifc + 1 <= Count(m) + gaps + m.policy.ifc
        BY <2>1, <2>3, <2>4 DEF Accounts
    <2>9. Count(m)' = Count(m)
        BY <1>2 DEF Count
    <2>10. ~forgot => /\ due + 1 + panelSide.ifc <= Count(m) + Behind(m)' + gaps + m.policy.ifc
                      /\ due + 1 + panelSide.ifc <= Count(m) + gaps + m.policy.ifc + 1
                      /\ due + 1 + panelSide.ifc <= Quota + gaps + m.policy.ifc
                      /\ due + 1 <= Quota + gaps
        <3>1. CASE m.prev = NoReading
            BY <2>3, <2>4, <2>5, <2>7, <2>8, <3>1
        <3>2. CASE m.prev # NoReading
            BY <2>3, <2>4, <2>5, <2>7, <2>8, <3>2
        <3> QED
            BY <3>1, <3>2
    <2>11. Sound(m, FALSE, TRUE)'
        BY <1>2, <2>1, <2>6, <2>9, <2>10 DEF Sound, WithinQuota, Covers
    <2>12. Sound(meter, meter.lost, ~meter.lost)'
        BY <1>2, <2>2, <2>11
        DEF Sound, Agrees, Follows, Covers, WithinQuota, Count, Behind, delta
    <2>13. Sound(disk, disk.sample.err = "lost", ~meter.lost /\ disk.sample.err # "lost")'
        <3>1. disk.policy = m.policy /\ disk.sample = m.sample /\ disk.prev = m.prev
            BY <2>2
        <3> QED
            BY <1>2, <2>2, <2>11, <3>1
            DEF Sound, Agrees, Follows, Covers, WithinQuota, Count, Behind, delta
    <2>14. Accounts(m, TRUE)'
        <3>1. m.prev = NoReading => m.policy.ifc >= 2
            BY <2>1 DEF Accounts
        <3>2. ~forgot /\ m.prev = NoReading =>
                due + 1 + panelSide.ifc <= Count(m) + gaps + m.policy.ifc
            BY <2>3, <2>4, <2>8
        <3>3. ~forgot' => due' + panelSide'.ifc <= Count(m)' + gaps' + m.policy.ifc + 1
            BY <1>2, <2>1, <2>9, <2>10
        <3>4. ~forgot' /\ m.prev = NoReading =>
                due' + panelSide'.ifc + 0 <= Count(m)' + gaps' + m.policy.ifc
            BY <1>2, <2>1, <2>3, <2>9, <3>2
        <3> QED
            BY <3>1, <3>3, <3>4 DEF Accounts
    <2>15. Accounts(meter, flowed)'
        BY <1>2, <2>14 DEF Accounts, Counting, Count
    <2>16. MeterTypeOK'
        BY <1>1, <1>2, <2>1, <2>3 DEF MeterTypeOK
    <2>17. WorldInv'
        BY <1>1, <1>2, <2>1, <2>10 DEF WorldInv
    <2>18. MemoryInv'
        BY <1>1, <1>2, <2>12, <2>15 DEF MemoryInv, Proxying, Counting
    <2>19. FileInv'
        <3>1. disk \notin {NoFileYet, Damaged}
            <4>1. disk \in Files
                BY <1>1, <2>2, MeterFields DEF Files
            <4> QED
                BY <4>1, FilesAssumption
        <3> QED
            BY <1>2, <2>13, <3>1 DEF FileInv, Absent
    <2> QED
        BY <2>16, <2>17, <2>18, <2>19 DEF MeterInv
<1> QED
    BY <1>3, <1>4

\* The invariant of the meter: what is due is in the count, in memory and in the
\* file, but for what escaped at gaps.
THEOREM MeterInvHolds == MeterSpec => []MeterInv
<1>1. MeterInv /\ [MeterNext]_meterWorld => MeterInv'
    BY StartMeterInv, TickInv, ApplyAnswerInv, QuietInv, PanelInv, CountersRestartInv,
       FileLostInv, TrafficInv
    DEF MeterNext
<1> QED
    BY <1>1, MeterInitInv, PTL DEF MeterSpec

\* In a period no more is proxied than the quota, but for a byte at each gap:
\* deaths, failed writes and reads, lost files, late answers and changes of
\* policy and period give no new beginning (Apply and Tick of meter.go).
THEOREM QuotaIsKept == MeterSpec => []QuotaHolds
<1>1. MeterInv => QuotaHolds
    BY DEF MeterInv, WorldInv, QuotaHolds
<1> QED
    BY <1>1, MeterInvHolds, PTL

=============================================================================
