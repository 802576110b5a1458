------------------------------ MODULE Balancer ------------------------------
(***************************************************************************)
(* The layer-4 entry of a balancer node (internal/balancer and             *)
(* internal/balancerkernel).  A Gateway owns at most one Runtime; a        *)
(* Runtime owns a listener, an accept loop and one session per client,     *)
(* which picks targets until a dial succeeds and then copies both ways.    *)
(* Close cancels the context, closes the listener, closes every            *)
(* registered connection and waits for the goroutines.                     *)
(* The bytes copied and the text of the PROXY header are left out.         *)
(***************************************************************************)
EXTENDS Naturals, FiniteSets, SequencesExt

CONSTANTS
    Clients,        \* connections that arrive at the entry
    TargetLists,    \* the target lists the panel may send, valid or not
    MaxSessions,    \* Config.MaxSessions
    CursorCycle,    \* bound: the cursors count modulo this multiple of the list lengths
    MaxRuntimes     \* bound: runtimes started

VARIABLES
    runtime,    \* the current Runtime: its number, context, listener, phase
    accepting,  \* the accept loop: ended, waiting, or holding a client
    registered, \* Runtime.connections
    session,    \* the session of every client
    selector,   \* the targets in order and the cursor of every priority
    picks,      \* history: picks of each target since the list last changed
    caller      \* what the holder of Gateway.mu does once Close returned

balancerVars == <<runtime, accepting, registered, session, selector, picks, caller>>

\* tried, gaveUp and missed are history: the targets dialed in vain, that the session
\* ended because none was left, and those online then whose address it did not dial.
NoClient == [pc |-> "none", gen |-> 0, excluded |-> {}, client |-> FALSE, upstream |-> FALSE,
             ended |-> {}, target |-> {}, tried |-> {}, gaveUp |-> FALSE, missed |-> {}]

(***************************************************************************)
(* Selector.Update: a list with a repeated or impossible member is refused *)
(* as a whole.  The list is kept by priority and id, so a list is the set  *)
(* of its members here.                                                    *)
(***************************************************************************)
ListValid(list) ==
    /\ \A i \in DOMAIN list : list[i].id > 0 /\ list[i].priority > 0 /\ list[i].address # ""
    /\ \A i, j \in DOMAIN list :
          i # j => list[i].id # list[j].id /\ list[i].address # list[j].address

Ordered(targets) ==
    SetToSortSeq(targets, LAMBDA s, t : \/ s.priority < t.priority
                                        \/ s.priority = t.priority /\ s.id < t.id)

Members == UNION {ToSet(list) : list \in TargetLists}
TargetIds == {t.id : t \in Members}
Priorities == {t.priority : t \in Members}

IdsOf(targets) == {t.id : t \in targets}
Untried(targets, excluded) == {t \in targets : t.online /\ t.id \notin excluded}
Best(targets) == {t \in targets : \A u \in targets : t.priority <= u.priority}

\* Mutant: the best priority is found before the tried ones are left out.
StayAtBest(targets, excluded) ==
    {t \in Best({u \in targets : u.online}) : t.id \notin excluded}

\* Selector.Pick: the best priority among those neither tried nor offline.
Eligible(targets, excluded) == Best(Untried(targets, excluded))

Picked(eligible) ==
    LET priority == (CHOOSE t \in eligible : TRUE).priority
    IN  Ordered(eligible)[(selector.cursor[priority] % Cardinality(eligible)) + 1]

Cancelled == ~runtime.live

\* Picks of each target beyond those every eligible target had.
Counted(t, eligible) ==
    LET p == [picks EXCEPT ![t.id] = @ + 1]
        round == IF \A u \in eligible : p[u.id] > 0 THEN 1 ELSE 0
    IN  [u \in DOMAIN p |-> IF u \in IdsOf(eligible) THEN p[u] - round ELSE p[u]]

BalancerInit ==
    /\ runtime = [gen |-> 0, live |-> FALSE, listening |-> FALSE, phase |-> "closed"]
    /\ accepting = "ended"
    /\ registered = {}
    /\ session = [c \in Clients |-> NoClient]
    /\ selector = [targets |-> {}, cursor |-> [p \in Priorities |-> 0]]
    /\ picks = [t \in TargetIds |-> 0]
    /\ caller = "idle"

-----------------------------------------------------------------------------
(* Gateway.Start, Reload and Stop; each holds Gateway.mu throughout. *)

\* balancer.Start: nothing is opened when the list is refused.
StartRuntime(list) ==
    IF ListValid(list)
    THEN /\ runtime' = [gen |-> runtime.gen + 1, live |-> TRUE, listening |-> TRUE,
                        phase |-> "open"]
         /\ accepting' = "waiting"
         /\ selector' = [targets |-> ToSet(list), cursor |-> [p \in Priorities |-> 0]]
         /\ picks' = [t \in TargetIds |-> 0]
    ELSE UNCHANGED <<runtime, accepting, selector, picks>>

\* Gateway.Start with no runtime before it.
StartGateway(list) ==
    /\ caller = "idle" /\ runtime.phase = "closed" /\ runtime.gen < MaxRuntimes
    /\ StartRuntime(list)
    /\ UNCHANGED <<registered, session, caller>>

\* Gateway.Reload when only the targets differ: connections stay as they are.
ReloadTargets(list) ==
    /\ caller = "idle" /\ runtime.phase = "open" /\ ToSet(list) # selector.targets
    /\ ListValid(list)
    /\ selector' = [selector EXCEPT !.targets = ToSet(list)]
    /\ picks' = [t \in TargetIds |-> 0]
    /\ UNCHANGED <<runtime, accepting, registered, session, caller>>

\* Runtime.Close, called by Stop, or by Start before a new runtime.
BeginClose(next) ==
    /\ caller = "idle" /\ runtime.phase = "open"
    /\ next = "restart" => runtime.gen < MaxRuntimes
    /\ runtime' = [runtime EXCEPT !.live = FALSE, !.phase = "cancelled"]
    /\ caller' = next
    /\ UNCHANGED <<accepting, registered, session, selector, picks>>

CloseListener ==
    /\ runtime.phase = "cancelled"
    /\ runtime' = [runtime EXCEPT !.listening = FALSE, !.phase = "deaf"]
    /\ UNCHANGED <<accepting, registered, session, selector, picks, caller>>

\* Every registered connection is closed under the lock.
CloseConnections ==
    /\ runtime.phase = "deaf"
    /\ runtime' = [runtime EXCEPT !.phase = "swept"]
    /\ session' = [c \in Clients |->
          [session[c] EXCEPT
              !.client = @ /\ <<c, "client">> \notin registered,
              !.upstream = @ /\ <<c, "upstream">> \notin registered]]
    /\ UNCHANGED <<accepting, registered, selector, picks, caller>>

\* wg.Wait returned; Start goes on with the new runtime.
FinishClose(list) ==
    /\ runtime.phase = "swept" /\ accepting = "ended"
    /\ \A c \in Clients : session[c].pc = "none"
    /\ caller' = "idle"
    /\ IF caller = "restart"
       THEN /\ IF ListValid(list)
               THEN StartRuntime(list)
               ELSE /\ runtime' = [runtime EXCEPT !.phase = "closed"]
                    /\ UNCHANGED <<accepting, selector, picks>>
       ELSE /\ runtime' = [runtime EXCEPT !.phase = "closed"]
            /\ UNCHANGED <<accepting, selector, picks>>
    /\ UNCHANGED <<registered, session>>

-----------------------------------------------------------------------------
(* Runtime.acceptLoop *)

AcceptClient(c) ==
    /\ accepting = "waiting" /\ runtime.listening
    /\ session[c] = NoClient
    /\ accepting' = "holding"
    /\ session' = [session EXCEPT ![c] = [NoClient EXCEPT !.pc = "accepted", !.client = TRUE,
                                                          !.gen = runtime.gen]]
    /\ UNCHANGED <<runtime, registered, selector, picks, caller>>

\* Under the lock: refused after Close began or with the table full.
AdmitClient(c) ==
    /\ accepting = "holding" /\ session[c].pc = "accepted"
    /\ accepting' = "waiting"
    /\ IF Cancelled \/ Cardinality(registered) >= 2 * MaxSessions
       THEN session' = [session EXCEPT ![c] = NoClient] /\ UNCHANGED registered
       ELSE /\ session' = [session EXCEPT ![c].pc = "pick"]
            /\ registered' = registered \cup {<<c, "client">>}
    /\ UNCHANGED <<runtime, selector, picks, caller>>

\* Accept fails: after Close, or for good, which ends the runtime by itself.
AcceptFails ==
    /\ accepting = "waiting"
    /\ accepting' = "ended"
    /\ runtime' = [runtime EXCEPT !.live = FALSE]
    /\ UNCHANGED <<registered, session, selector, picks, caller>>

-----------------------------------------------------------------------------
(* Runtime.connection *)

\* The deferred functions: both connections closed and taken out.
Gone(c) ==
    /\ session' = [session EXCEPT ![c] = NoClient]
    /\ registered' = registered \ {<<c, "client">>, <<c, "upstream">>}

\* The loop of connection is left without an upstream.
TurnedAway(s, gaveUp) ==
    LET dialed == {u.address : u \in s.tried}
        missed == {t \in selector.targets : t.online /\ t.address \notin dialed}
    IN  [s EXCEPT !.pc = "leaving", !.excluded = {}, !.gaveUp = gaveUp,
                  !.missed = IF gaveUp THEN missed ELSE {},
                  !.tried = IF gaveUp THEN @ ELSE {}]

\* Selector.Pick; the ten seconds of the session may be over (late).  The
\* cursor has moved before the context is looked at.
PickTarget(c, late) ==
    LET s == session[c]
        eligible == Eligible(selector.targets, s.excluded)
        t == Picked(eligible)
    IN  /\ s.pc = "pick"
        /\ IF eligible = {}
           THEN UNCHANGED <<selector, picks>>
           ELSE /\ selector' = [selector EXCEPT !.cursor[t.priority] = (@ + 1) % CursorCycle]
                /\ picks' = IF s.excluded = {} THEN Counted(t, eligible)
                                               ELSE [u \in TargetIds |-> 0]
        /\ session' = [session EXCEPT ![c] =
              IF eligible = {} \/ Cancelled \/ late
              THEN TurnedAway(s, ~Cancelled /\ ~late)
              ELSE [s EXCEPT !.pc = "dial", !.excluded = @ \cup {t.id}, !.target = {t}]]
        /\ UNCHANGED <<runtime, accepting, registered, caller>>

\* DialContext and writeProxyHeader; when either fails the next is tried, and
\* once both succeed nothing reads the excluded ids again.
DialTarget(c, ok) ==
    LET s == session[c] IN
    /\ s.pc = "dial"
    /\ session' = [session EXCEPT ![c] =
          [s EXCEPT !.pc = IF ok THEN "insert" ELSE "pick", !.upstream = ok, !.target = {},
                    !.excluded = IF ok THEN {} ELSE @,
                    !.tried = IF ok THEN {} ELSE @ \cup s.target]]
    /\ UNCHANGED <<runtime, accepting, registered, selector, picks, caller>>

\* Mutant: the context is not looked at again after the dial.
InsertAnyway(c) ==
    /\ session[c].pc = "insert"
    /\ session' = [session EXCEPT ![c].pc = "copy"]
    /\ registered' = registered \cup {<<c, "upstream">>}
    /\ UNCHANGED <<runtime, accepting, selector, picks, caller>>

\* The upstream joins the table unless Close began meanwhile.
InsertUpstream(c) ==
    /\ session[c].pc = "insert"
    /\ IF Cancelled
       THEN /\ session' = [session EXCEPT ![c].pc = "leaving", ![c].upstream = FALSE]
            /\ UNCHANGED registered
       ELSE /\ session' = [session EXCEPT ![c].pc = "copy"]
            /\ registered' = registered \cup {<<c, "upstream">>}
    /\ UNCHANGED <<runtime, accepting, selector, picks, caller>>

\* One io.Copy ends: its source has no more, or a connection was closed.
CopyEnds(c, direction) ==
    LET ended == session[c].ended \cup {direction} IN
    /\ session[c].pc = "copy" /\ direction \notin session[c].ended
    /\ session' = [session EXCEPT ![c].ended = ended,
                                  ![c].pc = IF ended = {"up", "down"} THEN "leaving" ELSE @]
    /\ UNCHANGED <<runtime, accepting, registered, selector, picks, caller>>

LeaveSession(c) ==
    /\ session[c].pc = "leaving"
    /\ Gone(c)
    /\ UNCHANGED <<runtime, accepting, selector, picks, caller>>

BalancerNext ==
    \/ \E list \in TargetLists :
          StartGateway(list) \/ ReloadTargets(list) \/ FinishClose(list)
    \/ \E next \in {"stop", "restart"} : BeginClose(next)
    \/ CloseListener \/ CloseConnections \/ AcceptFails
    \/ \E c \in Clients :
          \/ AcceptClient(c) \/ AdmitClient(c) \/ InsertUpstream(c) \/ LeaveSession(c)
          \/ \E ok \in BOOLEAN : DialTarget(c, ok) \/ PickTarget(c, ok)
          \/ \E d \in {"up", "down"} : CopyEnds(c, d)

-----------------------------------------------------------------------------
\* Once Close walked over the connections nothing is left that would keep it
\* waiting: whatever is registered afterwards is already closed.
SweepLeavesNothing ==
    runtime.phase \in {"swept", "closed"} =>
        \A c \in Clients : /\ <<c, "client">> \in registered => ~session[c].client
                           /\ <<c, "upstream">> \in registered => ~session[c].upstream

\* A session belongs to the runtime that is current: none outlives a restart.
SessionsAreCurrent ==
    \A c \in Clients :
        session[c].pc # "none" => session[c].gen = runtime.gen /\ runtime.phase # "closed"

\* A session that ends without a target, its ten seconds not over and Close not
\* begun, has dialed every address online at that moment.  The code remembers ids
\* and not addresses, so one address may be passed over: that of a target the
\* panel moved, under its id, after the session had tried the old address.
FailoverIsComplete ==
    \A c \in Clients :
        session[c].gaveUp =>
            \A t \in session[c].missed : t.id \in IdsOf(session[c].tried)

\* Clients without a failed dial are spread evenly over the best targets.
EvenlySpread ==
    \A t, u \in Eligible(selector.targets, {}) : picks[t.id] <= picks[u.id] + 1

\* Runtime.Close, acceptLoop and connection (balancer/runtime.go) with
\* Selector.Pick: Close leaves nothing open, a restart waits for the old
\* sessions, a session given up in time with the runtime open has dialed what was
\* online (but for a target moved under its id) and clients are spread evenly.
\* Nothing is promised to a client whose ten seconds ran out, that Close cut off
\* or that the full table refused: those are let go with targets untried.
BalancerHolds ==
    SweepLeavesNothing /\ SessionsAreCurrent /\ FailoverIsComplete /\ EvenlySpread
=============================================================================
