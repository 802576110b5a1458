----------------------------- MODULE XrayKernel -----------------------------
(***************************************************************************)
(* The xray kernel (xray.go, lifecycle.go, hot_routes.go) under the calls  *)
(* the service makes when the panel changes users or configuration         *)
(* (applyUserUpdate, applyUserDelta, applyChanges): an instance is         *)
(* replaced by a new one and retired while its connections drain, rules    *)
(* are replaced in place, and users are taken out of and put into the      *)
(* UserManager one by one, where each call can fail.  The service answers  *)
(* a failed delta with a full update and a failed update with a stop.      *)
(*                                                                         *)
(* A list of users is a set of pairs of user and credential, one per user. *)
(* On a relay entry a dispatcher lets the lines of its users pass; the     *)
(* lines of a user are one here.                                           *)
(***************************************************************************)
EXTENDS Naturals, Sequences, FiniteSets

CONSTANTS
    XUserIds, XCreds,  \* users and their credentials
    Statics, Rules,    \* of a configuration: what needs a new instance, rules
    NoInst, NoHash,    \* no instance, and the hash before the first one
    MaxRetired         \* bound: instances that drain at a time

VARIABLES
    hasManager,    \* the protocol supports UserManager
        \* the running instance, or none
    inst,          \* its UserManager and the configuration it runs
    disp,          \* its LimitDispatcher: emailToUID and the lines allowed
    listening,     \* its inbounds accept connections
    retired,       \* x.retired: the lines the dispatchers allow
        \* the books of the kernel
    xUsers, xConfig, lastKernelHash,
        \* the service
    wantUsers, wantConfig,
    call           \* the call under way

instVars == <<inst, disp, listening>>
xBooks == <<xUsers, xConfig, lastKernelHash>>
wishes == <<wantUsers, wantConfig>>
xKernelVars == <<hasManager, instVars, retired, xBooks, wishes, call>>

IdsOf(list) == {u[1] : u \in list}
UserLists == {list \in SUBSET (XUserIds \X XCreds) :
                 \A u, v \in list : u[1] = v[1] => u = v}
XConfigs == [static : Statics, rules : Rules]
NoCall == [at |-> "idle"]
SomeConfig == CHOOSE c \in XConfigs : TRUE

XKernelInit ==
    /\ hasManager \in BOOLEAN
    /\ inst = NoInst /\ disp = [known |-> {}, lines |-> {}] /\ listening = FALSE
    /\ retired = <<>>
    /\ xUsers = {} /\ xConfig = SomeConfig /\ lastKernelHash = NoHash
    /\ wantUsers = {} /\ wantConfig = SomeConfig
    /\ call = NoCall

\* ComputeHash.
ComputeHash(conf, list) == <<conf, list>>

\* UserDiff.
ToAdd(old, new) == new \ old
ToRemove(old, new) == old \ new

Go(at) == call' = [call EXCEPT !.at = at]
CallDone == call' = NoCall

-----------------------------------------------------------------------------
(* startLocked                                                              *)

StartCall(conf, list, delta) ==
    [at |-> "start", config |-> conf, users |-> list, delta |-> delta]
StopCall == [at |-> "stop"]

\* Phases 1 and 2 fail and nothing has changed.  A delta is followed by a
\* full update, which starts again; else the service stops the kernel.
CreateXrayFails ==
    /\ call.at = "start"
    /\ call' = IF call.delta THEN [call EXCEPT !.delta = FALSE] ELSE StopCall
    /\ UNCHANGED <<hasManager, instVars, retired, xBooks, wishes>>

\* The candidate is ready; the listeners of the old instance are closed.
CloseListeners ==
    /\ call.at = "start"
    /\ Go("launch") /\ listening' = FALSE
    /\ UNCHANGED <<hasManager, inst, disp, retired, xBooks, wishes>>

\* retireCurrentLocked.
RetireCurrent == retired' = IF inst = NoInst THEN retired ELSE Append(retired, disp.lines)
DrainRoom == inst = NoInst \/ Len(retired) < MaxRetired

\* Phase 3 fails: the old instance only drains, there is no current one.
LaunchFails ==
    /\ call.at = "launch" /\ DrainRoom
    /\ RetireCurrent
    /\ inst' = NoInst /\ disp' = [known |-> {}, lines |-> {}]
    /\ call' = StopCall
    /\ UNCHANGED <<hasManager, listening, xBooks, wishes>>

\* Phase 4.  The lines of the new dispatcher were set before the start.
Launched ==
    /\ call.at = "launch" /\ DrainRoom
    /\ RetireCurrent
    /\ inst' = [users |-> call.users, config |-> call.config]
    /\ disp' = [known |-> IdsOf(call.users), lines |-> IdsOf(call.users)]
    /\ listening' = TRUE
    /\ xUsers' = call.users /\ xConfig' = call.config
    /\ lastKernelHash' = ComputeHash(call.config, call.users)
    /\ call' = [at |-> "limits", users |-> call.users, next |-> 0]
    /\ UNCHANGED <<hasManager, wishes>>

-----------------------------------------------------------------------------
(* updateDispatcherLimits: UpdateLimits and SetRelayAccess of the current   *)
(* dispatcher, then SetRelayAccess of the retired ones, one after another.  *)

LimitsCurrent ==
    /\ call.at = "limits" /\ call.next = 0
    /\ disp' = IF inst = NoInst THEN disp
               ELSE [known |-> IdsOf(call.users), lines |-> IdsOf(call.users)]
    /\ call' = [call EXCEPT !.next = 1]
    /\ UNCHANGED <<hasManager, inst, listening, retired, xBooks, wishes>>

LimitsRetired ==
    /\ call.at = "limits" /\ call.next > 0
    /\ IF call.next <= Len(retired)
       THEN /\ retired' = [retired EXCEPT ![call.next] = IdsOf(call.users)]
            /\ call' = [call EXCEPT !.next = @ + 1]
       ELSE CallDone /\ UNCHANGED retired
    /\ UNCHANGED <<hasManager, instVars, xBooks, wishes>>

Without(seq, i) == SubSeq(seq, 1, i - 1) \o SubSeq(seq, i + 1, Len(seq))

\* recycleOld in the background: the connections are gone, or five minutes.
\* An instance that is still to be updated is not skipped: the call holds it.
RecycleOld ==
    /\ retired # <<>> /\ call.at # "limits"
    /\ \E i \in DOMAIN retired :
          retired' = Without(retired, i)
    /\ UNCHANGED <<hasManager, instVars, xBooks, wishes, call>>

\* stop: the current instance is retired and all of them drain.
StopKernel ==
    /\ call.at = "stop"
    /\ inst' = NoInst /\ disp' = [known |-> {}, lines |-> {}] /\ listening' = FALSE
    /\ retired' = <<>> /\ CallDone
    /\ UNCHANGED <<hasManager, xBooks, wishes>>

-----------------------------------------------------------------------------
(* Users: AddUsers, RemoveUsers and UpdateUsers with the UserManager        *)

\* removeUsersFromManager and addUsersToManager: the calls left to do; a user
\* that is not there cannot be removed and one that is cannot be added.
RemoveOne ==
    /\ call.at = "users" /\ call.remove # {}
    /\ \E u \in call.remove :
          \/ /\ u[1] \in IdsOf(inst.users)
             /\ inst' = [inst EXCEPT !.users = {v \in @ : v[1] # u[1]}]
             /\ call' = [call EXCEPT !.remove = @ \ {u}]
          \/ /\ call' = [call EXCEPT !.at = "failed"] /\ UNCHANGED inst
    /\ UNCHANGED <<hasManager, disp, listening, retired, xBooks, wishes>>

AddOne ==
    /\ call.at = "users" /\ call.remove = {} /\ call.add # {}
    /\ \E u \in call.add :
          \/ /\ u[1] \notin IdsOf(inst.users)
             /\ inst' = [inst EXCEPT !.users = @ \cup {u}]
             /\ call' = [call EXCEPT !.add = @ \ {u}]
          \/ /\ call' = [call EXCEPT !.at = "failed"] /\ UNCHANGED inst
    /\ UNCHANGED <<hasManager, disp, listening, retired, xBooks, wishes>>

\* Only now the books and the limits.
UsersDone ==
    /\ call.at = "users" /\ call.remove = {} /\ call.add = {}
    /\ xUsers' = call.users
    /\ lastKernelHash' = ComputeHash(xConfig, call.users)
    /\ call' = [at |-> "limits", users |-> call.users, next |-> 0]
    /\ UNCHANGED <<hasManager, instVars, retired, xConfig, wishes>>

\* applyUserDelta tries a full update once; applyUserUpdate fails the runtime.
UsersCall(list, delta) ==
    [at |-> "users", users |-> list, delta |-> delta,
     remove |-> ToRemove(xUsers, list), add |-> ToAdd(xUsers, list)]

\* Mutant: a failed delta is left as it is.
IgnoreFailedDelta ==
    /\ call.at = "failed"
    /\ IF call.delta THEN CallDone ELSE call' = StopCall
    /\ UNCHANGED <<hasManager, instVars, retired, xBooks, wishes>>

UsersFailed ==
    /\ call.at = "failed"
    /\ call' = IF call.delta THEN UsersCall(wantUsers, FALSE) ELSE StopCall
    /\ UNCHANGED <<hasManager, instVars, retired, xBooks, wishes>>

-----------------------------------------------------------------------------
(* The service                                                              *)

\* What the kernel does with a list that is not the one of its books.
ChangeUsers(list, delta) ==
    IF ~hasManager THEN StartCall(xConfig, list, delta) ELSE UsersCall(list, delta)

\* applyUserUpdate and applyUserDelta.  RemoveUsers of the last user stops the
\* kernel; a kernel that does not run is started.
SetUsers ==
    /\ call = NoCall
    /\ \E list \in UserLists \ {wantUsers} :
          /\ wantUsers' = list
          /\ \E delta \in BOOLEAN :
                \* a change of a credential is not a delta
                /\ delta => ~(\E u \in list, v \in wantUsers : u[1] = v[1] /\ u # v)
                /\ delta => list \subseteq wantUsers \/ wantUsers \subseteq list
                /\ call' = IF inst = NoInst
                           THEN IF list = {} THEN NoCall ELSE StartCall(wantConfig, list, FALSE)
                           ELSE IF list = {} /\ delta THEN StopCall
                           ELSE ChangeUsers(list, delta)
    /\ UNCHANGED <<hasManager, instVars, retired, xBooks, wantConfig>>

\* applyChanges with a running kernel: Reload.  An equal hash means limits
\* only; tryHotRoutes replaces the rules in place; else a new instance.
SetConfig ==
    /\ call = NoCall /\ inst # NoInst
    /\ \E conf \in XConfigs \ {wantConfig} :
          /\ wantConfig' = conf
          /\ \/ /\ conf.static = xConfig.static /\ wantUsers = xUsers
                /\ inst' = [inst EXCEPT !.config = conf]
                /\ xConfig' = conf
                /\ lastKernelHash' = ComputeHash(conf, wantUsers)
                /\ UNCHANGED call
             \/ \* AddRule or the check of the rules fails
                /\ conf.static = xConfig.static /\ wantUsers = xUsers
                /\ call' = StopCall /\ UNCHANGED <<inst, xConfig, lastKernelHash>>
             \/ /\ conf.static # xConfig.static
                /\ call' = StartCall(conf, wantUsers, FALSE)
                /\ UNCHANGED <<inst, xConfig, lastKernelHash>>
    /\ UNCHANGED <<hasManager, disp, listening, retired, xUsers, wantUsers>>

\* A reload of what is there already: an equal hash keeps the instance.
ReloadSame ==
    /\ call = NoCall /\ inst # NoInst
    /\ call' = IF lastKernelHash = ComputeHash(wantConfig, wantUsers)
               THEN [at |-> "limits", users |-> wantUsers, next |-> 0]
               ELSE StartCall(wantConfig, wantUsers, FALSE)
    /\ UNCHANGED <<hasManager, instVars, retired, xBooks, wishes>>

StopService ==
    /\ call = NoCall /\ inst # NoInst
    /\ call' = StopCall
    /\ UNCHANGED <<hasManager, instVars, retired, xBooks, wishes>>

XKernelNext ==
    \/ CreateXrayFails \/ CloseListeners \/ LaunchFails \/ Launched
    \/ LimitsCurrent \/ LimitsRetired \/ RecycleOld \/ StopKernel
    \/ RemoveOne \/ AddOne \/ UsersDone \/ UsersFailed
    \/ SetUsers \/ SetConfig \/ ReloadSame \/ StopService

XKernelSpec == XKernelInit /\ [][XKernelNext]_xKernelVars

-----------------------------------------------------------------------------
\* Between calls an instance that runs listens, has the users and the
\* configuration that are wanted, in its UserManager, its dispatcher, the
\* kernel's books and the hash that lets Reload skip; and an instance that
\* still drains lets no line pass that the users of today do not have.
InstanceMatches ==
    call = NoCall /\ inst # NoInst =>
        /\ listening
        /\ inst = [users |-> wantUsers, config |-> wantConfig]
        /\ disp = [known |-> IdsOf(wantUsers), lines |-> IdsOf(wantUsers)]
        /\ xUsers = wantUsers /\ xConfig = wantConfig
        /\ lastKernelHash = ComputeHash(wantConfig, wantUsers)
        /\ \A i \in DOMAIN retired : retired[i] \subseteq IdsOf(wantUsers)

-----------------------------------------------------------------------------
(* Types, and why it holds.                                                 *)

Pairs == XUserIds \X XCreds
Instances == [users : SUBSET Pairs, config : XConfigs]

\* A configuration has a value in each part, and no instance is not an instance.
ASSUME XKernelAssumption == Statics # {} /\ Rules # {} /\ NoInst \notin Instances

StartCalls == [at : {"start", "launch"}, config : XConfigs, users : UserLists, delta : BOOLEAN]
LimitCalls == [at : {"limits"}, users : UserLists, next : Nat]
UserCalls == [at : {"users", "failed"}, users : UserLists, delta : BOOLEAN,
              remove : SUBSET Pairs, add : SUBSET Pairs]

\* Type invariant.
XKernelTypeOK ==
    /\ hasManager \in BOOLEAN /\ listening \in BOOLEAN
    /\ inst \in {NoInst} \cup Instances
    /\ disp \in [known : SUBSET XUserIds, lines : SUBSET XUserIds]
    /\ retired \in Seq(SUBSET XUserIds)
    /\ xUsers \in UserLists /\ xConfig \in XConfigs
    /\ lastKernelHash \in {NoHash} \cup (XConfigs \X UserLists)
    /\ wantUsers \in UserLists /\ wantConfig \in XConfigs
    /\ call \in {NoCall, StopCall} \cup StartCalls \cup LimitCalls \cup UserCalls

\* A start is one of what is wanted.
StartFits ==
    call.at \in {"start", "launch"} => call.users = wantUsers /\ call.config = wantConfig

\* The instance and the books are what is wanted; the dispatchers follow one
\* after another.
LimitsFit ==
    call.at = "limits" =>
        /\ call.users = wantUsers /\ listening
        /\ inst = [users |-> wantUsers, config |-> wantConfig]
        /\ xUsers = wantUsers /\ xConfig = wantConfig
        /\ lastKernelHash = ComputeHash(wantConfig, wantUsers)
        /\ call.next > 0 => disp = [known |-> IdsOf(wantUsers), lines |-> IdsOf(wantUsers)]
        /\ \A i \in DOMAIN retired : i < call.next => retired[i] \subseteq IdsOf(wantUsers)

\* The UserManager lies between the list of the books and the one wanted, as
\* far as the calls left to do say; a call that failed leaves it there.
UsersFit ==
    call.at \in {"users", "failed"} =>
        /\ call.users = wantUsers /\ listening /\ inst # NoInst
        /\ xConfig = wantConfig /\ inst.config = wantConfig
        /\ call.add \subseteq wantUsers \ xUsers /\ call.remove \subseteq xUsers \ wantUsers
        /\ call.remove # {} => call.add = wantUsers \ xUsers
        /\ wantUsers \cap xUsers \subseteq inst.users
        /\ inst.users \subseteq wantUsers \cup xUsers
        /\ call.at = "users" => /\ wantUsers \ call.add \subseteq inst.users
                                /\ inst.users \subseteq wantUsers \cup call.remove

XKernelInv == InstanceMatches /\ StartFits /\ LimitsFit /\ UsersFit
=============================================================================
