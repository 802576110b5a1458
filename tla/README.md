# TLA+ verification of YZ-Agent

YZ-Agent is the node agent of the YZboard panel: a Go program that runs on a
proxy server, takes its configuration and users from the panel over WebSocket
pushes and REST polls, drives a sing-box or xray kernel with them, and reports
traffic back. This directory holds TLA+ models of the parts in which ordering,
failure and concurrency decide whether the agent is correct, the TLC runs that
check them on small instances, and TLAPS proofs.

Paths below are relative to `internal/` of the repository unless they start
with `src/`.

## 1. Inventory

### Components

| Component | State it keeps | Operations | What makes it correct |
|---|---|---|---|
| Pending report store (`service/pending_report.go`, `pending_journal.go`, `pending_state.go`) | checkpoint file, directory of journal records, memory of the last saved value and number | `save`, `compact`, `load` | a process that dies at any file operation is followed by one that finds the saved value; files that a crash can leave are loadable |
| Report pipeline (`service/service.go` 1330-1830, `tracker`) | unsent counters, the batch that waits, revision cache, backoff | sample, persist, take a batch, send, remember or forget it, final push at shutdown | nothing is billed twice or dropped; a report number keeps its content |
| Device gate (`devicegate`) | session, per account a source with its lease, permits, revocations, returns, barriers | acquire, cancel, release, admit, synchronise, revoke, set users, begin/lose a session, stop | a revoked lease does not return through an old answer; no slot is freed under an open connection; a lease is not trusted longer than the panel grants it |
| Control loop (`service/service.go`, `runtime_failure.go`) | wanted configuration and users, kernel state, failed attempt, poll state, generation, version gate | one case of the `select` in `Run` each | what runs is what is wanted; the node reaches the panel's state; what failed is not started again |
| Node mailbox (`controlplane/mailbox.go`) | base of users, merged pushes, ready and notification flags | apply, seed, drain | a merged push equals the pushes it merges |
| Version gate (`panel/version.go`) | epoch, number, retired epochs | accept | versions never go back |
| Control plane adapters (`controlplane`) | bounded event and status channels | bootstrap, poll, forward | a drop is always followed by a repair |
| WebSocket client (`panel/ws*.go`, `realtime.go`) | send queue, its bytes, calls that wait for receipts | send, request, receipt, disconnect | every call ends once; the queue stays within its limits |
| Machine orchestrator (`machine`) | nodes of a machine, their cancellation, discovery | discover, start, stop, finish, restart | one instance per node; none is lost |
| Machine traffic meter (`machinetraffic`) | counters per interface, saved totals, thresholds | sample, save, load, reset | totals survive counter resets and restarts |
| Firewall manager (`firewall`, `service/firewall.go`) | plan per node, plans that wait for a confirmation, expected nodes, the record of its own rules | plan, apply, release, check, expect nodes, close | no port is left open that no node owns; a node with a source policy never listens unguarded; a restart takes nothing from a node that has not reported yet |
| Tracker (`tracker`, `traffic*.go` of both kernels) | totals of users, landing nodes and users on landing nodes; counters of removed users | count, sample, retire, forget, reactivate | every byte is told exactly once, also of users removed, added again, or on an instance that drains |
| Limiter (`limiter`, `kernel/singbox/conntracker.go`, `kernel/xray/dispatcher.go`) | connections and devices of each user, devices on other nodes, buckets | admit, count, release, replace the users | slots are exact and limits hold however admissions and changes of the users overlap |
| Automatic speed limit (`autospeed`, `service/auto_speed.go`, `user_speed.go`) | window of samples, penalties, their file | sample, update, restore, save | a limit is imposed when the samples deserve it, and the connections have it |
| Gateway (`balancer`, `balancerkernel`) | listener, sessions, targets with a cursor | accept, dial, pair, update the targets, close | closing leaves no session; a client that fails over passes by no target while its time lasts; clients are spread evenly |
| Access log (`accesslog`) | records, the batch under way, checkpoint | record, next, confirm | a confirmed record is not sent again, an expired batch is dropped once |
| Kernels (`kernel`, `kernel/singbox`, `kernel/xray`) | the running box or instance, those that drain, users, routes, counters | start, reload, hot update of routes and users, stop | after every call, failed or not, the tables inside the kernel and the kernel's books agree |
| Routes and relay lines (`config.go`, `relay.go` of both kernels, `model`) | the composed list of rules and outbounds; the two ends of a line | validate, build | traffic goes where the node, its rules and the relay mean it; the ends of a line fit |
| WireGuard kernel (`directwg`) | peers, generations of users, permits, connections | start, replace the users, packet, reap, close | a slot outlives its connections; nothing is left of removed users |
| Certificates (`cert`, `service/operations.go`) | configuration, material, generation, flag of a renewal, files | start, reconfigure, renew, handle an event, stop | material is that of the configuration in force; no renewal is missed; a request is carried out once as long as it is the last one taken |
| Agent process (`cmd/yz-agent`, `config/watcher.go`, `config/privacy.go`) | `config.yml`, the mailbox of reloads, the configuration that runs | watch, reload, protect, restart | what runs is what the file says; protection and command line do not undo each other |
| Scheduling (`scheduling`) | targets and results of probes | update, probe, record | a result belongs to the target it names |
| Relay entry (`realityrelay`, `agentcli/reality_relay.go`) | configuration, connections, file | handle, reload, follow, close | a reload leaves no revoked connection; what is active is counted exactly |
| Remote upgrade (`agentcli`) | operations on disk, locks, programs, backup links | order, execute, download, replace, restart, roll back | an operation is carried out once; files and service agree |
| The rest (`config`, `sourcepolicy`, `privacy`, `timesync`, `healthcheck`, `nlog`, `monitor`, the menus of `agentcli`, installers, `systemwg`, `src/compat`) | settings, files, logs | validation, conversion, network and terminal input and output | not concurrent, or not the agent's own protocol |

### How they interact

- `Service.Run` is one goroutine with a `select` over seven tickers, poll
  results (capacity 1), connection statuses (4), pushed events (16) or the
  mailbox's notification, and results of background work. Everything the
  service knows of the panel is changed there, one case at a time.
- A poll and the sending of a report run in goroutines of their own and hand
  their results back through a channel (polls) or under `reportMu` (reports).
- The device gate is called by connections of the kernel, by the
  synchronisation timer, by pushed revocations and by user updates of the
  service; all of it meets under `Manager.mu`, and calls to the panel are made
  outside it.
- Reports and device calls go to the panel over the WebSocket and, when that
  fails or takes too long, over HTTP with the same content. The panel may
  therefore see a request late, or twice.
- The service drives its kernel one call at a time; connections run beside it and
  meet the kernel's tracker or dispatcher, the limiter's buckets and the device
  gate. The service's sampling reads counters while connections add to them.
- The process restarts all services when the file of its configuration changes;
  the command line and an editor write the same file.
- On a machine with several nodes one connection serves all of them; pushes
  are merged in the mailbox of each node.

### What is hard here

Crashes between file operations of the store; answers of calls that overlap;
pushes, polls and replicas that are ahead of or behind each other; drops at
full channels; attempts that fail half way; and, in the end, whether everything
that was lost on the way is repaired. `PROJECT.json` lists each of these under
`hazards`, at its line, with the properties that would show it going wrong.

## 2. Modules

| Module | Models | Extends |
|---|---|---|
| `PendingStore` | the store, one step per file operation | |
| `ReportPipeline` | sampling, batching, sending, shutdown, the panel's booking | `PendingStore` (composition: the pipeline's actors begin saves and wait for the store's file operations, which interleave with everything else) |
| `ReportPipelineProofs` | theorems about the store, about numbers, saved batches and dropped traffic, then about double billing and lost traffic | `ReportPipeline` |
| `DeviceGate` | the gate and the panel's side of leases | |
| `DeviceGateProofs` | theorems about types and revocation, the end of leases, and returns | `DeviceGate` |
| `NodeControl` | control loop, mailbox, version gate, channels, bootstrap, the panel and a replica | |
| `NodeControlProofs` | theorems about it | `NodeControl` |
| `Machine` | the nodes of a machine: discovery, starts, stops, traffic protection, shutdown | |
| `MachineProofs` | theorems about it and about the firewall its services share, a section each | `Machine`, `Firewall` |
| `RemoteCall` | abstract specification: what a call to the panel promises its caller | |
| `WSClient` | calls over the WebSocket, its queues, disconnection, fallback to HTTP; implements `RemoteCall` | |
| `TrafficMeter` | the machine's traffic quota, its file, the host's counters | |
| `AccessLog` | the recorder of accesses, its file, the delivery of batches | |
| `Firewall` | the firewall manager the nodes of a process share, its record, the host's rules, the order of a service's calls | |
| `TrafficTracker` | differences of totals, confirmation, removal (operators) | |
| `SingBoxTraffic`, `XrayTraffic` | the counters of each kernel, retired users, sampling by the service | `TrafficTracker` |
| `SingBoxAdmission`, `XrayAdmission` | admission of connections, devices, permits, changes of users | |
| `AdmissionProofs` | theorems about both, a section each | `SingBoxAdmission`, `XrayAdmission` |
| `SingBoxKernel`, `XrayKernel` | start, reload, updates and stop of the kernels | |
| `RoutePlan` | the list of rules and outbounds of both kernels, and what it does to a request | |
| `RelayLink` | both ends of a relay line and an ordinary node | |
| `KernelProofs` | theorems about both kernels, lines and plans, a section each | `SingBoxKernel`, `XrayKernel`, `RelayLink`, `RoutePlan` |
| `DirectWireGuard` | the WireGuard kernel | |
| `SpeedLimits` | automatic speed limit, sampler, buckets | |
| `Balancer` | gateway: runtime, sessions, selector | |
| `Probing` | the monitor of landing ports | |
| `Certificates` | the certificate manager, requested renewals | |
| `RealityRelay` | the relay entry and the file it follows | |
| `ComponentProofs` | theorems about four components, a section each | `WSClient`, `RealityRelay`, `Probing`, `TrafficMeter` |
| `RemoteUpgrade` | operations ordered by the panel, upgrade, rollback | |
| `AgentProcess` | process, watcher, protection of the configuration | |
| `ProcessProofs` | theorems about the agent's process and what restarts with it or restarts it, a section each | `AgentProcess`, `Certificates`, `RemoteUpgrade` |
| `MC...` | definitions for the `.cfg` files: small sets, symmetry | one of the above, or several (`MCLive`, `MCShared` ...) |

`MCShared`, `MCComponents`, `MCKernels`, `MCLive` and `MCDeviceGate` combine parts that do not
interact: the variable `part` says which of them a behaviour is about, and the
others stay in one initial state. Such a run explores the union of the parts'
state spaces, never their product.

### PendingStore

`ckpt` and `journal` are the files; `saved`, `lastState`, `journalSeq`,
`loadErr` are the fields of `pendingReportStore`; `pc` says which file
operation comes next. `BeginSave` decides between checkpoint and record, as
`save` does (first save, every `checkpointEvery` changes, or an empty value);
then come the publication of the checkpoint, the removal of the journal record
by record, the removal of an empty checkpoint, or the appending of one record.
Compaction and loading have their own phases. Replacing a file is atomic
(`privacy` writes a temporary file, syncs and renames it), removing a directory
is not. A write, the removal of the journal, the removal of a checkpoint, a
read and the content of the checkpoint may be bad, as selected by `Faults`. The
saved value is one batch and one counter: the code's maps are handled entry by
entry, independently of each other. `hist` and `promised` are history
variables: what replaying up to each number must give, and what the files held
when the process died.

### ReportPipeline

Actors are the main loop (`main`), the goroutine that sends (`push`) and the
panel. `reportMu` is `mu`; a save holds it over all its file operations.
`stale` and `moved` stand for the comparison of the tracker's revision with
`persistedRevision`. `wire` holds the requests the panel may still process, in
any order, late and repeatedly; it books a number once. `Restart` is a crash or
a new start of the process at any moment.

### DeviceGate

One action is one critical section of `Manager.mu`; the call to the panel lies
between two of them. `gate[u]` is the account's part of the manager (source
with lease and permits, `revoked`, `retired`, barriers), `flight[u]` the shared
admission, `call` the synchronisation. `wire` and `answers` are the network,
`session` and `hold` the panel, external. Numbers of `Manager.seq` that only
order connections for the panel are left out; a critical section draws one.
`fence` remembers when the node last revoked a lease.

### NodeControl

The main loop is sequential, so `svc` is one record and an operation of the
service an operator from a record to the set of records it may leave
(`applyChanges`, `applyConfigUpdate`, `applyUserUpdate`, `applyUserDelta`,
`applyPullResult`, `handleWSEvent` keep the names of the functions); an action
is one case of the `select`. A start, reload or user update of the kernel may
fail at every attempt, with or without the mark that the environment (firewall,
source rules) is to blame. `past` is the sequence of the panel's states;
polls are answered from `replica`, which may lag. `box` is the mailbox of a
machine's node. A configuration is a model value with what the kernel depends
on (`KernelHash`): "a" and "a2" differ only in settings the kernel does not see.

### Machine

`nodes` is `Orchestrator.nodes`; a handle is one instance of a node's service.
Run's first start (`main`) and the discovery (`disc`) take the steps of
`startNode` and `stopNode`, one critical section of `mu` or `eventsMu` each,
while services end (`finishNode`), the meter's verdict turns, its two readers
(ticker and reporter) use what they read later, and the process is told to stop.
A handle goes back to the pool once nobody refers to it.

### WSClient and RemoteCall

Callers, the goroutine of `Run`, the reader of a connection and the panel
interleave; an action is one critical section of `WSClient.mu`, one operation on
a channel, or one message. `RemoteCall` has four states of a call and the number
of times the panel has processed it. The refinement maps every stage between
asking and the end, over both channels, to "asked". `ReportPipeline` and
`DeviceGate` are written for a network that does what `RemoteCall` allows.

### TrafficMeter

`meter` has the fields of `Meter` that decide, `disk` the file, `net` and `boot`
the counter of the interface. `due`, `flowed`, `gaps` and `forgot` are history
variables. At most one byte flows between two ticks, so that an overrun of one
per gap is what the ticks of one second stand for; `gaps` counts what no meter can
see: bytes between the last reading and a restart of the counters or a change
of the interface.

### AccessLog

Connections add records while one goroutine expires, saves, sends and confirms
batches. `logFile` is the file, `image` the copy `Checkpoint` writes after it has
released the mutex. The panel takes each batch number once.

### Firewall

`plans`, `confirm` (`needsConfirmation`), `expected`, `discovery` and `lastErr`
are the manager's fields, `backend` the record in memory and `record` its file,
`host` the rules of the operating system: UFW admissions, one nftables table of
redirections and one of drops. `job` is the holder of `Manager.mu` and the
command or write it comes to next; `Work` is one such step of `ApplySources`,
`ensureUFWManaged`, `applyRedirects` and the removal of rules nobody wants, and
each may fail without effect, after its effect, or be the one at which the
process dies. `node` is a service between its calls: a guarded node (with a
source policy) prepares its drops before its kernel listens; a hop node (port
range redirected to its own) and a landing of a relay are admitted once they
listen; a manual one releases what it had. `AdminEdits` is what an administrator
does to UFW between two holders of the lock. `before` is a history variable: what
an owner had, on the host and in the record, when the process died. The plan of
a node is reduced to the ports it admits, redirects and guards.

### SingBoxTraffic, XrayTraffic and TrafficTracker

One entry of the totals. `cells` (`gens` in xray) are the counters it has had: a
connection holds the one it was given, and may add to it after the entry was
retired or registered anew. `retiring` (`xRetire`) is `retireCounter` between its
steps, `loop` is `collectTraffic`, `sbTracker` the service's tracker. `moved` is
the number of bytes that passed; what the panel was told, what is held and
`moved` must agree, except for bytes that reach a counter of a closed xray
instance (`outlived`).

### SingBoxAdmission and XrayAdmission

A goroutine per connection goes through the checks of `conntracker.go` or
`dispatcher.go` in their order, one critical section per step; between two of
them permits are revoked and users replaced (`updater`, `xUpdater`). The answer
of the device gate is taken or refused with the state at its arrival. `vouched`
and `exempt` hold sources let in because the panel said other nodes know them.

### SingBoxKernel and XrayKernel

`job` (`call`) is the call that holds the kernel's mutex and its next step; each
step can fail as in the code, and the rollback too. In `SingBoxKernel` requests
are matched by the router and then by the tracker while the lists change, and
remember what the lists were when they were matched (`ruled`, `allowed`, `rolling`):
a request whose identity the tracker let through at that moment has its line, but for
a request matched between the two steps of a restoration. In
`XrayKernel` the service's reactions are included: a failed delta becomes a full
update, a failed update a stop.

### RoutePlan and RelayLink

`RoutePlan` builds the rules of both kernels as sequences, in the code's order,
from a node's specification, and routes every class of request by the first
match; `RoutedAsMeant` compares that with what the specification says,
independently of the order. What no rule matches leaves by `final` (sing-box, always
direct) or by the first outbound (xray), so the outbounds are a list: `direct` goes
before all others unless the node has its own, and then an ordinary xray node has the
first of its own outbounds as its default (`Unnamed`). `RelayLink` builds both ends of a line from the
panel's description; what the ends speak, what protects them and by which name
the kernel knows a user are compared.

### DirectWireGuard

`wgTable` is `State.users`, `wgGens` every `userState`, `wgPeers` the device's
peers. The service's call and the reaper (`wgProcs`) take steps between
critical sections of `Runtime.mu` and `State.mu`; packets ask for permits and
close connections in goroutines of their own.

### SpeedLimits

Time goes in seconds; a tick of the service is the sequence of its steps
(`stepsLeft`), between which connections ask for their bucket; a removed user's bucket
goes before the kernel, as the last step, closes the connections. `evidence` is the
history of samples from which `Deserved` says, independently of the manager's
bookkeeping, whether a limit is due.

### Balancer

One runtime at a time, with its accept loop, a session per client and `Close` as
cancel, sweep and wait. Cursors count modulo `CursorCycle` times the length of
their list; `picks` are the successful choices since the targets changed. A session
records that no target was left (`gaveUp`) and which online addresses it had not dialed by then
(`missed`): the ten seconds of `connection` run out at any time, `Close` cuts it off,
`MaxSessions` refuses it, or no target is left, and only in the last case is anything
promised about the targets (`FailoverIsComplete`).

### Probing

`round` is the copy of the targets a round works on while `Update` replaces them;
a measurement that is not younger than the last one is dropped. A list of more than 256 targets is
the empty one.

### Certificates

`operation` is the holder of `opMu`, `handler` the event handler that holds only
`materialMu`, `generation` what separates them. `site` is certmagic's storage
(external). A restart keeps the files and the storage; `request` is the renewal the
configuration in force asks for, the one begun last and its file. Identifiers are
opaque: the one asked for changes in any order, an older one coming again from a
replica that lags, and only the last one begun is compared (`operations.go` 93).
`forced` counts how often each was begun, ever and since another one was taken; a file
that cannot be read (`unreadable`) refuses every request. `applied` is what the kernel was started with;
an operation that returns to the service always leads to a start or reload
(`applyChanges`), whether `Reconfigure` reported new material or not.

### RealityRelay

A handler keeps the configuration it loaded at its begin; `Reload` replaces it and
closes what is registered. `follower` is the watcher of the file: the
modification time is read before the content.

### RemoteUpgrade

`records` and `pointer` are the files of the operations, `workers` executors and
the command line, `execLock` a kernel lock that dies with its holder, `lockDir` a
directory that does not. Any process may die between two steps.

### AgentProcess

`pc` is `runWithReload`, `prep` the steps of `PreparePrivacy` of each caller (the
process before a launch, and `WatchPrivacy`), `cli` a save of the command line,
`lock` the lock both of them take and an editor does not. `notice`, `read` and
`reloadCh` are the watcher's debounce, its reading of the file and the mailbox.

## 3. Runs

Runs that pass:

| Run | Questions | Bounds, and why they are enough |
|---|---|---|
| `components`, store | `StoreTypeOK`, `LoadKeepsPromise`: does a process that dies at any file operation, with its checkpoint on disk, leave the value it saved? | interval 3 and numbers to 6: first save, records, two checkpoints, a compaction and crashes in each; all faults but a failing removal. The interval, the bounds and the faults are arbitrary in the proof |
| `components`, client | `ClientHolds` (`QueueBounded`, `NoCallForgotten`), `CallIsRemoteCall` | a report and a device call, raw messages beside them, queues of two and one places with fewer bytes than places, two connections: a call can be queued, cancelled, written and answered around a disconnection and the next connection |
| `components`, meter | `QuotaHolds` | a quota of one byte, two periods, two policies, one restart of the counters; any number of deaths, failed writes and reads, lost files and lost answers |
| `components`, speed | `SpeedHolds` (`LimitIsDeserved`, `BucketFollows`) | one user, a rule of each mode, five seconds, gap of two, one restart or failing file: a penalty is earned and ends, is interrupted by a gap, or is read back after a restart. Five seconds are too short for a second penalty of the same rule, and the clock neither repeats nor goes back |
| `components`, probing | `ProbingHolds` (`ResultsAreMeasured`, `ChangeIsSignalled`) | two nodes, two places, three measurements: a target is replaced during a round, and the debounce turns both ways |
| `components`, access | `AccessHolds` (`DeliveredOnce`, `CountIsExact`) | batches of two, room for three records, four records, two flushes: a full recorder, full, sealed and expired batches, any number of deaths |
| `reports_firewall`, reports | `NeverOvercounts`, `NumberFixesContent`, `SentIsStored`, `NothingDropped` | two bytes, two numbers, two crashes: a batch that waits, traffic behind it, a restart that finds both and a second one that finds what the first left; writes may fail |
| `reports_firewall`, firewall | `FirewallHolds` (`NothingOrphaned`, `ReconcileIsExact`, `GuardedWhileListening`, `AwaitedRulesStay`) | two owners, four configurations that conflict over a redirected port, over a guarded port or not at all, two deliveries, one trouble (a death, a failing command or write, an edit) at any step, and the other node's calls around it. With two troubles the part has 3.2 million states and takes too long to share a run; it was explored alone, and holds |
| `reports_firewall`, wireguard | `WireGuardHolds` (`SlotOutlivesConnections`, `NothingLeftOfTheGone`, `CarriedForItsUser`) | two users whose key and address change places, one source, one connection, one permit, three generations and three events |
| `reports_firewall`, balancer | `BalancerHolds` (`SweepLeavesNothing`, `SessionsAreCurrent`, `FailoverIsComplete`, `EvenlySpread`) | two clients, three lists (one not valid, one that moves a target), one session at a time, two runtimes: a close at every step of a session, and a restart |
| `reports_firewall`, relay | `RelayEntryHolds` (`NobodyRevoked`, `ActiveIsExact`, `FileIsFollowed`) | two connections, one handshake at a time, four configurations, three writes |
| `in_the_end`, reports | `EventuallyBooked` | no disk faults (a disk that always fails keeps the batch for ever), one restart, three numbers |
| `device_gate`, calls | `NoResurrection`, `OpenMeansHeld`, `ReturnIsConfirmed`, `NoSpuriousClose` | one account, lease and connection, five numbers, two sessions, one late request; accounts do not share state in the manager but for session and sequence. Time stands still |
| `device_gate`, clock | `NoResurrection`, `OpenMeansHeld`, `DeadlineWithinLease` | two leases, five ticks with a grace of three and calls of at most one: a lease expires, its slot goes to another, and records of revocations are dropped. Four numbers, the last of them drawn before the first lease can end |
| `device_gate`, agent | `AgentHolds` (`FileFollowed`, `OneConfigurationRuns`, `WritesKept`) | two good texts, one that does not fit the layout, one that does not load, two writes (an edit counts one, a save of the command line two), one generation's `WatchPrivacy`: a write at every step of a reload and of the protection |
| `node_control` | `RunsWhatIsDesired`, `FailedNotRetried`, `NoRemovedUserReturns` | both modes, in two scopes: three states of the panel with a restart among them and two connections, or a certificate renewal with two states and one connection. Channels of one place: every push can be dropped, and the request to resynchronise as well |
| `in_the_end`, control | `EventuallyFollowed` (`EventuallyCurrent` in this part), `EventuallyRenewed` | one change, two connections, or a renewal and one connection; mode "node". The two configurations are alike, so the panel begins with one of them |
| `in_the_end`, machine | `ServicesHold` (`OneService`, `ProtectionReachesAll`, `NothingLeftRunning`), `EventuallyAsListed` | one node with two kernels that are alike, two handles, two events (a changed list, a reconnection, a verdict, a service that ends); nodes share only the discovery and `trafficBlocked`, and a node can have at most an old and a new handle in use |
| `kernels`, traffic | `SbTrafficConserved`, `XTrafficConserved` | two connections (xray: one), two bytes, three counters (xray: two instances with two each): a counter is given up while a connection adds to it and the user returns |
| `kernels`, admission | `SbAdmissionHolds`, `XAdmissionHolds` | two connections from two sources, limits of one and two, one snapshot of other nodes, two objects of the user: a removal and a return between any two steps of an admission |
| `kernels`, kernels | `BoxMatchesBooks`, `InstanceMatches` | two identities or users, two credentials, two configurations and sets of rules, one request, two draining instances; every step may fail, and an identity may be removed and come back while its session goes on |
| `kernels`, routes | `RoutedAsMeant`, `LinkAgrees` | every specification of three families (one rule of each source, both kernels; the node's own `direct` and `block` at each place of both lists, with tags that repeat), and every description of a line over the transports and protocols the code tells apart |
| `kernels`, certificates | `CertificatesHold` (`MaterialIsConfigured`, `NoRenewalMissed`, `RenewedOnce`) | two parts, with two serial numbers, three generations and one restart each: seven configurations of one domain and all modes, with good and bad material, and one request; and four configurations of two domains with two requests in any order, each of which may come again |
| `kernels`, upgrade | `RemoteHolds` (`CarriedOutOnce`, `FilesAgree`, `ServiceIsInstalled`) | two operations, one of them an upgrade, the command line beside them, two releases, one death |

Deadlock is checked where the system cannot stop by itself (`node_control`);
the other models end when their bounds are used up.

Runs that end with a counterexample, each a place where the code does not do
what its comment says:

| Run | Property | What happens |
|---|---|---|
| `lost_after_empty` | `SavedTrafficSurvives` | an empty save removes the checkpoint and leaves `saved` set, so the next save writes a record only; `load` ignores records without a checkpoint, and a crash loses saved traffic |
| `users_skipped` | `UsersReachKernel` | users that arrive together with a configuration that does not concern the kernel are recorded as applied, and the kernel keeps the old ones |
| `stale_baseline` | `MailboxBaseIsCurrent` | the mailbox takes the service's users as its base only once; a later delta brings back a user that a poll had removed |
| `lost_discovery` | `NoLostDiscovery` | a call to `rediscover` between the last look at `rediscoverPending` and the reset of `rediscoverActive` is taken by nobody until the next call |
| `late_lease` | `ReturnedIsOver` | a permit nobody uses expires and is being returned; the answer to a synchronisation begun before brings the same confirmation with a slightly later deadline and installs it again, a connection opens on it, and the panel frees the slot under it |
| `old_session` | `OldSessionsRefused` | a sing-box relay entry matches the request of a session whose identity is gone: no rule. The identity comes back before `resolveUser` looks; the request passes and leaves by the default outbound (`relay.go` 425 says that it cannot) |

The passing properties are stated so that these six do not make them fail, and
no further: `LoadKeepsPromise` speaks of stores that have a checkpoint;
`RunsWhatIsDesired` allows other users in the kernel only while `svc.skipped`
says that such a configuration came in; `NoRemovedUserReturns` is about mode
"node"; `EventuallyAsListed` does not ask for a discovery at once;
`EventuallyCurrent` is about a panel that does not restart; `OpenMeansHeld` leaves
out the last moments of a lease, no longer than a call may take (`Patience`, in the
code eight seconds of an hour), since two answers with one confirmation name
deadlines that far apart at most; `BoxMatchesBooks` asks for the line of a request
only if the tracker let its identity through when it was matched, and not between the
two steps of a restoration (`OnItsLine`, see below); `RenewedOnce` counts how often a request is
begun until another one is taken.

Further limits of the code were met and have no run of their own:

- A failed update of a relay entry's users puts the old rules back before the old
  tracker (`relay_users.go` 78-89). In between, a request of an identity of the new
  list has no rule, is let through and leaves by the default outbound, although the
  update itself takes care of the order ("revoked before the rules are removed, so
  that an update has no gap", line 93). Without `rolling` in `OnItsLine`,
  `BoxMatchesBooks` is violated: the inbounds have the new list, `revoke` or
  `finish` fails, `rollback` restores the rules, a session of a new identity asks.
- `docs/node-operations.md` (line 23) says that the requests to renew are told apart by
  identifiers on disk and that no old one is carried out again after a restart. Only the
  last identifier is kept (`operations.go` 93): after requests A and B, a
  configuration that still has A, from a replica that lags behind and asked by a new
  process, renews for A again. With `ever` counted like `since`, "at most one ever"
  is violated by the model.
- A request that was given up may reach the panel as late as the network likes. One
  that carries a return, and comes when the node has dropped its record of that
  revocation (after 61 minutes), could free the slot of the same lease granted again;
  part "clock" of `device_gate` has no late requests, and `OpenMeansHeld` there rests
  on it.
- The removal of the journal fails after the checkpoint was written
  (`pending_report.go` 118): the next record repeats a difference that the
  checkpoint holds already. With "sweep" among the `Faults` of
  `Shared.cfg`, `NeverOvercounts` is violated. Hence `CleanupWorks` in
  the proofs, and no "sweep" in the passing runs.
- Records that an empty save left without a checkpoint (`lost_after_empty`) meet
  the first checkpoint of the next process. A crash before they are removed makes
  `load` report a gap, after which nothing can be saved or reported; a crash when
  some of them are removed may leave one that continues the new checkpoint's number,
  and `load` replays it over the wrong value: traffic is billed twice. It takes two
  crashes and four saves (`CheckpointEvery` = 8, `MaxSeq` = 4, no faults). Hence
  `strayed`, which says that records without a checkpoint were on disk, in
  `NeverOvercounts`; `LossNeedsStrayedJournal` proves that nothing else loses
  saved traffic.
- A connection opened right after the start of an xray instance is counted before
  the gate and the limiter are attached (`xray.go` 266-286, `dispatcher.go`
  325-365): its source stays in the list when it closes. `XAdmissionHolds` states
  the device limit for users without such a source (`stranded`), and says that
  there are no others.
- `reap` looks at the context before it calls `replaceUsers`; when `Close` has
  replaced the users by none in between, it puts them back into a closed runtime
  (`runtime.go` 154-197). `WireGuardHolds` leaves this out (`wgRevived`).
- `publishPEM` removes `cert.pem` and `key.pem` of the user when the mode was
  "file" in an earlier process and is another one now (`cert.go` 112-120). The
  status keeps the old mode after a change to "none". A failing `startACME` has
  removed the older material already, and `Renew` holds `opMu` for up to two
  minutes.
- An operation the panel was told had failed or timed out may succeed later; an
  upgrade that is killed leaves `.install-lock` behind, and every later one is
  refused; an upgrade whose check of the version fails after the restart is
  reported as failed with the new files in place.
- More than `MaxSessions` sessions run when dials are slow: the accept loop counts
  connections, not sessions (`balancer/runtime.go` 106). A full table refuses a client,
  and ten seconds (three for a dial) end a session, with targets untried. `Pick` excludes
  ids, not addresses: a target the panel moves under its id while a session has tried
  the old address is passed by; `FailoverIsComplete` leaves out these.
- `sing-box` names the users of a naive inbound by number (`config.go` 855-868), while
  the tracker looks them up by UUID (`relay.go` 413): their traffic is not counted
  and not limited. `LinkAgrees` leaves that protocol out of its last part. Without a
  certificate VLESS, VMess, HTTP and naive inbounds with `tls: 1` are built without
  TLS; `LinkAgrees` speaks of nodes that have one.
- An xray node (`domainStrategy` AsIs) blocks private networks only for literal
  addresses, a sing-box node also after resolving a name: a name that stands for a
  private network leaves an xray node unblocked, and `RoutedAsMeant` asks nothing else
  of it (`IsPrivate`). An ordinary xray node that defines its own `direct` has the first
  of its own outbounds as its default (`xray/config.go` 49-52), whichever that is. Targets of the panel's
  proxy and dns routes are not checked against the outbounds.
- An edit of `config.yml` between the first load and `WatchConfigRoot` is seen by
  no watcher until the next change (`unseen` in `AgentProcess`).
- `readFinalReloadConfig` says that it keeps the last valid configuration when the
  final read fails, and `review_reload_test.go` tests that function. When the root
  it keeps is not `PrivacyReady`, `PreparePrivacy` compares the hash of the file,
  fails, and `runWithReload` returns (`main.go` 200-204): the process ends with
  code 0 and depends on the service manager. The same happens when the file changes
  between the final read and `PreparePrivacy`.
- A write of `PreparePrivacy` after the watcher has begun is a change of the file:
  each change of the protection restarts the services twice.
- An editor that writes between the last comparison of `PreparePrivacy` and its
  rename (`privacy.go` 554-561), or during a save of the command line, is
  overwritten (`edited`); `WritesKept` is about the two that take the lock.
- A node whose client has heard of a restart of the panel first, and then polls a
  replica that is still at the old epoch and that it had not heard from before,
  takes the old epoch for the newer one (`panel/version.go` 12-33): the epoch it
  left cannot come back, so it keeps the old state until the panel restarts
  again or the process does. With `MaxEpochs = 2` in `Live.cfg`
  `EventuallyFollowed` is violated this way. The safety properties of
  `node_control` hold with two epochs.
- The meter notes that its state was lost in the file only at the next tick. A
  process that dies between `Apply` and that tick, whose write fails, or whose
  policy changes to proxy mode and back, forgets it and counts from the panel's
  last total: `QuotaHolds` without `~forgot` is violated.
- `ApplySources` sets `SourceDriver` in memory before it saves and leaves it set
  when the save fails (`source_filter.go` 95-99); the next attempt finds it set,
  does not save, and installs drops that no record knows of. A final save that
  fails (line 123) is not repeated either, the lists being equal in memory by
  then. With "sourcesave" among the `FwFaults` of `Shared.cfg`,
  `NothingOrphaned` is violated.
- `forget` restores memory when `save` fails, and `save` also fails when only the
  directory could not be synchronised after the record had been replaced
  (`state.go` 152): memory then owns a rule that the record does not, and
  `remember` writes nothing. With "dirsync" among the `FwFaults`,
  `NothingOrphaned` is violated.
- Redirections are replaced as a whole (`redirect.go` 9) also while nodes are
  awaited after a restart; only admissions and drops are kept for them, and
  `AwaitedRulesStay` speaks of those.

### Fairness

`in_the_end`, reports: goroutines that run and file operations go on (weak
fairness); an actor that waits for `reportMu` or for its case of the `select`
gets it (strong fairness: Go's mutex hands over to a waiter that starves, and
`select` chooses among ready cases at random); the panel processes what reaches
it and does not lose every answer (strong fairness); a process that has exited
is started again by the service manager. Nothing forces traffic, crashes or
failures to happen.

`in_the_end`, control: the cases of the `select` are weakly fair, some poll is
answered (strong fairness: a poll may fail any number of times), and the replica
catches up. Connections, pushes, renewals and failures are not fair. `Reconcile`
is the periodic comparison that polls also while the connection is in step;
without it a push lost between two polls would stay lost.

`in_the_end`, machine: goroutines go on, a cancelled service ends, and the tickers of
discovery and meter tick (weak fairness). A discovery may be asked for again
while it runs; that some question for the list is answered and used before the
next call is strong fairness, the calls being seconds or minutes apart. Changes,
reconnections, verdicts and failures are not fair.

All other runs check safety properties and need no fairness.

## 4. Proofs

Every theorem below holds for all values of the constants that the named
assumption of its module allows: any number of callers, nodes, users, leases,
connections, restarts and steps. Each inductive invariant is stated beside its
model (`StoreInv`, `PipelineInv`, `BillingInv`, `SurvivalInv`, `FenceInv`,
`ExpiryInv`, `ReturnInv`, `ControlInv`, `CallInv`, `RelayInv`, `ProbingInv`, `MeterInv`,
`MachineInv`, `AgentInv`, `CertInv`, `UpgradeInv`, `SbAdmissionInv`, `XAdmissionInv`,
`SbKernelInv`, `XKernelInv`) and was checked with TLC before it was proved; several parts of them
were added when TLC or the provers showed that a weaker invariant is not preserved.

### PendingStore

The first part of `ReportPipelineProofs` proves, for every set of batches, interval,
bound and choice of faults allowed by `StoreAssumption`:

- `StoreTypesCorrect`: `Spec => []StoreTypeOK`. This is not only about types:
  replaying never makes a counter negative, which is what `applyTrafficDelta`
  would report as corruption.
- `RecoveryIsExact`: `Spec => []LoadKeepsPromise`, under the assumption
  `CleanupWorks` (the removal of obsolete files does not fail; section 3 says
  what happens otherwise).

The invariant `LoadKeepsPromise` is not inductive: it compares a value with one
that was fixed when the process died, and says nothing of the records on disk
before that. The inductive invariant `StoreInv` has these parts:

- `StoreTypeOK` and `RecordsDistinct`: at most one record per number;
- `PhaseInv`: what memory and files have to do with each other in each phase;
- `RunningInv`: in a running process with a checkpoint, the records after it
  form a chain without gaps, each turning `hist` of one number into `hist` of
  the next, and the last one is `lastState`;
- `PromiseInv`: after a crash the files hold the value that was promised;
- `ReplayInv`: the records replayed so far have given `hist` of their number,
  and those still to be read continue from there.

The argument: a save either starts a new history with its checkpoint or adds one
link to the chain; records not above the checkpoint's number are ignored by
replay, so removing them one by one in any order changes nothing; a crash
fixes the promise and leaves the files alone; replay follows the chain to its
end. The proof has one step per action and, below, one per part the action
touches.

### ReportPipeline

The second part of `ReportPipelineProofs`, for any bounds and any faults:

- `PipelineTypesCorrect`: `PipelineSpec => [](PipelineTypeOK /\ HeldTypeOK)`.
- `NumbersAreFixed`, `SentBatchesAreStored`, `NothingIsDropped`: three of the
  properties of the run.
- `PipelineInvHolds`: their inductive invariant. None of the three is inductive:
  a number that is handed out again is seen only when both reports are on the wire.
  `LockInv` says who holds `reportMu` in which step and so whose save the store is
  carrying out; `ContentInv` compares all reports in all places, memory, network,
  store and its files alike, because each of them may be sent after a restart;
  `StoredInv` ties `persisted` and the save under way to the batch in memory;
  `FlowInv` counts where traffic is as long as no process has died.

The file operations of the store are steps of this specification too. The lemmas
about `StoreMove` say which reports they may put where, once for all of them, and
are used instead of the store's actions afterwards.

The third part, when only writes fail (`OnlyWritesFail`; section 3 names
the runs in which the others break the promise):

- `NothingIsBilledTwice`: `[]NeverOvercounts`, over any number of crashes, lost,
  late and repeated requests.
- `PipelineRecoveryIsExact`: the store's promise holds inside the pipeline as well:
  each step of the pipeline is one of the store's or leaves it alone.
- `LossNeedsStrayedJournal`: the other direction, that saved traffic is not lost.
- `BillingInvHolds`: the inductive invariant. It is about `Live`, every value the
  agent may go on with: the one in memory, the one being saved and the one the next
  process will find (`Recoverable`, from `StoreInv`). Each must fit what the panel
  has booked and hold every request that may still be booked. A crash turns the
  second into the first; that is why fitting must be shown when a value is saved and
  not when it is found.

### DeviceGate

`DeviceGateProofs`, for any users, leases, connections, grace and bounds
(`GateAssumption`; `NoneAssumption` says that "no entry" is not an entry):

- `GateTypesCorrect`.
- `LeasesStayRevoked`: `[]NoResurrection`.
- `FenceInvHolds`: its inductive invariant. A revocation is remembered for a limited
  time only (`markRevokedLocked`), so the argument needs time: a call is answered or
  given up within `Patience` (`OpenInTime`), a mark stays until every call that it
  must refuse has ended (`MarksLast`), and every open call that is older than the
  last revocation is refused by a mark or by the user's barrier (`OldAnswersRefused`).
  The operators `Moves` and `Kept` describe what a critical section may do to a
  user's gate and that this preserves the fence; each operation is shown to be
  composed of such moves.

And about the panel's leases:

- `LeasesEndInTime`: `[]DeadlineWithinLease`.
- `ExpiryInvHolds`: its inductive invariant: every answer and every admission that
  waits to be installed names a time not later than the one until which the panel
  holds the slot, since the panel only extends leases and the node counts from the
  start of its request.

And about returns:

- `ReturnsAreConfirmed`: `ReturnIsConfirmed`. The node stops announcing a return only
  after the answer to a request that carried it, or when a newer identity or a new
  grant of the lease takes its place.
- `ReturnInvHolds`: its inductive invariant. A request under way carries every return
  with a smaller number, which is what `confirmSnapshot`, comparing numbers only,
  relies on; a session's number is never used again; and a lease in use is not one
  that is being returned.

### NodeControl

`NodeControlProofs`, for any configurations, users, certificates, numbers of
epochs and lengths of queues (`ControlAssumption`, which asks of
`computeKernelConfigHash` only that a landing configuration never has the hash of
another kind):

- `ControlTyped`, `DesiredIsRun` (`[]RunsWhatIsDesired`), `FailedIsLeftAlone`
  (`FailedNotRetried`) and `RemovedStayRemoved` (`NoRemovedUserReturns`).
- `ControlInvariant`: `[]ControlInv`. `RunsWhatIsDesired` is not inductive. A
  failure must be remembered with the hash of the configuration that is wanted, and
  a configuration be wanted at all, before a kernel may run (`Coherent`). A kernel
  that serves landings has no users: only then may a user update pass it by without
  being a user that was skipped. A service that boots is `Fresh`, so that what its
  bootstrap applies does not meet an older failure.
- `KnownIn` is what the two action properties need: whatever is queued or polled
  was a state of the panel, or a part of one. `DropOldest`, merging in the mailbox
  and the versions of the gate are then about positions in the panel's history.

The handlers compose (`applyPullResult` calls the configuration's or the users'
application, which call `startRuntime` and `failRuntime`); there is a lemma for
what each of them makes of any coherent state, and a step cites those it calls.

### WSClient

`ComponentProofs`, first section, for any callers, connections and limits of the queue:

- `ClientTypesCorrect`, `NobodyWaitsInVain` (`[]NoCallForgotten`).
- `CallInvHolds`: each channel carries a call once (`SentOnce`); where a call is
  bounds how often the panel has processed it (`AtMostTwice`); a success anywhere, in
  a receipt, an answer or a caller's hand, is one that the panel has processed
  (`SuccessIsProcessed`).
- `ClientIsRemoteCall`: `ClientSpec => CallIsRemoteCall`, the refinement: the initial
  state maps to the abstract one, and each step to a step of `RemoteCall` or to a
  stutter, under `CallInv`.

### RealityRelay

`ComponentProofs`, second section, for any finite set of connections (`RelayAssumption`) and any
configurations:

- `RelayIsCurrent`: `[]RelayEntryHolds`.
- `RelayInvHolds`: its inductive invariant. `HandlersRegistered` was missing at first:
  that a handler which copies is of the current configuration is preserved by a reload
  only if both of its connections are registered, because `Reload` closes what it finds
  in the table. `CountersAreNew` keeps the handlers of a route that was removed and
  added again away from the new counter.

### Probing

`ComponentProofs`, third section, for any nodes and places and as many measurements
as one likes:

- `ResultsAreCurrent`: `[]ProbingHolds`.
- `ProbingInvHolds`: its inductive invariant. `ProbingHolds` compares the health of a
  node with what all its measurements say; `record` only sees two counters.
  `Measured` says that the counters are about the last two measurements, and
  `TwiceAppend` what one measurement more does to the places at which two agree.

### TrafficMeter

`ComponentProofs`, fourth section, for any quota, saturation point, number of
gaps, revisions and periods (`MeterAssumption`; `FilesAssumption` says that "no
file" is not a file):

- `QuotaIsKept`: `[]QuotaHolds`.
- `MeterInvHolds`: its inductive invariant. The quota compares what is due with what
  the meter has counted, which a crash, a failed write or a lost file may set back.
  So the memory and the file are treated alike: either one *covers* what is due
  (`Covers`) but for one byte that the next reading shows (`Behind`) and one at each
  gap that it has seen; a change of the interface which the panel has announced and
  the meter not yet applied is a gap still to come. While the meter counts, there
  is room for that byte already if there is no reading to compare with
  (`Accounts`). Without a file, the panel's last total is what covers (`FileInv`,
  `Absent`). A step is shown for any meter (`AdoptFields`, `Accounts` of
  `Counted`), not for the variable, because `Apply` and a tick do several such
  changes at once.

### Machine

`MachineProofs`, for any nodes, kernels and handles (`MachineAssumption`):

- `MachineServicesHold`: `[]ServicesHold`.
- `MachineInvHolds`: `[](MachineTypeOK /\ MachineInv)`. `ServicesEntered` says that a
  service is in the map from its start to its end, which gives one service per node;
  `StartsOwnHandles` that a start under way is the only one to let its handle run;
  `ForbiddenAreTold` that whoever sets `trafficBlocked` or ends the process has told all
  services, including those under way. Nothing else runs before `Run`
  (`NothingBeforeRun`). Most steps are "calm": they insert, begin and cancel nothing,
  and one lemma treats them all.

### Firewall

`MachineProofs`, second section, for any owners, ports and configurations
(`FirewallAssumption`: ports are positive and "no plan" is neither an owner nor a
plan) and any number of deaths, failing commands and edits, under one hypothesis:

- `FirewallIsKept`: `[]FirewallHolds`, if `RecordsReplaced`, that is, if the ownership
  record is replaced with its directory or not at all, and the record of the sources
  always is. Without it the property is false (section 3), so it is not a weakness of
  the proof; the run that checks `FirewallHolds` satisfies it.
- `FirewallInvariant`: its inductive invariant `FirewallInv`. `BooksAgree` says that
  memory and file differ at most in the redirections, whose driver memory forgets one
  write early. `StepsHold` says for each step of `reconcile` what the host already is:
  the drops wanted from `syncSourceNFT` on, the ports opened up to those still to do,
  the redirections at the end; that the drops wanted do not change when they are
  recorded is what makes this last (`SourceSaveHolds`). `ServicesGuarded` follows a
  guarded node from its preparation, over the start of its kernel, to its end and says
  that its plan and its drops are there all the time, because the service stops the
  kernel before it calls anything that may take them away. `LeftHolds` says that what
  an owner had at a death is on the host and in the record until it reports: nothing is
  reclaimed while anybody is awaited.

`WorkLeaves` is what the steps of the holder promise to everything else, so that the
services and the awaited nodes are proved about once and not for each of fifteen steps.
`LeastIsMember` (ports are done in order, least first) uses that the naturals are well
founded. TLC has checked `FirewallInv` on the part `firewall` of the run
`reports_firewall`.

### SingBoxAdmission and XrayAdmission

`AdmissionProofs`, a section each, for any finite set of connections
or requests, any sources of which finitely many can be counted, and any positive
limits (`SbAdmissionAssumption`, `XAdmissionAssumption`):

- `SbAdmissionTypesCorrect`, `XAdmissionTypesCorrect`.
- `SbLimitsHold`: `[]SbAdmissionHolds`. The inductive invariant is `SbAdmissionInv` in
  `SingBoxAdmission`. `OneCheck` says that `admissionMu` lets one connection of a
  `userStats` between the device check and its place, and `RoomIsKept` that the place
  is still free then; `CountedInEntry` that the gate's revalidation keeps out whoever
  resolved a `userStats` that was replaced meanwhile; `ClosersKnow` that a connection
  which is open is in the table of accesses or with whoever emptied it; `ListedInUse`
  that a listed user has a `userStats`, without which a connection could be resolved
  to nothing.
- `XLimitsHold`: `[]XAdmissionHolds`, by `XAdmissionInv` in `XrayAdmission`.
  `ReqPhases` says what a request holds in each step although the gate may be attached
  between any two of them; `NoneStranded` that without the gate every reference goes
  back; `XClosersKnow` is the counterpart of `ClosersKnow`.

Both follow one connection at a time: a predicate says what its record is like in each
step (`ConnSound`, `XSound`), one lemma says how each count changes when one record
does, and a step that keeps its record sound and its counts in balance keeps the
invariant (`CountingStep`, `ReferringStep`, `PlainMove`; `XMove`). TLC has checked
`SbAdmissionInv` and `XAdmissionInv` on the instance of the run `kernels`.

### SingBoxKernel and XrayKernel

`KernelProofs`, first and second section, for any identities, trusts, credentials,
configurations, requests and number of instances that drain (`XKernelAssumption`: a
configuration has a value in each part, and "no instance" is not an instance):

- `SbKernelTypesCorrect`, `XKernelTypesCorrect`.
- `BoxFollowsBooks`: `[]BoxMatchesBooks`, by `SbKernelInv`. Three places of the box hold
  a list of users, and an update changes them one after another. `ListsFit` says for each
  step of the update, of its rollback and of the restoration which of them has the old
  list, the new one or both; the property at the end follows because every way out of a
  call either carries the list of the books to all three or stops the box. That the
  rules cover the tracker (`trackerUsers \subseteq ruleUsers`) holds at every step but
  one, between the two steps of the restoration, and `RequestsFit` carries it to the
  requests: one the tracker let through when it was matched had a rule, unless it was
  matched there, and one that is open is let through now. Requests the tracker did not
  let through when they were matched are not excluded from the first part, only from the
  second: `old_session` shows that one of them may pass later, without a rule.
- `InstanceIsWhatIsWanted`: `[]InstanceMatches`, by `XKernelInv`. `UsersFit` says that
  while users are added and removed one by one the UserManager has at least the users
  both lists have and at most those one of them has, and that a removal still to be done
  is of somebody not wanted; a failed delta therefore still lies between the lists, so
  the full update that follows ends with the list wanted. `LimitsFit` follows the loop
  over the dispatchers that drain, of which any number may be recycled before.

### RelayLink and RoutePlan

`KernelProofs`, third and fourth section:

- `LinkTypesCorrect`, and `EndsAgree`: `[]LinkAgrees`, for any lines, nodes and choice of
  kernels. What is up was accepted by its validator and is what its builder makes
  (`BuiltFits`, theorem `BuiltIsAccepted`); the rest is about the validators and builders
  alone: whatever `relay_validate.go` accepts on both ends is built alike.
- `NothingPassesTheGuards`: `[]GuardedPlan`, for any specification of a node
  (`PlanAssumption`: outbounds are lists of tags). The outbounds are joined of four lists,
  and `JoinedTags` says when no tag repeats in them. The rules are
  one long concatenation; `FirstDecides` says that the first rule that matches decides,
  and `GuardDecides` and `DeniedIsRejected` compute the head of that list. The parts of
  `RoutedAsMeant` about rules further down, where whether a rule comes first depends on
  every rule before it, are only model-checked.

The attempt to prove them found two places where the model was looser than the code:
`RelayVLESSValid` accepted values of `tls` the validator refuses
(`relay_validate.go:314`), and a trojan inbound of xray kept any of them instead of
falling back to TLS.

### AgentProcess

`ProcessProofs`, first section, for any texts, nodes and number of writes
(`AgentAssumption`: a text is not good and broken at once; `NoRootAssumption` says
that "nothing" is not a configuration):

- `AgentTypesCorrect`, and `ConfigurationIsFollowed`: `[]AgentHolds`.
- `AgentInvHolds`: its inductive invariant. That the configuration which runs is the
  one in the file unless a notice of the difference is under way must be said of
  every place a configuration may wait in: the one being prepared (`Chosen`), the
  watcher's reading (`ReadIsFile`), the mailbox. It holds at a start only because
  whatever may write the file behind the services' back is watched
  (`WatchedWhileServing`), and survives a rewriting by the protection because the
  writer holds the lock and found the file as it had read it, or the owner has edited
  it since (`LockHeld`, `edited`), which is a notice of its own.

### Certificates

`ProcessProofs`, second section, for any configurations and domains and any number
of requests (`CertAssumption`):

- `CertTypesCorrect`, and `CertificatesStayTogether`: `[]CertificatesHold`.
- `CertInvHolds`: its inductive invariant. `MaterialIsConfigured` speaks of moments at
  which no operation runs. In between, `AcmeIsCurrent` says that certmagic is on for
  the configuration in force and its generation, `HandlerIsCurrent` that a handler of
  that generation brings the newest of the storage and any other nothing that will be
  published, and `OperationFits` what each operation needs when it begins.
  `RequestIsWritten` relates the file of a request to what was begun: whatever was begun
  since another request was taken is the one in the file and, once that is read, the one
  the process knows, which is why neither a restart nor a repeated delivery begins it
  again. Requests are delivered in any order in the proof as well; nothing is assumed of
  their identifiers but that they are not empty.

The attempt to prove it showed that an earlier model told the kernel of new material
only if `Reconfigure` reported a change; with two ACME configurations of one domain
that model violates `NoRenewalMissed`. The code starts or reloads the kernel in either
case; the model now does, and the run has such a pair of configurations.

### RemoteUpgrade

`ProcessProofs`, third section, for any operations, releases and number of deaths
(`UpgradeAssumption`):

- `UpgradeTypesCorrect`, and `OperationsHold`: `[]RemoteHolds`.
- `UpgradeInvHolds`: its inductive invariant. `LaunchedOnce` follows an operation from
  the agent's hand through its file to the executor that counts it, and says that
  whoever has it is the first. `OneWorker` ties the directory to the steps that change
  files. `PlannedWell` and `Between` say, for the worker that has the directory, which
  files are of the new release and which of the old one at each point of the swap and
  of the rollback; when it ends, in any way, `Agreed` follows.

### Only model-checked

- Liveness: fairness and `ENABLED` are outside what the proof system does.
- `QueueBounded`, and the sums of `SbTrafficConserved` and `XTrafficConserved`: the
  bytes of a queue and the totals of all connections are sums over a sequence or a
  set, and facts about them for every size need induction over data.
- `AccessHolds` and `SpeedHolds`: both models filter sequences (`SelectSeq`), whose
  result for every sequence needs induction as well.
- `RoutedAsMeant` beyond the parts in `GuardedPlan`.
- `OpenMeansHeld` and `NoSpuriousClose` of `DeviceGate`, and the properties of the
  modules without a proof module. `OpenMeansHeld` needs a bound on how late a request
  may reach the panel, which the code does not give.

## 5. What is left out

- In `ReportPipeline`: rate-limit events, metrics and online lists that a report
  carries beside traffic; overflow of byte counters (64 bits).
- In `DeviceGate`: the panel's protocol without the lease cache, limits on the
  length of lists, the kernel's closing of connections as anything but a step
  that releases the permit.
- In `NodeControl`: discovery and replacement of the client, the older protocol
  without versions (entity tags), device snapshots, changes of a user's UUID,
  the balancer's own configuration, two polls at a time. Standalone mode has no
  panel and no protocol.
- In `Machine`: replacement of the shared client, states of the health endpoint,
  remote control commands and address reports.
- In `WSClient`: heartbeats, what pushes say, the session and telemetry of
  `PublishState`, whose calls are like those of reports.
- In `TrafficMeter`: the panel's own count in proxy mode, `Baseline` and `Active`,
  accounting epochs, several interfaces and directions.
- In `AccessLog`: the checks on the contents of a restored file.
- In `Firewall`: the backends firewalld and iptables, and a change of backend
  between two runs of the agent; records of older versions; management disabled
  for the whole process; reading the text that `ufw status` prints; tables of
  nftables that somebody else deletes; addresses within a source policy.
- In `SingBoxTraffic` and `XrayTraffic`: more than one entry of the totals at a time;
  the online lists.
- In `SingBoxAdmission` and `XrayAdmission`: the limit on new connections per second,
  reports of refusals, the difference of TCP and UDP beyond the table they are in.
- In `RoutePlan`: the outbounds and the `final` a `custom_config` file may bring, and upper
  case in tags.
- In `RoutePlan` and `RelayLink`: DNS settings, the form of keys, ports and addresses
  (one field says whether they are sound), source policies beyond "ready" or not.
- In `DirectWireGuard`: packets that are already queued when a permit is revoked
  may still pass. `internal/systemwg` drives commands and is not modelled.
- In `SpeedLimits`: more than one user; the arithmetic of rates beyond the threshold; samples
  of a clock that repeats or goes back.
- In `Certificates`: the ACME protocol and DNS providers, periods of validity, the
  health probe of `operations.go`.
- In `RemoteUpgrade`: `--version`, which may install an older release; migration
  of old paths; the first installation.
- In `AgentProcess`: encryption of the file as a whole, backups, export, several
  nodes that own keys; a second signal and the grace period end the services like
  the first.
- The panel is external: it is modelled from what the agent's requests and
  answers rely on.

### Not modelled

- `internal/systemwg`, `internal/timesync`, `internal/healthcheck`'s probes,
  `internal/sourcepolicy`: they run commands or talk to the network, one call at a
  time; their success or failure is an input of the modules above.
- `internal/config/config.go` (defaults and validation), `internal/portset`,
  `internal/xhttp` and the generation of protocol settings in the kernels'
  `config.go` beyond `RoutePlan` and `RelayLink`: conversion without state.
- `internal/privacy`: encryption. Its atomic replacement of a file is an assumption.
- `internal/nlog`, `agentlog`, `logrotate`, `monitor`, `limitreport`: output.
- The menus, the first installation and migrations of `internal/agentcli`, the
  installers and `src/scripts`: interactive and run once.
- `src/compat`: forks of libraries.

## 6. Plan

1. Proofs, in this order: `OpenMeansHeld` of `DeviceGate` with a bound on the delay of
   requests, `AccessHolds`, `WireGuardHolds`.
2. Abstract specifications: a version register that the version gate and the
   mailbox implement; a saved value that survives crashes, implemented by
   `PendingStore` under `CleanupWorks`; totals told once, implemented by both
   kernels' traffic modules.
3. Control loop: discovery and replacement of the client, the older protocol,
   overlapping polls. Firewall: the other backends. Migration of an installation.

## 7. Running

    tlc -config NodeControl.cfg MCControlScopes
    tlapm NodeControlProofs.tla

Each `.cfg` belongs to one run in `PROJECT.json`, which also gives, for
each definition, the lines of source it models, and for each property a mutant
of the model that violates it.
