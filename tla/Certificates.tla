---------------------------- MODULE Certificates ----------------------------
(***************************************************************************)
(* The certificate manager of a node (internal/cert) with the renewals the *)
(* panel asks for (internal/service/operations.go).  Reconfigure, Start,   *)
(* Stop and Renew hold opMu; the handler certmagic calls after a renewal   *)
(* holds only materialMu, and the generation is what keeps a handler of an *)
(* earlier configuration from publishing.  Material is kept in memory and, *)
(* for the next process, as a pair in the certificate directory.           *)
(*                                                                         *)
(* certmagic and its storage are external: a renewal stores the new        *)
(* certificate of the domain and then calls the handler while it holds the *)
(* domain's lock.  Keys, PEM and the validity period are left out: material*)
(* is where it comes from, its domain and a serial number.                 *)
(***************************************************************************)
EXTENDS Naturals

CONSTANTS
    CertConfigs,  \* configurations: mode, domain and what the panel or files give
    FirstConfig,  \* the configuration the process starts with
    NoMaterial,   \* no certificate
    MaxSerials,   \* bound: certificates obtained or generated
    MaxGens,      \* bound: generations
    MaxRequests,  \* bound: renewals the panel asks for, 1..MaxRequests being their
                  \* opaque identifiers and 0 the empty one
    MaxRestarts   \* bound: processes

Domains == {c.domain : c \in CertConfigs}
Modes == {"none", "file", "content", "self", "http", "dns"}
Materials == [mode : {"acme", "older", "file", "content", "self"}, domain : Domains, serial : Nat]

ASSUME CertAssumption ==
    /\ FirstConfig \in CertConfigs /\ NoMaterial \notin Materials
    /\ \A c \in CertConfigs : c.mode \in Modes
    /\ MaxRequests \in Nat

VARIABLES
    config,     \* Manager.cfg
    material,   \* Manager.mat
    generation, \* Manager.generation
    acme,       \* acmeStarted with the configuration and generation it is for
    renewedFlag,\* Manager.renewed
    sourceSeen, \* Manager.fileSources holds the files of the directory
    operation,  \* who holds opMu and how far it is
    handler,    \* the event handler after a renewal, with what it read
    applied,    \* the service: its kernel's material, whether it has to apply,
                \* and whether the last configuration was accepted
    pair,       \* cert-pair.json: mode and material
    twoFiles,   \* cert.pem and key.pem: absent, of an older version, or the user's
    site,       \* certmagic's storage: the serial of every domain
    serials,    \* serial numbers given out
    request,    \* the renewal the configuration asks for, the one begun last
                \* (renewID) with its result, its file, and whether that was
                \* read or cannot be (requestLoadFailed)
    forced,     \* history: renewals begun for each request, since another one was
                \* taken (since), and whether ever one was
    restarts    \* processes so far

managerVars == <<config, material, generation, acme, renewedFlag, sourceSeen>>
certificateVars == <<managerVars, operation, handler, applied, pair, twoFiles, site,
                     serials, request, forced, restarts>>

ServiceWaits == operation \in {"boot", "obtaining"} \* the service waits for it
NoHandler == [gen |-> 0, config |-> FirstConfig, read |-> NoMaterial]
NoAcme == [on |-> FALSE, config |-> FirstConfig, gen |-> 0]
NoPair == [mode |-> "none", material |-> NoMaterial]
Made(mode, domain, serial) == [mode |-> mode, domain |-> domain, serial |-> serial]
UsesAcme(c) == c.mode \in {"http", "dns"}

CertificatesInit ==
    /\ config = FirstConfig /\ material = NoMaterial
    /\ generation = 0 /\ acme = NoAcme /\ renewedFlag = FALSE /\ sourceSeen = FALSE
    /\ operation = "boot"
    /\ handler = NoHandler
    /\ applied = [material |-> NoMaterial, due |-> FALSE, accepted |-> FALSE]
    /\ pair = NoPair
    /\ twoFiles \in {"absent", "older", "users"}
    /\ site = [d \in Domains |-> 0]
    /\ serials = 0
    /\ request = [asked |-> 0, begun |-> 0, result |-> "none", saved |-> 0, file |-> "none",
                  loaded |-> FALSE, unreadable |-> FALSE]
    /\ forced = [r \in 1..MaxRequests |-> [since |-> 0, ever |-> 0]]
    /\ restarts = 0

-----------------------------------------------------------------------------
(* Publishing and loading *)

\* publishPEM: memory first, then the pair; once that is written the two old
\* files go, unless the configuration or an earlier one reads them.
Publish(c, m, written) ==
    /\ material' = m
    /\ pair' = IF written THEN [mode |-> c.mode, material |-> m] ELSE pair
    /\ twoFiles' = IF written /\ (twoFiles = "older" \/ (c.mode # "file" /\ ~sourceSeen))
                   THEN "absent" ELSE twoFiles

Fits(m, c) == m # NoMaterial /\ m.domain = c.domain

\* loadPersistedPEM: the pair of the same mode, or the two files of a version
\* that wrote no pair.
Persisted(c) ==
    IF pair # NoPair
    THEN IF pair.mode = c.mode /\ Fits(pair.material, c) THEN pair.material ELSE NoMaterial
    ELSE IF twoFiles # "absent" THEN Made("older", c.domain, 0) ELSE NoMaterial

\* What a mode without ACME starts with; NoMaterial when start fails.
Given(c) == CASE c.mode = "file" -> IF c.given = "good" /\ twoFiles = "users"
                                    THEN Made("file", c.domain, 0) ELSE NoMaterial
              [] c.mode = "content" -> IF c.given = "good" THEN Made("content", c.domain, 0)
                                       ELSE IF c.given = "absent" THEN Persisted(c)
                                       ELSE NoMaterial
              [] c.mode = "self" -> IF Persisted(c) # NoMaterial THEN Persisted(c)
                                    ELSE Made("self", c.domain, serials + 1)

-----------------------------------------------------------------------------
(* Reconfigure, Start and Stop *)

\* The operation returns to the service, which starts or reloads the kernel
\* whether the material changed or not.
TakesOver ==
    /\ operation' = "free"
    /\ applied' = [applied EXCEPT !.accepted = TRUE, !.due = TRUE]

\* failRuntime: the node's kernel is stopped.
Rejected ==
    /\ operation' = "free"
    /\ applied' = [material |-> NoMaterial, due |-> FALSE, accepted |-> FALSE]

\* tearDownACME
TornDown == /\ generation' = generation + 1
            /\ acme' = NoAcme
            /\ renewedFlag' = FALSE

\* start with a mode that needs no ACME.
StartPlain(c, written) ==
    LET m == Given(c) IN
    IF c.mode = "none"
    THEN /\ material' = NoMaterial
         /\ pair' = NoPair
         /\ twoFiles' = IF twoFiles = "older" \/ (pair.mode # "file" /\ ~sourceSeen)
                        THEN "absent" ELSE twoFiles
         /\ UNCHANGED <<sourceSeen, serials>>
         /\ TakesOver
    ELSE IF m = NoMaterial
    THEN /\ material' = IF acme.on THEN NoMaterial ELSE material
         /\ UNCHANGED <<pair, twoFiles, sourceSeen, serials>>
         /\ Rejected
    ELSE /\ sourceSeen' = (sourceSeen \/ c.mode = "file")
         /\ serials' = IF m.mode = "self" /\ m.serial > serials THEN m.serial ELSE serials
         /\ Publish(c, m, written)
         /\ TakesOver

\* Reconfigure up to the wait for ACME; Start is the same without a change.
ReconfigureCert(c, written) ==
    LET stale == acme.on /\ (~UsesAcme(c) \/ c # acme.config) IN
    /\ operation \in {"free", "boot"} /\ generation < MaxGens
    /\ c.mode = "self" => serials < MaxSerials
    /\ operation = "boot" => c = FirstConfig
    /\ config' = c
    /\ IF stale THEN TornDown
       ELSE /\ renewedFlag' = (renewedFlag /\ c.mode # "none")
            /\ UNCHANGED <<generation, acme>>
    /\ IF ~UsesAcme(c) THEN StartPlain(c, written)
       ELSE IF acme.on /\ ~stale
       THEN UNCHANGED <<material, pair, twoFiles, sourceSeen, serials>> /\ TakesOver
       ELSE /\ material' = IF stale THEN NoMaterial ELSE material
            /\ UNCHANGED <<pair, twoFiles, sourceSeen, serials>>
            /\ IF c.mode = "dns" /\ c.given = "bad"     \* buildDNSSolver
               THEN Rejected
               ELSE /\ operation' = "obtaining"
                    /\ UNCHANGED applied
    /\ UNCHANGED <<handler, site, request, forced, restarts>>

\* startACME after ObtainCertSync: the certificate of the storage, or a new one.
ObtainCert(written) ==
    LET serial == IF site[config.domain] > 0 THEN site[config.domain] ELSE serials + 1 IN
    /\ operation = "obtaining" /\ serial <= MaxSerials
    /\ generation' = generation + 1
    /\ acme' = [on |-> TRUE, config |-> config, gen |-> generation + 1]
    /\ site' = [site EXCEPT ![config.domain] = serial]
    /\ serials' = IF serial > serials THEN serial ELSE serials
    /\ Publish(config, Made("acme", config.domain, serial), written)
    /\ TakesOver
    /\ UNCHANGED <<config, renewedFlag, sourceSeen, handler, request, forced, restarts>>

\* Any failure of startACME takes everything down, older material included.
ObtainCertFails ==
    /\ operation = "obtaining"
    /\ TornDown
    /\ material' = NoMaterial
    /\ Rejected
    /\ UNCHANGED <<config, sourceSeen, handler, pair, twoFiles, site, serials, request,
                   forced, restarts>>

-----------------------------------------------------------------------------
(* Renewals *)

\* certmagic renews by itself, also while an operation holds opMu.
RenewInBackground ==
    /\ acme.on /\ handler = NoHandler /\ serials < MaxSerials
    /\ serials' = serials + 1
    /\ site' = [site EXCEPT ![acme.config.domain] = serials + 1]
    /\ handler' = [gen |-> acme.gen, config |-> acme.config,
                   read |-> Made("acme", acme.config.domain, serials + 1)]
    /\ UNCHANGED <<managerVars, operation, applied, pair, twoFiles, request, forced, restarts>>

\* Mutant: the generation is not compared.
AnyGeneration(gen) == gen > 0

\* publishRenewal under materialMu.
CurrentGeneration(gen) == gen = generation

PublishRenewal(written) ==
    /\ handler # NoHandler
    /\ handler' = NoHandler
    /\ IF CurrentGeneration(handler.gen)
       THEN Publish(handler.config, handler.read, written) /\ renewedFlag' = TRUE
       ELSE UNCHANGED <<material, pair, twoFiles, renewedFlag>>
    /\ UNCHANGED <<config, generation, acme, sourceSeen, operation, applied, site, serials,
                   request,
                   forced, restarts>>

\* Mutant: the identifier of the last request is not read back.
ReadResult(readable) ==
    [request EXCEPT
        !.loaded = TRUE, !.unreadable = ~readable,
        !.result = IF ~readable THEN "none"
                   ELSE IF request.file = "running" THEN "failed" ELSE request.file]

\* updateOperations, the first time: the request an earlier process left.
ReadRequest(readable) ==
    [ReadResult(readable) EXCEPT !.begun = IF readable THEN request.saved ELSE @]

LoadRequest(readable) ==
    /\ ~request.loaded /\ ~ServiceWaits
    /\ request' = ReadRequest(readable)
    /\ UNCHANGED <<managerVars, operation, handler, applied, pair, twoFiles, site, serials,
                   forced, restarts>>

\* The configuration in force asks for a renewal or for none.  A process that
\* is new, or whose VersionGate was reset, also takes one from a replica that
\* lags, so an older request may come again.
AskRenewal ==
    /\ \E r \in 0..MaxRequests \ {request.asked} : request' = [request EXCEPT !.asked = r]
    /\ UNCHANGED <<managerVars, operation, handler, applied, pair, twoFiles, site, serials,
                   forced, restarts>>

\* updateOperations: another request than the last one is written down before
\* it begins.
BeginRequest(written) ==
    /\ request.loaded /\ ~request.unreadable
    /\ request.result # "running" /\ ~ServiceWaits
    /\ request.asked # 0 /\ request.asked # request.begun
    /\ request' = [request EXCEPT
          !.begun = request.asked,
          !.result = IF written THEN "running" ELSE "failed",
          !.saved = IF written THEN request.asked ELSE @,
          !.file = IF written THEN "running" ELSE @]
    /\ forced' = [r \in 1..MaxRequests |->
                     IF r = request.asked THEN forced[r] ELSE [forced[r] EXCEPT !.since = 0]]
    /\ UNCHANGED <<managerVars, operation, handler, applied, pair, twoFiles, site, serials,
                   restarts>>

\* The result of the goroutine; that its file cannot be written is ignored.
Finished(result, written) ==
    request' = [request EXCEPT !.result = result, !.file = IF written THEN result ELSE @]

\* Manager.Renew takes opMu.
BeginRenew(written) ==
    /\ request.result = "running" /\ operation = "free"
    /\ forced' = [forced EXCEPT ![request.begun] =
                     [since |-> @.since + 1, ever |-> 1]]
    /\ IF acme.on THEN operation' = "renewing" /\ UNCHANGED request
                  ELSE Finished("failed", written) /\ UNCHANGED operation
    /\ UNCHANGED <<managerVars, handler, applied, pair, twoFiles, site, serials, restarts>>

\* RenewCertSync: waits for the domain's lock, stores and calls the handler.
ForceRenewal ==
    /\ operation = "renewing" /\ handler = NoHandler /\ serials < MaxSerials
    /\ serials' = serials + 1
    /\ site' = [site EXCEPT ![config.domain] = serials + 1]
    /\ handler' = [gen |-> acme.gen, config |-> acme.config,
                   read |-> Made("acme", config.domain, serials + 1)]
    /\ operation' = "reading"
    /\ UNCHANGED <<managerVars, applied, pair, twoFiles, request, forced, restarts>>

RenewalFails(written) ==
    /\ operation = "renewing"
    /\ operation' = "free"
    /\ Finished("failed", written)
    /\ UNCHANGED <<managerVars, handler, applied, pair, twoFiles, site, serials, forced,
                   restarts>>

\* Renew reads the storage again and publishes what it finds.
FinishRenew(written) ==
    /\ operation = "reading" /\ handler = NoHandler
    /\ Publish(config, Made("acme", config.domain, site[config.domain]), written)
    /\ renewedFlag' = TRUE
    /\ operation' = "free"
    /\ Finished("succeeded", written)
    /\ UNCHANGED <<config, generation, acme, sourceSeen, handler, applied, site, serials,
                   forced, restarts>>

-----------------------------------------------------------------------------
(* The service and the process *)

\* CertRenewed takes the flag; the kernel reads the material later.
TakeRenewed ==
    /\ renewedFlag /\ ~ServiceWaits /\ applied.accepted
    /\ renewedFlag' = FALSE
    /\ applied' = [applied EXCEPT !.due = TRUE]
    /\ UNCHANGED <<config, material, generation, acme, sourceSeen, operation, handler, pair,
                   twoFiles, site, serials, request, forced, restarts>>

ApplyMaterial ==
    /\ applied.due /\ ~ServiceWaits
    /\ applied' = [applied EXCEPT !.material = material, !.due = FALSE]
    /\ UNCHANGED <<managerVars, operation, handler, pair, twoFiles, site, serials, request,
                   forced, restarts>>

\* The process ends anywhere and is started again.
RestartProcess ==
    /\ restarts < MaxRestarts
    /\ restarts' = restarts + 1
    /\ config' = FirstConfig /\ material' = NoMaterial
    /\ generation' = 0 /\ acme' = NoAcme /\ renewedFlag' = FALSE /\ sourceSeen' = FALSE
    /\ operation' = "boot"
    /\ handler' = NoHandler
    /\ applied' = [material |-> NoMaterial, due |-> FALSE, accepted |-> FALSE]
    /\ request' = [request EXCEPT !.begun = 0, !.result = "none", !.loaded = FALSE,
                                    !.unreadable = FALSE]
    /\ UNCHANGED <<pair, twoFiles, site, serials, forced>>

CertificatesNext ==
    \/ \E written \in BOOLEAN :
          \/ \E c \in CertConfigs : ReconfigureCert(c, written)
          \/ ObtainCert(written) \/ PublishRenewal(written) \/ LoadRequest(written)
          \/ BeginRequest(written) \/ BeginRenew(written) \/ RenewalFails(written)
          \/ FinishRenew(written)
    \/ ObtainCertFails \/ RenewInBackground \/ AskRenewal \/ ForceRenewal
    \/ TakeRenewed \/ ApplyMaterial \/ RestartProcess

CertificatesSpec == CertificatesInit /\ [][CertificatesNext]_certificateVars

-----------------------------------------------------------------------------
\* An accepted configuration has its own material and no other: nothing after
\* mode none, the configured domain otherwise, the newest of the storage when
\* the mode is ACME and no renewal is being handled.
MaterialIsConfigured ==
    operation = "free" /\ applied.accepted =>
        /\ config.mode = "none" => material = NoMaterial /\ pair = NoPair /\ ~renewedFlag
        /\ config.mode # "none" => /\ Fits(material, config)
                                   /\ UsesAcme(config) <=> material.mode = "acme"
        /\ UsesAcme(config) /\ handler = NoHandler => material.serial = site[config.domain]

\* The kernel has the manager's material or somebody still has to tell it.
NoRenewalMissed ==
    ~ServiceWaits /\ applied.accepted /\ ~applied.due /\ ~renewedFlag =>
        applied.material = material

\* A renewal the panel asked for is begun at most once until the node takes
\* another request, whatever restarts, failed writes and lagging replicas come
\* between, and what is reported as done was begun.  Only the last identifier is
\* kept: an old request that comes again after another one is begun again.
RenewedOnce ==
    /\ \A r \in 1..MaxRequests : forced[r].since <= 1
    /\ request.result = "succeeded" => forced[request.begun].ever >= 1

\* cert.go publishRenewal, start and startACME with operations.go
\* updateOperations: material, kernel and requests stay together.
CertificatesHold == MaterialIsConfigured /\ NoRenewalMissed /\ RenewedOnce

-----------------------------------------------------------------------------
(* Types, and why they hold. *)

Results == {"none", "running", "failed", "succeeded"}
Renewing == operation \in {"renewing", "reading"}
RequestStates ==
    [asked : 0..MaxRequests, begun : 0..MaxRequests, result : Results, saved : 0..MaxRequests,
     file : Results, loaded : BOOLEAN, unreadable : BOOLEAN]
ForcedCounts == [1..MaxRequests -> [since : Nat, ever : 0..1]]

\* Type invariant.
CertTypeOK ==
    /\ config \in CertConfigs /\ material \in Materials \cup {NoMaterial}
    /\ generation \in Nat /\ acme \in [on : BOOLEAN, config : CertConfigs, gen : Nat]
    /\ renewedFlag \in BOOLEAN /\ sourceSeen \in BOOLEAN
    /\ operation \in {"boot", "free", "obtaining", "renewing", "reading"}
    /\ handler \in [gen : Nat, config : CertConfigs, read : Materials \cup {NoMaterial}]
    /\ applied \in [material : Materials \cup {NoMaterial}, due : BOOLEAN, accepted : BOOLEAN]
    /\ pair \in [mode : Modes, material : Materials \cup {NoMaterial}]
    /\ twoFiles \in {"absent", "older", "users"}
    /\ site \in [Domains -> Nat] /\ serials \in Nat
    /\ request \in RequestStates
    /\ forced \in ForcedCounts

\* certmagic runs for the configuration in force and its generation, and what
\* is published is the newest of its storage, unless a handler brings it.
AcmeIsCurrent ==
    acme.on =>
        /\ acme.config = config /\ UsesAcme(config)
        /\ acme.gen = generation /\ generation > 0
        /\ operation \in {"free", "renewing", "reading"}
        /\ material \in Materials /\ material.mode = "acme" /\ material.domain = config.domain
        /\ handler = NoHandler \/ handler.gen # generation =>
              material.serial = site[config.domain]

\* A handler of the generation in force brings the newest of the storage; the
\* others bring nothing that is published.
HandlerIsCurrent ==
    handler # NoHandler =>
        /\ handler.gen \in 1..generation
        /\ handler.gen = generation =>
              /\ acme.on /\ handler.config = config
              /\ handler.read = Made("acme", config.domain, site[config.domain])

\* An operation is under way only for a configuration with ACME, one that is
\* over has left what the configuration needs.
OperationFits ==
    /\ operation = "obtaining" => UsesAcme(config)
    /\ Renewing => acme.on
    /\ operation = "free" /\ applied.accepted =>
        /\ UsesAcme(config) => acme.on
        /\ config.mode = "none" => material = NoMaterial /\ pair = NoPair /\ ~renewedFlag
        /\ config.mode # "none" /\ ~UsesAcme(config) =>
              Fits(material, config) /\ material.mode # "acme"

\* The pair says of which kind its material is.
PairIsWhole ==
    pair = NoPair \/ /\ pair.material \in Materials
                     /\ pair.mode \in {"http", "dns"} <=> pair.material.mode = "acme"

\* A request is written down before it begins, and what was begun since another
\* one was taken is the one in the file and the one the process knows.
RequestIsWritten ==
    /\ ~request.loaded \/ request.unreadable => request.begun = 0 /\ request.result = "none"
    /\ request.result = "running" =>
        /\ request.begun = request.saved /\ request.begun > 0
        /\ forced[request.begun].since = IF Renewing THEN 1 ELSE 0
        /\ Renewing => forced[request.begun].ever > 0
    /\ Renewing => request.result = "running"
    /\ request.result = "succeeded" => request.begun > 0 /\ forced[request.begun].ever > 0
    /\ request.file = "succeeded" => request.saved > 0 /\ forced[request.saved].ever > 0
    /\ \A r \in 1..MaxRequests :
          /\ forced[r].since <= 1
          /\ forced[r].since > 0 =>
                r = request.saved /\ (request.loaded /\ ~request.unreadable => request.begun = r)

CertInv ==
    /\ AcmeIsCurrent /\ HandlerIsCurrent /\ OperationFits /\ PairIsWhole /\ RequestIsWritten
    /\ NoRenewalMissed
=============================================================================
