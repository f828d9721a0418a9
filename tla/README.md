# TLA+ models of the Dynatrace Operator

This directory specifies the controllers and node-side parts of the Dynatrace
Operator: the DynaKube controller with its sub-reconcilers, Istio, the injection
of code modules into pods, the webhook's certificates, the CSI driver and the
nodes controller. Each module is written from the Go source; `PROJECT.json`
maps every definition to the lines it stands for.

## The system

| Component | State it keeps | Operations | Shares with | Hard part | What makes it correct |
|---|---|---|---|---|---|
| Webhook certificates controller (`controllers/webhookcerts`) | Secret, Service, MutatingWebhookConfiguration | Reconcile every 3 h: certificates, Service, configuration | webhook pod (Secret), API server (CABundle) | three requests that fail one by one, renewal thresholds, root rollover | what the pod serves is unexpired and trusted |
| Webhook pod (`cmd/operator/webhook_server.go`, `webhook/server/certs.go`) | `tls.crt`, `tls.key`, the served pair | start-up loop, watcher every 6 h | Secret | two files written one after the other, no retry before 6 h | it starts, and serves a matching, current pair |
| CSI driver server (`controllers/csi/driver`) | mounts, usage files, metadata, a gauge | NodePublishVolume, NodeUnpublishVolume | data directory, without locks | calls interleave with the provisioner and the garbage collector, crashes between any two steps | a running pod keeps complete binaries, nothing is leaked |
| CSI provisioner (`controllers/csi/provisioner`) | `bin/<version>`, `version`, tenant file | Reconcile every 5 min | DynaKube status, data directory | a partial installation | only complete versions are published |
| CSI garbage collector (`controllers/csi/gc`) | none | Reconcile: query latest, list, check, remove; then logs | data directory, Dynatrace API | check, then remove | removes what is outdated and unused, and nothing else |
| Nodes controller (`controllers/nodes`) | ConfigMap `dynatrace-node-cache` | onUpdate, onDeletion, reconcileAll from one select loop | nodes, DynaKube status, Dynatrace events | events cannot be undone when the ConfigMap is not written; stale reads; lost notifications | at most one event an hour, none forgotten |
| DynaKube controller (`controllers/dynakube`) | DynaKube status | Reconcile: tokens, status, Istio, pull secret, versions, capabilities, OneAgents, status update | all other parts through the status | it works from a lagging cache, returns after most changes, and loses its status to conflicts and crashes | every object and the status end up as the spec and the surroundings say, and nothing else happens on the way |
| OneAgent reconciler (`controllers/oneagent`) | DaemonSet, instance statuses, phase | roll-out, update by template hash, listing of pods | DynaKube status, shared by two features | the status of one feature overwritten by the other | the DaemonSet converges, versions do not go back |
| ActiveGate reconcilers (`controllers/activegate`) | StatefulSets, Services, custom properties | create, update, recreate, delete per capability | DynaKube spec | several runs per capability, disabling in between | exactly the enabled capabilities exist, each with its Service |
| Namespace controller (`controllers/namespace`) | config Secret per namespace | Reconcile every 5 min | namespace labels, DynaKubes, tokens | only namespaces are watched | the Secret follows DynaKube and tokens |
| Pod injection webhook (`webhook/server`) | the pod under admission | Handle, once or twice per pod | namespace, DynaKube (own cache), config Secret | reinvocation after other webhooks; admission before the Secret exists | a pod is injected once, its containers are configured, it starts |
| Istio controller (`controllers/istio`) | ServiceEntries, VirtualServices | create missing, remove obsolete, per role | communication hosts in the status | two roles share objects, runs end early, deletions are skipped | objects match the hosts in use |
| dtclient, dtversion | host cache | queries, version parsing | Dynatrace API, registry | none that is shared | total, consistent order of versions |

The status, the data directory and the ConfigMap are the only channels between
processes; within one process, controllers run as concurrent goroutines. The
DynaKube controller's status carries the agent version to the CSI provisioner,
its OneAgent instances feed the nodes controller, and the namespace controller
and webhook look DynaKubes up by name.

## Modules

| Module | Models |
|---|---|
| `WebhookCerts` | webhook certificates controller and webhook pod, composed over the Secret; properties and the inductive invariant |
| `CsiNode` | CSI driver server, provisioner and binary garbage collector of one node, composed over the data directory |
| `NodesController` | the nodes controller, its channels and its cache |
| `DynaKube` | the DynaKube controller with the reconcilers of pull secret, versions, ActiveGate capabilities and OneAgents |
| `LevelTriggered` | what a level-triggered controller promises about its objects; `DynaKube` refines it |
| `Istio` | the Istio controller, called from each Reconcile of the DynaKube |
| `Injection` | namespace controller and pod injection webhook, composed over the config Secret and the pod, with API server and kubelet |
| `...Proofs` | the theorems about each of these, with their proofs |
| `MC...` | instances for TLC; each `.cfg` is one run |

Definitions called `...Mutant` are faulty variants of the definition that
follows them. No specification uses them; they exist to show that a property
notices such a fault.

### WebhookCerts

Time is counted in hours. `secret`, `svc`, `cfg` are the objects in the API
server; `rpc` is how far the Reconcile in progress got and `rootCerts` what its
first step returned; `rDue` is when the next request is due. Reconcile is three
actions (`reconcileCerts`, `reconcileService`, `reconcileWebhookConfig`), each
of which may be the last (`ReconcileError`, after which the work queue retries).
The pod is `phase`, the two files, the `served` certificate and the watcher's
`wDue`; `UpdateOutcome` lists everything a call of `UpdateCertificate` can do,
including a write that fails half-way. A key is identified with the certificate
it was made for. `syncedAt` is history: the last time a run left the pod
serving what the Secret held. Kubelet, kubectl users and the clock are the
environment.

Abstractions: a certificate is its serial, issuer and expiry (no encoding, no
domain names); the optimistic concurrency of the API server makes a Reconcile
that read an old Secret fail, which `ReconcileError` covers; the Service is
only there or not.

### CsiNode

Every call to the file system or the mounter is an action; `op[vol].pc` is
where the gRPC call of a volume is, `gc` and `prov` are the two controllers.
The files are `bin`, `refDir`, `ref`, `versionFile`, `meta`, the mounts
`overlay` (a stack, as mounts on one path are) and `target`. `Fault` lets any
call fail, `Crash` loses the process with its gauge. `raced` and `torn` are
history: the volumes whose publish call overlapped a removal or installation of
its own version, and the versions removed while being installed; `cut` holds
the versions whose installation or removal was cut short, by a crash or by a
`RemoveAll` that failed. The removal of a version (`binaries.go`) is two steps,
some files and then the rest, and may stop between them; the clean-up of a
failed installation (`reconciler.go`) ignores the error of its own `RemoveAll`.
The code has no protection in these windows (see Findings), so the other
properties exclude them and say what holds elsewhere.

Abstractions: one DynaKube, one tenant; kubelet has one call per volume in
flight; the unpacking is two steps (the directory exists, the last file is
there); directories that the server creates without looking at the result are
left out.

### NodesController

`run` is the handler in progress with its private copy `c` of the cache, its
snapshots and the nodes still to treat. A handler is: start (read), one step
per node to mark (`reconcileUnschedulableNode`), the refresh of the entries
(`RefreshCache`), one step per node to remove (`RemoveSilently`,
`RemoveMarked`), and `UpdateCache`. The environment changes the cluster between
any two steps. `view` is the ConfigMap as the informer shows it: at most one
version behind, since a write based on an older version is refused.
`lastSent`, `tooClose`, `tried` and `outcome` record the events, attempts and
what became of the last one; `rejoined` the names that were used again.

Abstractions: one DynaKube; IP addresses are known or not; pending
notifications are a set (notifications of one node that are pending together
are one, and the channels are served in any order anyway); an absent ConfigMap
is an empty one.

### DynaKube and LevelTriggered

`cr` is the DynaKube in the API server, `cache` the informer's copy, `run` the
Reconcile in progress with its private copy of spec and status, `objs` the
objects it owns and `view` what the informers show of them, `ext` everything it
reads and does not own: tokens, user Secrets, readiness of the pods, the three
versions on offer (installer, ActiveGate image, OneAgent image). A run goes through the
places of `run.at` in the order of `reconcileDynaKube`; `unit` is the
capability or feature it is at and `part` the request within. `Abort`, `Update`
and `Yield` are `rec.Error`, `rec.Update` and the early return after an update.
`Closing` and `MustStore` are the two sides of
`rec.Updated || SetPhaseOnError`, `End` the result handed to the work queue. A
status update that meets a conflict (`UpdateCRConflict`) counts as a success,
as in the code. Every look at a Service, StatefulSet, DaemonSet or Secret goes
through `view` (`Shown`, `Reads`): it may have caught up with `objs` or not, and
a creation, update or deletion that relies on an outdated look is refused by
the API server or, where the code does not write, has no request at all.

History: `asked`, when Dynatrace was last asked about a token; `lost`, whether a
computed status was ever lost or read stale; `unstored`, the versions that were
rolled out and whose status was never stored; `misled`, the capabilities that
were rolled out on a Service the informer still showed and that was gone.

Timestamps are ages in ticks of five minutes that stop where the code no longer
distinguishes them; a nil timestamp is an old one. A run and the informers' lag
are shorter than a tick, and each outdated look at an object counts as one of
the `MaxFaults`; `QuickRetries` failed runs fit in one tick before the
back-off of the work queue exceeds it.

`LevelTriggered` has five variables: the stored spec, the informer's, the one
the current Reconcile works from, the objects, and what is shown of them. Its
steps are an edit, the two hops of the spec, the informers catching up, applying
to one object something the last spec allows, and discarding an object that is
wrong or is shown to be. `DynaKube` refines it with `want <- cr.spec`,
`mirror <- cache.spec`, `seen <- run.spec`, `have <- objs`, `shown <- view`;
`Allowed` says what a spec allows for each object.

Abstractions: one DynaKube, which is not deleted; what a pod template is made
of is one value `tmpl` per spec and `immutable`; versions are naturals; Istio
contributes that it updated something; the hash of custom properties is their
content; objects are only changed by the controller; a OneAgent's `validate`
holds.

### Istio

`objs` maps kind and host to the role in the object's label; the name of an
object is a hash of protocol, host and port, which the model takes to be
injective. Per host `handleIstioConfiguration` probes and creates in one action,
for the ServiceEntry and then the VirtualService (nobody else writes these
objects in between); then come the two listings by label, and one deletion at a
time. `mesh` is the set of types that are installed: `EditMesh` installs or
removes any of them, and objects go with their type. A probe for a type that
fails counts as found, as in the code, so that the run meets the missing type
later (`NoSuchType`). History: `wanted`, the roles that ever needed a host, and
`disturbed`, set when a deletion was skipped, when the types changed during a
run, or when the ServiceEntries went away and the VirtualServices stayed.

### Injection

`now` is what is stored, `view` what operator and webhook see of it. `work` is
the data of a namespace's Reconcile between its reads and its write. The pod is
a record from its admission on: the containers with their `LD_PRELOAD`, the
`CONTAINER_<n>_NAME` entries and the count of the install container, and
`conf`, the files the init script has written. `AddSidecar` is another webhook,
`Called` the API server's rule for calling this one, again if the pod was
altered and the policy is `IfNeeded`. The shipped manifest sets that policy; the
configuration the operator writes itself has none, which means never. Either may
be in force, so an altered pod is admitted with or without a second call.
`StartContainers` is the kubelet, which waits for the Secret key of `DT_PROXY`.

Abstractions: one namespace, one pod at a time; container images, technologies
and paths are left out; no OneAgentAPM is installed.

## Runs

| Run | Shows |
|---|---|
| `webhook_certs` | `ServedCertValid`, `NoOrphanedCert`, `ChainVerifies`, the inductive invariant `IInv` (types included), `TrustGapCloses`, `StartupCompletes` with failing requests, restarts, failing writes and an edit by hand |
| `csi_node` | `PublishedIsSound`, `UnpublishLeavesNothing`, `GaugeIsAccurate` and `OutdatedIsReclaimed` when the tenant goes to a new version and back |
| `csi_faults` | `ReferencedIsKept`, `PresentIsComplete`, `MetadataHasUsageFile` and `IInv` with a crash and a failing call, also in the middle of a removal |
| `csi_race` | violated: `GCRemovesOnlyUnused` |
| `nodes` | `HourlyLimit`, `TriedBeforeRemoval` with two nodes, an unacknowledged event and a restart |
| `nodes_live` | `IInv`, `DeletedLeavesCache`, `CordonedIsMarked`, `MarkIsKept` with lost notifications, failing requests, a lagging informer and an unacknowledged event |
| `nodes_notify` | violated: `NotifiedOnRemoval` |
| `dynakube` | `ServiceBeforeStatefulSet`, `IInv`, `ProbesAreSpaced`, `NoDowngrade` and the refinement of `LevelTriggered`, with two edits and a failing request, outdated look or crash at any step |
| `dynakube_live` | `Converges`, `AgentsFollowRelease`, `LatestIsPublished`, `ConditionsFollowTokens`, `PhaseFollowsPods`, `ErrorIsReported` |
| `istio` | `RoutedIsKnown`, `IInv`, `NeededIsKept`, `Converges` |
| `injection` | `InstrumentedIsConfigured`, `InjectedOnce`, `IInv`, `SecretFollows`, `PodsStart` |
| `injection_reinvoke` | violated: `ReinvokedIsConfigured` |

In every module `IInv` is the inductive invariant of its proofs, types included;
see Proofs.

Run one with `tlc -workers 2 -config <cfg> <module>`. Five more configurations
are not part of the regular runs. Three show deviations listed under Findings:
`MCWebhookCertsFiles.cfg`, `MCDynaKubePhase.cfg`, `MCDynaKubeProbe.cfg`. Two
repeat properties of the runs with other bounds, and pass: `MCCsiNodeTwo.cfg`
with two volumes, `MCNodesControllerFaults.cfg` with one node and a failing
request, an unacknowledged event and a restart together.

### Bounds

*WebhookCerts.* The code's 12 h threshold, 168 h and 8760 h lifetimes, 3 h and
6 h periods become 4, 6, 10, 1 and 2, with an outage of 1: as in the code, a
reconcile period, a watcher period and an outage fit in the threshold and a
further missed watcher run does not. Eight hours cover a rollover of the root
on schedule and the watcher run after it; the theorems lift the bounds.

*CsiNode.* Two versions are an old and a new one; a third behaves as either.
One volume interleaves with the provisioner and the garbage collector, over a
release and its rollback (`MaxReleases = 2`) or over one release with a crash
and a fault, which put a failure at every step. With two volumes the reference
of one protects the binaries the other gives up; `MCCsiNodeTwo.cfg` checks that
without rollback, and the theorems cover any number.

*NodesController.* `Hour = 1` makes "more than an hour" two ticks. Two nodes
let the treatment of one change the run another is part of; two changes of the
cluster are a cordon and a deletion, or a deletion and a re-creation. The
liveness run uses one node, with a failing request or a lagging informer and an
event that is not acknowledged, and `nodes_notify` one with a failing lookup or
send alone.

*DynaKube.* The safety run has a capability with a Service that one spec enables
and the other does not, one that both enable with different labels and custom
properties, a OneAgent that moves between installer and image, which offer
different versions, and an own and a generated pull secret. Two edits take a
capability off and on again and the agent to the image and back in the middle
of any run, and one fault puts a failure, an outdated look or a crash at every
step: enough for the informer to show a Service that is gone (`misled` is
reached).
The liveness run moves all capabilities to other labels and custom properties,
which deletes and recreates their StatefulSets, and has two tokens and
surroundings that offer newer versions (the OneAgent image goes back when the
others go on), or lack the Secret, a token, its scope or its authorisation, or
what the client, the pull secret and the custom properties need. It has no
faults; its edit breaks and repairs the surroundings as a fault would.

*Istio.* Two names and an address; two edits, so that a host can be needed by
one role, then by both, then by the other, or a type can go and come back; one
failing request or crash.

*Injection.* Pods with one or two containers, one sidecar that may come first
or last; a DynaKube without a proxy, with one, or with one whose Secret is
missing; one edit and two faults, so that a download may fail after a failed or
repeated Reconcile.

### Fairness

*WebhookCerts.* Reconcile starts when due (weak); the requests that may fail
are retried by the work queue and assumed not to fail for ever, hence strong
fairness of the two later steps and of a start-up attempt that succeeds. Time
is not assumed to pass.

*CsiNode.* Kubelet repeats its calls, both controllers requeue themselves, and
the operator refreshes the status: weak fairness of each. Faults are bounded.

*NodesController.* The goroutine keeps running (weak), Go's `select` picks
among ready channels at random and so does not starve the ticker (strong), the
ticker fires for ever and the informer catches up (weak).

*DynaKube.* Every result of Reconcile queues the next one, so its steps are
weakly fair; failing requests, crashes and updates by Istio are bounded. The
informer catches up and time passes while runs go on. The model lets both
happen between two runs only, where a fresh run may always start first, hence
strong fairness of `Sync` and `Tick`.

*Istio.* Weak fairness of the controller: each Reconcile of the DynaKube calls
it and there is always another one.

*Injection.* The namespace controller requeues itself, admissions are answered,
a workload's controller creates its pod again, the kubelet retries, informers
catch up: weak fairness of each. Users and other webhooks owe nothing.

## Findings

* `csi_race`: the garbage collector asks for the latest version before it lists
  the installed ones. A version that is released and installed in between, the
  newest and only one, counts as outdated; and the usage file that would protect
  it is written after the mount, so that the binaries are removed under the
  volume that is being published. The same window is open to a publish call that
  read the version file before an update.
* `nodes_notify`: "Notify and remove all nodes on the c that aren't in the
  cluster." A failed lookup of the node's entity, of whatever kind, is logged and
  taken for success, and a mark is stamped before its event is sent: when the send
  fails in `reconcileAll`, the stamp is persisted and the node later dropped
  without an event. What holds is `TriedBeforeRemoval`.
* `injection_reinvoke`: a container added by another webhook is instrumented by
  the reinvocation, but `CONTAINERS_COUNT` keeps its first value and the init
  script never writes the container's file. This takes the policy `IfNeeded` of
  the shipped manifest: the configuration that the operator writes itself drops
  it, which takes the feature away and the mistake with it.

Shown by the further configurations:

* `MCWebhookCertsFiles.cfg`: `UpdateCertificate` returns from inside its loop
  when `tls.crt` is up to date. If an earlier run failed between the two files,
  `tls.key` stays wrong until the next renewal and no run reports an error.
* `MCDynaKubePhase.cfg`: with ActiveGates only, the phase stays `Error` for
  ever after one failed run: only the OneAgent reconciler sets another phase.
* `MCDynaKubeProbe.cfg`: a token is probed twice within five minutes when the
  status with the first probe's time was lost ("we wait at least 5 mins between
  proves", `dtclient_reconciler.go`); `ProbesAreSpaced` is what holds.

Met on the way, without a property: a namespace whose code modules are disabled
gets a Secret of the tokens' name deleted instead of the config Secret
(`namespace_controller.go:103`); a literal proxy is assigned to itself and not
to the OneAgent's environment variable (`oneagent_controller.go`,
`prepareEnvVars`); `init.sh` appends, so that an init container that runs twice
writes its files twice; `NeedsActiveGate` leaves out the data-ingest
capability, whose version alone is never looked up.

## Proofs

Every safety property that a passing run checks is also a theorem, for every value of
the constants that the module's `ASSUME` allows: the bounds on edits, faults,
crashes and changes are arbitrary naturals, and so are the sets of volumes,
versions, nodes, tokens, specs, hosts and pods. Each proof module has the same
shape: lemmas on the operators and on the effect of each action, one lemma per
action or group of actions that `IInv` is kept, `Inductive == Spec => []IInv`,
and then one theorem per property. `TypeCorrect` is `Spec => []TypeOK`.

| Module | Theorem | States |
|---|---|---|
| `WebhookCertsProofs` | `ServedCertAlwaysValid`, `NeverOrphaned`, `ChainAlwaysVerifies` | `ServedCertValid`, `NoOrphanedCert`, `ChainVerifies` |
| `CsiNodeProofs` | `ReferencesProtect`, `InstalledIsComplete`, `MetadataIsBacked` | `ReferencedIsKept`, `PresentIsComplete`, `MetadataHasUsageFile` |
| | `PublishedSound`, `UnpublishedClean`, `GaugeAccurate` | `PublishedIsSound`, `UnpublishLeavesNothing`, `GaugeIsAccurate`, in every state before the first crash or failing call |
| `NodesControllerProofs` | `OneEventPerHour`, `MarksStay`, `RemovedIsTried` | `HourlyLimit`, `MarkIsKept`, `TriedBeforeRemoval` |
| `DynaKubeProofs` | `ServiceFirst`, `NeverDowngraded`, `SpacedProbes` | `ServiceBeforeStatefulSet`, `NoDowngrade`, `ProbesAreSpaced` |
| | `Refinement` | `RefinesLevelTriggered` |
| `IstioProofs` | `RoutesAreKnown`, `NeededObjectsStay` | `RoutedIsKnown`, `NeededIsKept` |
| `InjectionProofs` | `Idempotent`, `ConfiguredWhenRunning` | `InjectedOnce`, `InstrumentedIsConfigured` |

The proviso of `PublishedSound` and its neighbours is that of the run that
checks these properties (`MaxCrashes` and `MaxFaults` zero); as theorems they
also cover the part of a behaviour before the first fault. The code does not keep these promises after one; see
Findings and the hazards.

### Why the invariants have to be strengthened

*WebhookCerts.* Whether a served certificate is still valid depends on how late
the controller may be, on how fresh the Secret was when the pod copied it, and
on where its root went meanwhile. `IInv` adds: the clock is at most one outage
past the due time, and the Secret's certificate is good for the threshold minus
one period (`TimingInv`); the pair on disk, if it loads, is what is served, and
it was fresh when synchronised (`ServedInv`); an unedited Secret is absent or
complete, its root as fresh as the schedule promises (`SecretInv`); the
configuration equals the Secret's roots between two Reconciles (`ConfigInv`);
the root of the served certificate is the current or the previous one, and in
the latter case the certificate is older than the current root, so that it has
expired before a second rollover (`IssuerInv`). `ServerValidity +
RenewalThreshold <= RootValidity` is used only there.

*CsiNode.* A usage file is written after the mount, so that what protects the
binaries in between is that no removal of that version is under way: `RaceInv`
says so of every volume that is not `raced`, and `FootingInv` that what the
publish call made so far is still there. `ControllerInv` keeps provisioner and
garbage collector apart: the version being installed is not the one in the
version file, and when both work on one version it is recorded as `torn`; a
version that is incomplete although nobody works on it was `cut` short. Up to
the first fault `Stage` lists, for each step of a call, exactly which mounts,
metadata and references exist; that nothing is left at the end follows by
walking through it. The gauge is a cardinality: each step adds or removes at
most one volume of one version.

*NodesController.* The hourly limit relates events sent by three handlers which
share nothing but a ConfigMap. `Remembered` says where the last event of a node
is remembered: in the copy of the running handler, or in the ConfigMap between
handlers, unless the node is gone and nobody will look at it. `FreshInv` is
what the refused update protects: a handler that read the current version knows
every mark in it. `TriedInv` says that a stamp, in whichever copy of the cache,
is never later than the last attempt to send.

*DynaKube.* Service and StatefulSet are requests of different steps, so
`ServiceInv` says what is true of the pair at each part of a capability, the
Service being there or its capability `misled`. `NoDowngrade` and
`ProbesAreSpaced` compare what was deployed or asked with a status that lives in
three places. `StatusInv` says which one counts (`Current`), that it is never
behind the probes unless a status was lost, and that a run which is not going to
store its status did not change this part of it: the reason why `rec.Update` has
to be told of every change. `VersionInv` says the same of the OneAgent version,
with the versions that were never stored as its only exception: they are kept
apart (`unstored`) because a lost status excuses only the version it recorded.

*The refinement.* `want` is the stored spec, `mirror` the cached one, `seen`
that of the run, `have` the objects, `shown` the informers' view of them. Start
observes, Crash and Sync sync, EditSpec edits, Tick and the looks without a
request show. Every other step of a run is `Lawful` (`MiddleSound`): it
writes at most one object, with a content the spec allows, or removes one that
the spec does not allow as it is; the rest stutters.

*Istio.* `OrderInv`: the ServiceEntry is there when a run comes to the
VirtualService, and when a run deletes ServiceEntries its role has no unneeded
VirtualService left; it holds until the run of events is `disturbed`. `TypedInv`
says that objects go with their type. `LabelInv` and `WorkInv` carry over from one run to the
next that a role only deletes what it once needed.

*Injection.* `PodInv` counts install containers and preloads along with the
flag that the pod was injected, and says that without a reinvocation each
instrumented container is one of those listed for the init script.

### Only model-checked

The liveness properties, which are out of the prover's reach: `TrustGapCloses`,
`StartupCompletes`, `OutdatedIsReclaimed`, `DeletedLeavesCache`,
`CordonedIsMarked`, `Converges` of `DynaKube` and of `Istio`,
`AgentsFollowRelease`, `LatestIsPublished`, `ConditionsFollowTokens`,
`PhaseFollowsPods`, `ErrorIsReported`, `SecretFollows` and `PodsStart`.

## Not modelled, and the plan

* The log garbage collector (`controllers/csi/gc/logs.go`): it deletes by the
  age of directories and shares only the metadata it reads.
* `dtclient`: HTTP and JSON. The parsing of version strings and the registry
  access of `dtversion`; their outcomes are inputs of `DynaKube`.
* Start-up of the processes, apart from the webhook server's loop.
* Several DynaKubes at once, and the deletion of one (Kubernetes removes the
  objects it owns).

Worth proving next: the step lemmas of the liveness arguments (from each stage
of a run of `DynaKube` only later stages or the end are reached), and that the
deviations under Findings are the only exceptions, by weaker provisos than
`raced`, `disturbed` and `lost`, as `unstored` and `misled` already are for the
versions and the Services.

Out of scope: generated deep copies, logging, scheme registration, layout of
pod templates and YAML, HTTP transport, image registries.
