------------------------------ MODULE DynaKube ------------------------------
(***************************************************************************)
(* The DynaKube controller: one Reconcile after the other over one         *)
(* DynaKube, through the token probes, the status, the pull secret, the    *)
(* versions, the three ActiveGate capabilities and the two OneAgent        *)
(* features, down to the update of the status.  One action per request     *)
(* that changes the cluster; a request may fail, the operator may crash    *)
(* between any two, users edit the DynaKube and the Secrets it refers to   *)
(* at any time, and the informers that Reconcile reads the DynaKube, the   *)
(* Services, StatefulSets, DaemonSets and Secrets from lag.                *)
(*                                                                         *)
(* Timestamps are ages in ticks of five minutes that stop at the age the   *)
(* code tells apart; a nil timestamp is one that is old enough.            *)
(***************************************************************************)
EXTENDS Naturals, Sequences, FiniteSets

CONSTANTS
  Specs,         \* the specs users apply to the DynaKube
  Externals,     \* states of what the operator does not own
  Tokens,        \* the tokens that are probed
  Absent,        \* an object that does not exist
  TokenWait,     \* ticks between two probes of a token
  ProbeWait,     \* ticks to exceed between two looks for versions or hosts
  RequeueWait,   \* ticks until the next run when nothing was updated
  QuickRetries,  \* failed runs in a row that happen within one tick
  MaxEdits,      \* bound: edits of the spec or of Externals
  MaxFaults      \* bound: failing requests, stale reads of objects, crashes,
                 \* Istio updates

Caps     == {"kubemon", "routing", "data-ingest"}
Exposed  == {"routing", "data-ingest"}      \* Configuration.CreateService
Features == {"inframon", "classic"}
Order    == <<"kubemon", "routing", "data-ingest", "inframon", "classic">>

TokenStates == {"absent", "missing", "spaces", "unauthorized", "noscope", "ok"}
Images      == {"ag", "oa"}     \* of the ActiveGate, the immutable OneAgent
Versions    == {0} \cup {e.latest : e \in Externals}
                 \cup {e.image[i] : e \in Externals, i \in Images}

\* What the controller tells apart in a DynaKubeSpec.  tmpl stands for all the
\* fields that only end up in pods; props.kind is "none", "value"
\* (customProperties.value) or "from" (valueFrom).
DynaKubeSpec(s) ==
  /\ s.enabled \subseteq Caps \cup Features
  /\ s.immutable \subseteq Features
  /\ s.props.kind \in {"none", "value", "from"}
  /\ {s.ownPull, s.autoUpdate, s.agUpdates, s.istio} \subseteq BOOLEAN

ASSUME ConstantsAssumption ==
  /\ Specs # {} /\ \A s \in Specs : DynaKubeSpec(s)
  /\ Externals # {}
  /\ \A e \in Externals :
       /\ e.tok \in [Tokens -> TokenStates]
       /\ \A t, u \in Tokens : e.tok[t] = "absent" => e.tok[u] = "absent"
       /\ {e.client, e.pull, e.ready} \subseteq BOOLEAN
       /\ e.latest \in Nat /\ e.image \in [Images -> Nat]
  /\ "PaaSToken" \in Tokens
  /\ Absent # "service"
  /\ TokenWait \in Nat \ {0} /\ ProbeWait \in Nat /\ RequeueWait \in Nat
  /\ QuickRetries \in Nat \ {0}
  /\ MaxEdits \in Nat /\ MaxFaults \in Nat

Objects == ({"sts", "props"} \X Caps) \cup ({"svc"} \X Exposed)
             \cup ({"ds"} \X Features) \cup {<<"pull", "secret">>}

VARIABLES
  cr,       \* [spec, status] as stored by the API server
  cache,    \* [spec, status] as the informer shows it
  synced,   \* whether cache has the resource version of cr
  objs,     \* object -> content or Absent
  view,     \* the same as the informers show it
  ext,      \* tokens, user Secrets, pods and the versions Dynatrace offers
  run,      \* the Reconcile in progress
  asked,    \* history: token -> ticks since Dynatrace was last asked about it
  lost,     \* history: a status was computed and not stored, or read stale
  unstored, \* history: OneAgent versions newer than the stored one, of
            \* statuses that were computed and not stored
  misled,   \* history: capabilities whose Service is gone, and which were
            \* rolled out as if it were there
  wait,     \* ticks until the work queue hands out the DynaKube again
  failures, \* failed runs in a row, as the work queue's back-off counts them
  edits, faults

objects == <<objs, view, misled>>
losses == <<lost, unstored>>
vars == <<cr, cache, synced, objects, ext, run, asked, losses, wait, failures,
          edits, faults>>
-----------------------------------------------------------------------------
Older(n, max) == IF n < max THEN n + 1 ELSE n
OldEnough == ProbeWait + 1

Status ==
  [probe : [Tokens -> 0..TokenWait],
   cond : [Tokens -> {"None", "Error"} \cup TokenStates],
   phase : {"None", "Running", "Deploying", "Error"},
   ag : [version : Versions, age : 0..OldEnough],
   oa : [version : Versions, age : 0..OldEnough],
   hosts : 0..OldEnough, immutable : BOOLEAN,
   latest : Versions, tokens : {Absent} \cup {s.tokens : s \in Specs}]

NewStatus ==
  [probe |-> [t \in Tokens |-> TokenWait], cond |-> [t \in Tokens |-> "None"],
   phase |-> "None",
   ag |-> [version |-> 0, age |-> OldEnough],
   oa |-> [version |-> 0, age |-> OldEnough],
   hosts |-> OldEnough, immutable |-> FALSE, latest |-> 0, tokens |-> Absent]

Aged(st) ==
  [st EXCEPT !.probe = [t \in Tokens |-> Older(@[t], TokenWait)],
             !.ag.age = Older(@, OldEnough), !.oa.age = Older(@, OldEnough),
             !.hosts = Older(@, OldEnough)]

Idle(s) ==
  [at |-> "idle", unit |-> 1, part |-> 1, spec |-> s, status |-> NewStatus,
   fresh |-> TRUE, updated |-> FALSE, next |-> RequeueWait, failed |-> "no"]

Templates   == {s.tmpl : s \in Specs}
Labels      == {s.labels : s \in Specs}
PropsValues == {0} \cup {s.props.value : s \in Specs} \cup {e.props : e \in Externals}

StatefulSets == [tmpl : Templates, labels : Labels, version : Versions, props : PropsValues]
DaemonSets   == [pod : [tmpl : Templates, immutable : BOOLEAN], version : Versions]

Contents(o) ==
  {Absent} \cup CASE o[1] = "sts"   -> StatefulSets
                  [] o[1] = "ds"    -> DaemonSets
                  [] o[1] = "svc"   -> {"service"}
                  [] o[1] = "props" -> PropsValues
                  [] o[1] = "pull"  -> TokenStates

Runs ==
  [at : {"idle", "tokens", "status", "istio", "pull", "versions", "cap", "agent",
         "persist"},
   unit : 1..Len(Order), part : 1..3, spec : Specs, status : Status,
   fresh : BOOLEAN, updated : BOOLEAN, next : {0, 1, RequeueWait},
   failed : {"no", "error", "throttled"}]

TypeOK ==
  /\ cr \in [spec : Specs, status : Status]
  /\ cache \in [spec : Specs, status : Status]
  /\ synced \in BOOLEAN
  /\ DOMAIN objs = Objects /\ \A o \in Objects : objs[o] \in Contents(o)
  /\ DOMAIN view = Objects /\ \A o \in Objects : view[o] \in Contents(o)
  /\ misled \in SUBSET Exposed
  /\ ext \in Externals
  /\ run \in Runs
  /\ asked \in [Tokens -> 0..TokenWait]
  /\ lost \in BOOLEAN /\ unstored \in SUBSET Versions
  /\ wait \in Nat /\ failures \in 0..QuickRetries
  /\ edits \in 0..MaxEdits /\ faults \in 0..MaxFaults

Init ==
  /\ \E s \in Specs : /\ cr = [spec |-> s, status |-> NewStatus]
                      /\ run = Idle(s)
  /\ cache = cr
  /\ synced = TRUE
  /\ objs = [o \in Objects |-> Absent]
  /\ view = objs /\ misled = {}
  /\ ext \in Externals
  /\ asked = [t \in Tokens |-> TokenWait]
  /\ lost = FALSE /\ unstored = {}
  /\ wait = 0 /\ failures = 0 /\ edits = 0 /\ faults = 0
-----------------------------------------------------------------------------
(* Building blocks of a run                                                *)

Works == faults' = faults
Fails == faults < MaxFaults /\ faults' = faults + 1

\* A step of the run that changes nothing but the run itself and, where the
\* action says so, one object or the history of probes.
Quiet == UNCHANGED <<cr, cache, synced, ext, losses, wait, failures, edits>>

\* What a read of o through the informer may give: it has caught up, or it still
\* shows what it did.
Shown(o) == {view[o], objs[o]}
Reads(o, c) == IF c = objs[o] THEN Works ELSE Fails

\* A read that gave c and has no consequences.
Saw(o, c) == view' = [view EXCEPT ![o] = c] /\ UNCHANGED objs

\* o, of which the informer showed c, becomes new; the informer lags.
Write(o, c, new) ==
  /\ objs' = [objs EXCEPT ![o] = new]
  /\ \E v \in {c, objs[o]} : view' = [view EXCEPT ![o] = v]

\* The API server refuses to create what is there, and to change or delete what
\* is not, against what the informer showed.  The request then has failed.
Refused(o, c) == (c = Absent) # (objs[o] = Absent)

\* ensureDeleted: an object that is gone already will do.
ensureDeleted(o) == Write(o, view[o], Absent)

\* rec.Error(err): the run ends and its result is the error.
Abort(r, why) == [r EXCEPT !.failed = why, !.at = "persist"]

\* rec.Update(upd, d, ...): the status is to be stored, the next run is in d.
Update(r, upd, d) == IF upd THEN [r EXCEPT !.updated = TRUE, !.next = d] ELSE r

\* rec.Update(true, ...) followed by the return that ends the run.
Yield(r) == [Update(r, TRUE, 1) EXCEPT !.at = "persist"]

NextUnit(r) ==
  IF r.unit = Len(Order)
  THEN [r EXCEPT !.at = "persist"]
  ELSE [r EXCEPT !.unit = @ + 1, !.part = 1,
                 !.at = IF Order[r.unit + 1] \in Caps THEN "cap" ELSE "agent"]

NextPart(r) == [r EXCEPT !.part = @ + 1]

unit == Order[run.unit]
enabled == unit \in run.spec.enabled

NeedsActiveGate(s) == s.enabled \cap {"kubemon", "routing"} # {}
NeedsOneAgent(s) == s.enabled \cap Features # {}
NeedsImmutableOneAgent(s) == s.enabled \cap s.immutable # {}

UpgradedMutant(old, new) == new
\* NeedsUpgradeRaw: an unknown version is replaced, an older one upgraded.
Upgraded(old, new) == IF old = 0 \/ new > old THEN new ELSE old
-----------------------------------------------------------------------------
(* Reconcile, from its first read to the first object                      *)

\* r.client.Get: the instance comes from the informer's cache.
Start ==
  /\ run.at = "idle"
  /\ run' = [Idle(cache.spec) EXCEPT !.at = "tokens", !.status = cache.status,
                                     !.fresh = synced]
  /\ lost' = (lost \/ ~synced)
  /\ UNCHANGED <<cr, cache, synced, objects, ext, asked, unstored, wait, failures,
                 edits, faults>>

\* The tokens' Secret cannot be read, and nobody knows whether it is there.
TokensSecretUnreadable ==
  /\ run.at = "tokens"
  /\ run' = Abort(run, "error")
  /\ Quiet /\ Fails /\ UNCHANGED <<objects, asked>>

\* The conditions of the tokens in ts change, no token is probed, the run fails.
TokenProblem(ts, reason) ==
  LET st == [run.status EXCEPT !.cond = [t \in Tokens |-> IF t \in ts THEN reason ELSE @[t]]]
  IN  /\ run' = [Abort(Update(run, st # run.status, 1), "error") EXCEPT !.status = st]
      /\ Quiet /\ Works /\ UNCHANGED <<objects, asked>>

Missing == {t \in Tokens : ext.tok[t] = "missing"}

\* The client needs the certificates and the proxy the spec refers to.
BuildDynatraceClient == ext.client

TokensSecretNotFound ==
  /\ run.at = "tokens"
  /\ ext.tok["PaaSToken"] = "absent"
  /\ TokenProblem(Tokens, "absent")

TokensMissing ==
  /\ run.at = "tokens"
  /\ ext.tok["PaaSToken"] # "absent"
  /\ Missing # {}
  /\ TokenProblem(Missing, "missing")

TokensClientFails ==
  /\ run.at = "tokens"
  /\ ext.tok["PaaSToken"] # "absent"
  /\ Missing = {}
  /\ ~BuildDynatraceClient
  /\ TokenProblem(Tokens, "Error")

DueMutant(st) == {t \in Tokens : ext.tok[t] # "spaces"}
\* Tokens with spaces around them are reported and not probed; the others are
\* probed if the last probe is five minutes old.  down: requests that fail.
Due(st) == {t \in Tokens : ext.tok[t] # "spaces" /\ st.probe[t] >= TokenWait}

ProbedMutant(st, down) ==
  [st EXCEPT !.probe = [t \in Tokens |-> IF t \in Due(st) THEN 0 ELSE @[t]],
             !.cond  = [t \in Tokens |-> IF t \in Due(st) THEN ext.tok[t] ELSE @[t]]]

Probed(st, down) ==
  [st EXCEPT !.probe = [t \in Tokens |-> IF t \in Due(st) THEN 0 ELSE @[t]],
             !.cond  = [t \in Tokens |->
                          IF t \in Due(st) /\ t \in down THEN "Error"
                          ELSE IF t \in Due(st) \/ ext.tok[t] = "spaces" THEN ext.tok[t]
                          ELSE @[t]]]

ProbeTokens(down) ==
  /\ run.at = "tokens"
  /\ ext.tok["PaaSToken"] # "absent" /\ Missing = {} /\ BuildDynatraceClient
  /\ down \subseteq Due(run.status)
  /\ IF down = {} THEN Works ELSE Fails
  /\ LET st == Probed(run.status, down)
     IN  run' = [Update(run, st # run.status, 1) EXCEPT !.status = st, !.at = "status"]
  /\ asked' = [t \in Tokens |-> IF t \in Due(run.status) THEN 0 ELSE asked[t]]
  /\ Quiet /\ UNCHANGED objects

\* The client trims the tokens, so spaces do no harm here.
Authorised == ext.tok["PaaSToken"] \in {"spaces", "ok"}

SetDynakubeStatusMutant ==
  /\ run.at = "status"
  /\ Authorised
  /\ run' = [run EXCEPT !.status.latest = IF @ = 0 THEN ext.latest ELSE @, !.at = "istio"]
  /\ Quiet /\ Works /\ UNCHANGED <<objects, asked>>

SetDynakubeStatus ==
  /\ run.at = "status"
  /\ Authorised
  /\ run' = [run EXCEPT !.status.latest = ext.latest, !.at = "istio"]
  /\ Quiet /\ Works /\ UNCHANGED <<objects, asked>>

SetDynakubeStatusFails(why) ==
  /\ run.at = "status"
  /\ IF Authorised THEN Fails ELSE Works /\ why = "error"
  /\ run' = Abort(run, why)
  /\ Quiet /\ UNCHANGED <<objects, asked>>

\* getTokenSecret: when the Secret is gone by now the run ends without an
\* error.  Istio may have updated objects of its own; its errors are ignored.
Istio(updated) ==
  /\ run.at = "istio"
  /\ IF updated
     THEN run.spec.istio /\ ext.tok["PaaSToken"] # "absent" /\ Fails
     ELSE Works
  /\ run' = IF ext.tok["PaaSToken"] = "absent"
            THEN [run EXCEPT !.at = "persist"]
            ELSE [Update(run, updated, 0) EXCEPT !.at = "pull"]
  /\ Quiet /\ UNCHANGED <<objects, asked>>

\* Any other error of that read ends the run without an error, too.
getTokenSecretFails ==
  /\ run.at = "istio"
  /\ run' = [run EXCEPT !.at = "persist"]
  /\ Quiet /\ Fails /\ UNCHANGED <<objects, asked>>

Pull == <<"pull", "secret">>

\* The PaaS token in the form of a registry login.
GenerateData == ext.tok["PaaSToken"]

\* The pull secret is read past the informer.
ReconcilePullSecret ==
  /\ run.at = "pull"
  /\ run.spec.ownPull \/ ext.tok["PaaSToken"] \notin {"absent", "missing"}
  /\ run' = [run EXCEPT !.at = "versions"]
  /\ IF run.spec.ownPull THEN UNCHANGED <<objs, view>>
     ELSE /\ objs' = [objs EXCEPT ![Pull] = GenerateData]
          /\ view' = [view EXCEPT ![Pull] = GenerateData]
  /\ Quiet /\ Works /\ UNCHANGED <<misled, asked>>

ReconcilePullSecretFails ==
  /\ run.at = "pull"
  /\ ~run.spec.ownPull
  /\ IF ext.tok["PaaSToken"] \in {"absent", "missing"} THEN Works ELSE Fails
  /\ run' = Abort(run, "error")
  /\ Quiet /\ UNCHANGED <<objects, asked>>
-----------------------------------------------------------------------------
(* updates.ReconcileVersions                                               *)

needsOneAgentUpdate ==
  /\ NeedsOneAgent(run.spec) /\ run.spec.autoUpdate
  /\ run.status.oa.age > ProbeWait

needsImmutableOneAgentUpdate ==
  needsOneAgentUpdate /\ NeedsImmutableOneAgent(run.spec)

needsActiveGateUpdateMutant ==
  /\ NeedsActiveGate(run.spec) /\ run.spec.agUpdates
  /\ run.status.ag.version = 0

needsActiveGateUpdate ==
  /\ NeedsActiveGate(run.spec) /\ run.spec.agUpdates
  /\ run.status.ag.age > ProbeWait

updateOneAgentInstallerVersion(st) ==
  IF needsOneAgentUpdate /\ ~needsImmutableOneAgentUpdate
  THEN [st EXCEPT !.oa = [version |-> Upgraded(@.version, st.latest), age |-> 0]]
  ELSE st

\* The version label of an image in the registry.
GetImageVersion(i) == ext.image[i]

\* When the registry does not answer, the look still counts as done.
updateImageVersion(target, i, allowDowngrades, down) ==
  [version |-> IF i \in down THEN target.version
               ELSE IF allowDowngrades THEN GetImageVersion(i)
               ELSE Upgraded(target.version, GetImageVersion(i)),
   age |-> 0]

\* The images that are looked up.
Outdated == {i \in Images : \/ i = "ag" /\ needsActiveGateUpdate
                            \/ i = "oa" /\ needsImmutableOneAgentUpdate}

\* down: the images for which the registry does not answer.
ReconcileVersions(down) ==
  LET st == updateOneAgentInstallerVersion(run.status)
      ag == IF "ag" \in Outdated THEN updateImageVersion(st.ag, "ag", TRUE, down) ELSE st.ag
      oa == IF "oa" \in Outdated THEN updateImageVersion(st.oa, "oa", FALSE, down) ELSE st.oa
  IN  /\ run.at = "versions"
      /\ Outdated # {} => (run.spec.ownPull => ext.pull)
      /\ down \subseteq Outdated
      /\ IF down = {} THEN Works ELSE Fails
      /\ run' = [Update(run, Outdated # {} \/ st # run.status, 1) EXCEPT
                    !.status = [st EXCEPT !.ag = ag, !.oa = oa], !.at = "cap"]
      /\ Quiet /\ UNCHANGED <<objects, asked>>

\* Without a pull secret there is no look at the registry; the informer may not
\* show the operator's own yet.  The error ends up as the result of the run, and
\* yet the run goes on.
ReconcileVersionsFails ==
  LET st == updateOneAgentInstallerVersion(run.status)
  IN  /\ run.at = "versions"
      /\ Outdated # {}
      /\ IF run.spec.ownPull /\ ~ext.pull THEN Works ELSE Fails
      /\ run' = [Update(run, st # run.status, 1) EXCEPT
                    !.status = st, !.failed = "error", !.at = "cap"]
      /\ Quiet /\ UNCHANGED <<objects, asked>>
-----------------------------------------------------------------------------
(* reconcileActiveGateCapabilities: a capability that is enabled gets its  *)
(* Service (part 1), its custom properties (2) and its StatefulSet (3); of *)
(* one that is not, the StatefulSet (1) and the Service (2) are deleted.   *)

CapStep(part) == run.at = "cap" /\ run.part = part
CapOn(part)   == CapStep(part) /\ enabled
CapOff(part)  == CapStep(part) /\ ~enabled

createService(c) == Write(<<"svc", unit>>, c, "service")

\* The Service is forgotten.
createServiceIfNotExistsMutant ==
  /\ CapOn(1)
  /\ run' = NextPart(run)
  /\ Quiet /\ Works /\ UNCHANGED <<objects, asked>>

createServiceIfNotExists ==
  LET o == <<"svc", unit>>
  IN  /\ CapOn(1)
      /\ \/ /\ unit \notin Exposed
            /\ run' = NextPart(run)
            /\ Works /\ UNCHANGED objects
         \/ /\ unit \in Exposed
            /\ \E c \in Shown(o) :
                 /\ Reads(o, c)
                 /\ \/ /\ c = Absent /\ ~Refused(o, c)
                       /\ createService(c)
                       /\ run' = Yield(run)
                       /\ misled' = misled \ {unit}
                    \/ /\ c # Absent
                       /\ Saw(o, c)
                       /\ run' = NextPart(run)
                       /\ misled' = misled \cup {d \in {unit} : objs[o] = Absent}
      /\ Quiet /\ UNCHANGED asked

\* An update carries the version of the Secret that was read, and an outdated
\* one is refused.
ReconcileCustomProperties ==
  LET o == <<"props", unit>>
      value == run.spec.props.value
  IN  /\ CapOn(2)
      /\ \/ /\ run.spec.props.kind # "value"
            /\ Works /\ UNCHANGED <<objs, view>>
         \/ /\ run.spec.props.kind = "value"
            /\ \E c \in Shown(o) :
                 /\ Reads(o, c)
                 /\ \/ c = value /\ Saw(o, c)
                    \/ c # value /\ c = objs[o] /\ Write(o, c, value)
      /\ run' = NextPart(run)
      /\ Quiet /\ UNCHANGED <<misled, asked>>

calculateCustomPropertyHash ==
  CASE run.spec.props.kind = "from"  -> ext.props
    [] run.spec.props.kind = "value" -> run.spec.props.value
    [] run.spec.props.kind = "none"  -> 0

\* What the pod template takes from the capability's properties in the spec.
buildTemplateSpec == run.spec.tmpl

\* The StatefulSet, with its hash and version as annotations of the template.
CreateStatefulSet(customPropertiesHash) ==
  [tmpl |-> buildTemplateSpec, labels |-> run.spec.labels,
   version |-> run.status.ag.version, props |-> customPropertiesHash]

buildDesiredStatefulSet == CreateStatefulSet(calculateCustomPropertyHash)

PropsUnreadable == run.spec.props.kind = "from" /\ ext.props = Absent

\* Any difference, and not just the labels, makes the StatefulSet be recreated.
manageStatefulSetMutant ==
  LET o == <<"sts", unit>>
      desired == buildDesiredStatefulSet
  IN  /\ CapOn(3)
      /\ ~PropsUnreadable
      /\ \E c \in Shown(o) :
           /\ Reads(o, c)
           /\ \/ c = desired /\ Saw(o, c) /\ run' = NextUnit(run)
              \/ /\ c # desired /\ ~Refused(o, c)
                 /\ Write(o, c, IF c = Absent THEN desired ELSE Absent)
                 /\ run' = Yield(run)
      /\ Quiet /\ UNCHANGED <<misled, asked>>

\* Created, deleted if its labels differ, or else updated if it differs.
manageStatefulSet ==
  LET o == <<"sts", unit>>
      desired == buildDesiredStatefulSet
  IN  /\ CapOn(3)
      /\ ~PropsUnreadable
      /\ \E c \in Shown(o) :
           /\ Reads(o, c)
           /\ \/ c = desired /\ Saw(o, c) /\ run' = NextUnit(run)
              \/ /\ c # desired /\ ~Refused(o, c)
                 /\ Write(o, c, IF c # Absent /\ c.labels # desired.labels
                                THEN Absent ELSE desired)
                 /\ run' = Yield(run)
      /\ Quiet /\ UNCHANGED <<misled, asked>>

DeleteStatefulSetMutant ==
  /\ CapOff(1)
  /\ run' = IF unit \in Exposed THEN NextPart(run) ELSE NextUnit(run)
  /\ Quiet /\ Works /\ UNCHANGED <<objects, asked>>

DeleteStatefulSet ==
  /\ CapOff(1)
  /\ ensureDeleted(<<"sts", unit>>)
  /\ misled' = misled \ {unit}
  /\ run' = IF unit \in Exposed THEN NextPart(run) ELSE NextUnit(run)
  /\ Quiet /\ Works /\ UNCHANGED asked

DeleteService ==
  /\ CapOff(2)
  /\ ensureDeleted(<<"svc", unit>>)
  /\ run' = NextUnit(run)
  /\ Quiet /\ Works /\ UNCHANGED <<misled, asked>>

\* Any request of a capability may fail or be refused, which ends the run.
CapabilityFails ==
  /\ run.at = "cap"
  /\ IF CapOn(3) /\ PropsUnreadable THEN Works ELSE Fails
  /\ run' = Abort(run, "error")
  /\ Quiet /\ UNCHANGED <<objects, asked>>
-----------------------------------------------------------------------------
(* ReconcileOneAgent.Reconcile for one feature, and the removal of the     *)
(* DaemonSet of a feature that is not enabled                              *)

\* Volumes, mounts and environment.
prepareTemplate == run.spec.tmpl

\* The image, its pull secret and the installer's environment differ by
\* useImmutableImage.
newPodSpecForCR == [tmpl |-> prepareTemplate, immutable |-> unit \in run.spec.immutable]

newDaemonSetForCR == [pod |-> newPodSpecForCR, version |-> run.status.oa.version]

\* Created, or updated when its hash differs from that of c, which the informer
\* shows; afterwards it shows v.
reconcileRollout(c, v) ==
  LET o == <<"ds", unit>>
  IN  /\ c # newDaemonSetForCR => ~Refused(o, c)
      /\ IF c = newDaemonSetForCR THEN UNCHANGED objs
         ELSE objs' = [objs EXCEPT ![o] = newDaemonSetForCR]
      /\ view' = [view EXCEPT ![o] = v]

\* read: what a second read of the DaemonSet gives; one that was created just
\* now may not be there yet.
determineOneAgentPhaseMutant(old, read) ==
  IF old = "Error" \/ read = "notfound" THEN old
  ELSE IF read = "error" THEN "Error"
  ELSE IF ext.ready THEN "Running" ELSE "Deploying"

determineOneAgentPhase(old, read) ==
  CASE read = "notfound" -> old
    [] read = "error"    -> "Error"
    [] read = "found"    -> IF ext.ready THEN "Running" ELSE "Deploying"

\* changed: the instances listed differ from those of the status; a list that
\* fails is taken for an empty one.
ReconcileOneAgent(changed, read) ==
  LET o == <<"ds", unit>>
      st == run.status
      hostsDue == st.hosts > ProbeWait
      rolled == st.tokens # run.spec.tokens
      upd == IF hostsDue THEN changed ELSE rolled
      new == [st EXCEPT !.immutable = unit \in run.spec.immutable,
                        !.tokens = run.spec.tokens,
                        !.hosts = IF hostsDue THEN 0 ELSE @,
                        !.phase = determineOneAgentPhase(@, read)]
      r == [Update(run, new.immutable # st.immutable \/ hostsDue, 1) EXCEPT
              !.status = new, !.failed = IF read = "error" THEN "error" ELSE @]
  IN  /\ run.at = "agent" /\ enabled
      /\ changed => hostsDue
      /\ \E c \in Shown(o) :
           \E v \in {c, objs[o], newDaemonSetForCR} :
             /\ IF c = objs[o] /\ read # "error" THEN Works ELSE Fails
             /\ reconcileRollout(c, v)
             /\ v \in {c, objs[o], objs'[o]}
             /\ (v = Absent) = (read = "notfound") \/ read = "error"
      /\ run' = IF upd THEN Yield(r) ELSE NextUnit(r)
      /\ Quiet /\ UNCHANGED <<misled, asked>>

\* The roll-out fails or is refused; the status keeps what was set before.
ReconcileOneAgentFails ==
  /\ run.at = "agent" /\ enabled
  /\ Fails
  /\ LET im == unit \in run.spec.immutable
     IN  run' = [Abort(Update(run, im # run.status.immutable, 1), "error") EXCEPT
                   !.status.immutable = im]
  /\ Quiet /\ UNCHANGED <<objects, asked>>

DeleteDaemonSet ==
  /\ run.at = "agent" /\ ~enabled
  /\ ensureDeleted(<<"ds", unit>>)
  /\ run' = NextUnit(run)
  /\ Quiet /\ Works /\ UNCHANGED <<misled, asked>>

DeleteDaemonSetFails ==
  /\ run.at = "agent" /\ ~enabled
  /\ Fails
  /\ run' = Abort(run, "error")
  /\ Quiet /\ UNCHANGED <<objects, asked>>
-----------------------------------------------------------------------------
(* The end of Reconcile: updateCR and the result                           *)

\* rec.Updated || SetPhaseOnError: the phase is only looked at, and set, in a
\* failed run that has nothing else to store.
Closing ==
  IF run.failed # "no" /\ ~run.updated
  THEN [run.status EXCEPT !.phase = "Error"]
  ELSE run.status

MustStoreMutant == run.updated
MustStore == run.updated \/ (run.failed # "no" /\ run.status.phase # "Error")

\* The result: an error is retried with a growing delay, a request that was
\* throttled after one minute, a success when the time to requeue has passed.
End(why) ==
  /\ run' = Idle(run.spec)
  /\ failures' = IF why = "error" THEN Older(failures, QuickRetries) ELSE 0
  /\ wait' = CASE why = "no"        -> run.next
               [] why = "throttled" -> 0
               [] why = "error"     -> IF failures' = QuickRetries THEN 1 ELSE 0
  /\ UNCHANGED <<cache, objects, ext, asked, edits>>

\* The status of the run is not stored.
LoseStatus ==
  /\ lost' = TRUE
  /\ unstored' = unstored \cup {v \in {run.status.oa.version} : v > cr.status.oa.version}

UpdateCR ==
  /\ run.at = "persist"
  /\ IF MustStore
     THEN /\ run.fresh
          /\ cr' = [cr EXCEPT !.status = Closing]
          /\ synced' = FALSE
          /\ unstored' = {v \in unstored : v > run.status.oa.version}
     ELSE UNCHANGED <<cr, synced, unstored>>
  /\ End(run.failed)
  /\ Works /\ UNCHANGED lost

\* A conflict is logged and otherwise taken for success.
UpdateCRConflict ==
  /\ run.at = "persist" /\ MustStore /\ ~run.fresh
  /\ LoseStatus
  /\ End(run.failed)
  /\ Works /\ UNCHANGED <<cr, synced>>

UpdateCRFails ==
  /\ run.at = "persist" /\ MustStore
  /\ LoseStatus
  /\ End("error")
  /\ Fails /\ UNCHANGED <<cr, synced>>

Crash ==
  /\ run.at # "idle"
  /\ run' = Idle(run.spec)
  /\ cache' = cr /\ synced' = TRUE /\ view' = objs
  /\ LoseStatus
  /\ wait' = 0 /\ failures' = 0
  /\ Fails /\ UNCHANGED <<cr, objs, misled, ext, asked, edits>>
-----------------------------------------------------------------------------
(* The surroundings                                                        *)

\* The informer catches up, and the event queues the DynaKube.  Its cache is
\* only read by Start, so that catching up in the middle of a run is the same
\* as doing so at its end.
Sync ==
  /\ ~synced /\ run.at = "idle"
  /\ cache' = cr /\ synced' = TRUE
  /\ wait' = 0
  /\ UNCHANGED <<cr, objects, ext, run, asked, losses, failures, edits, faults>>

EditSpec ==
  /\ edits < MaxEdits /\ edits' = edits + 1
  /\ \E s \in Specs \ {cr.spec} : cr' = [cr EXCEPT !.spec = s]
  /\ synced' = FALSE
  /\ run' = [run EXCEPT !.fresh = (run.at = "idle")]
  /\ UNCHANGED <<cache, objects, ext, asked, losses, wait, failures, faults>>

EditExternals ==
  /\ edits < MaxEdits /\ edits' = edits + 1
  /\ ext' \in Externals \ {ext}
  /\ UNCHANGED <<cr, cache, synced, objects, run, asked, losses, wait, failures, faults>>

\* Five minutes pass.  A run takes less, and so does the lag of the informers.
Tick ==
  /\ run.at = "idle" /\ synced
  /\ wait > 0 /\ wait' = wait - 1
  /\ cr' = [cr EXCEPT !.status = Aged(@)]
  /\ cache' = [cache EXCEPT !.status = Aged(@)]
  /\ asked' = [t \in Tokens |-> Older(asked[t], TokenWait)]
  /\ view' = objs
  /\ UNCHANGED <<synced, objs, misled, ext, run, losses, failures, edits, faults>>

Reconcile ==
  \/ Start
  \/ TokensSecretUnreadable
  \/ TokensSecretNotFound \/ TokensMissing \/ TokensClientFails
  \/ \E down \in SUBSET Tokens : ProbeTokens(down)
  \/ SetDynakubeStatus
  \/ \E why \in {"error", "throttled"} : SetDynakubeStatusFails(why)
  \/ \E updated \in BOOLEAN : Istio(updated)
  \/ getTokenSecretFails
  \/ ReconcilePullSecret \/ ReconcilePullSecretFails
  \/ \E down \in SUBSET Images : ReconcileVersions(down)
  \/ ReconcileVersionsFails
  \/ createServiceIfNotExists \/ ReconcileCustomProperties \/ manageStatefulSet
  \/ DeleteStatefulSet \/ DeleteService \/ CapabilityFails
  \/ \E changed \in BOOLEAN, read \in {"found", "notfound", "error"} :
       ReconcileOneAgent(changed, read)
  \/ ReconcileOneAgentFails
  \/ DeleteDaemonSet \/ DeleteDaemonSetFails
  \/ UpdateCR \/ UpdateCRConflict \/ UpdateCRFails

Next == Reconcile \/ Crash \/ Sync \/ EditSpec \/ EditExternals \/ Tick

Spec == Init /\ [][Next]_vars

\* Every result of Reconcile, and every start of the operator, queues another
\* Reconcile.  The informer catches up and time passes also while runs go on;
\* the model lets them do so between two runs, hence strong fairness.
FairSpec == Spec /\ WF_vars(Reconcile) /\ SF_vars(Sync) /\ SF_vars(Tick)
-----------------------------------------------------------------------------
(* Properties                                                              *)

\* What an object may be under a spec; {} where the spec leaves it alone.
Allowed(s, o) ==
  CASE o[1] = "sts" ->
         IF o[2] \in s.enabled
         THEN [tmpl : {s.tmpl}, labels : {s.labels}, version : Versions,
               props : IF s.props.kind = "from" THEN PropsValues \ {Absent}
                       ELSE IF s.props.kind = "value" THEN {s.props.value} ELSE {0}]
         ELSE {Absent}
    [] o[1] = "ds" ->
         IF o[2] \in s.enabled
         THEN [pod : {[tmpl |-> s.tmpl, immutable |-> o[2] \in s.immutable]}, version : Versions]
         ELSE {Absent}
    [] o[1] = "svc" -> IF o[2] \in s.enabled THEN {"service"} ELSE {Absent}
    [] o[1] = "props" ->
         IF o[2] \in s.enabled /\ s.props.kind = "value" THEN {s.props.value} ELSE {}
    [] o[1] = "pull" -> IF s.ownPull THEN {} ELSE TokenStates

Controller ==
  INSTANCE LevelTriggered
  WITH want <- cr.spec, mirror <- cache.spec, seen <- run.spec, have <- objs,
       shown <- view

\* The DynaKube controller is a level-triggered controller: through failing
\* requests, early returns, crashes and lagging informers, each object it owns
\* only becomes what the copy of the spec it read allows, and nothing that is,
\* and is seen to be, right already is deleted.
RefinesLevelTriggered == Controller!Spec

\* The ActiveGate pods resolve their own DNS entry point from the Service when
\* they start: no StatefulSet of a capability with a Service is there without
\* it, although creation and removal are two requests with a crash in between.
\* The one way around it is a capability that was disabled and enabled again
\* within the lag of the informer, which still showed the deleted Service; the
\* exception ends with the creation of the Service.
ServiceBeforeStatefulSet ==
  \A c \in Exposed :
    objs[<<"sts", c>>] # Absent /\ objs[<<"svc", c>>] = Absent => c \in misled

\* As long as every computed status was stored and read back, Dynatrace is
\* asked about a token at most once in TokenWait ticks.
Asks(t) == run.at = "tokens" /\ run'.at = "status" /\ t \in Due(run.status)
ProbesAreSpaced ==
  [][\A t \in Tokens : Asks(t) => (asked[t] >= TokenWait \/ lost)]_vars

\* The same without the proviso, as the comment in the source has it.
ProbesAreAlwaysSpaced ==
  [][\A t \in Tokens : Asks(t) => asked[t] >= TokenWait]_vars

\* A DaemonSet is never rolled back from a version, though Dynatrace may offer an
\* older one, unless the status that recorded the version was never stored, or
\* the run read a status from before it was.
NoDowngrade ==
  [][\A f \in Features :
       LET o == <<"ds", f>>
       IN  objs[o] # Absent /\ objs'[o] # Absent /\ objs'[o].version < objs[o].version
             => \/ objs[o].version \in unstored
                \/ ~run.fresh /\ run.status.oa.version < cr.status.oa.version]_vars

Reachable ==
  /\ Authorised /\ Missing = {} /\ ext.client
  /\ cr.spec.props.kind = "from" => ext.props # Absent
Healthy == Reachable /\ (cr.spec.ownPull => ext.pull)

\* Once Dynatrace can be reached for good, every object becomes, and stays,
\* what the spec asks for: early returns only postpone the later objects.
Converges ==
  <>[]Reachable =>
    <>[](\A o \in Objects : Allowed(cr.spec, o) = {} \/ objs[o] \in Allowed(cr.spec, o))

\* Of the installer's version and that of the immutable image, the one that is
\* followed.
OneAgentOffer == IF NeedsImmutableOneAgent(cr.spec) THEN ext.image["oa"] ELSE ext.latest

\* Agents follow the version on offer; OneAgents never go back to an older one.
AgentsFollowRelease ==
  <>[]Healthy =>
    <>[](/\ NeedsActiveGate(cr.spec) /\ cr.spec.agUpdates =>
              \A c \in Caps \cap cr.spec.enabled : /\ objs[<<"sts", c>>] # Absent
                                                   /\ objs[<<"sts", c>>].version = ext.image["ag"]
         /\ cr.spec.autoUpdate =>
              \A f \in Features \cap cr.spec.enabled : /\ objs[<<"ds", f>>] # Absent
                                                       /\ objs[<<"ds", f>>].version >= OneAgentOffer)

\* The CSI provisioner installs the version it finds in the status, which is
\* only stored along with something else: it gets there all the same, if a
\* token is probed from time to time.
LatestIsPublished ==
  <>[](Healthy /\ \E t \in Tokens : ext.tok[t] # "spaces") =>
    <>[](cr.status.latest = ext.latest)

\* Every condition ends up describing the token it is about.
ConditionsFollowTokens ==
  \A t \in Tokens, v \in TokenStates :
    <>[](ext.tok[t] = v /\ (v = "absent" \/ (Missing \subseteq {t} /\ ext.client))) =>
      <>[](cr.status.cond[t] = v)

\* With a OneAgent enabled the phase ends up telling whether its pods are
\* ready, although the change of the phase alone never makes a run store it.
PhaseFollowsPods ==
  <>[](Healthy /\ NeedsOneAgent(cr.spec)) =>
    <>[](cr.status.phase = IF ext.ready THEN "Running" ELSE "Deploying")

\* A lasting error ends up in the phase, although a failed run that has
\* something else to store does not set it.
ErrorIsReported ==
  <>[](~Reachable) => <>[](cr.status.phase = "Error")

\* The phase describes the current state: it does not stay Error for ever
\* when every Reconcile succeeds.
ErrorClears ==
  <>[]Healthy => <>[](cr.status.phase # "Error")
-----------------------------------------------------------------------------
(* The inductive invariant                                                 *)

\* Where a run is, and in which order it got there.
UnitInv ==
  /\ run.at \in {"tokens", "status", "istio", "pull", "versions"} =>
       run.unit = 1 /\ run.part = 1
  /\ run.at = "cap" => run.unit \in 1..3
  /\ run.at = "agent" => run.unit \in 4..5

\* A run deals with the Service before it creates the StatefulSet, and after
\* it deleted it.
ServiceInv ==
  run.at = "cap" /\ run.part # 1 =>
    IF enabled THEN unit \in Exposed => objs[<<"svc", unit>>] # Absent \/ unit \in misled
    ELSE unit \in Exposed /\ objs[<<"sts", unit>>] = Absent

\* The status that counts: that of the run, or the stored one between runs.
Current == IF run.at = "idle" THEN cr.status ELSE run.status

\* Unless a status was lost, the current one knows every probe of a token; a run
\* that is not going to store its status did not change these.
StatusInv ==
  ~lost =>
    /\ \A t \in Tokens : Current.probe[t] <= asked[t]
    /\ run.at # "idle" /\ ~run.updated =>
         \A t \in Tokens : cr.status.probe[t] = run.status.probe[t]

\* The version of every DaemonSet is stored, or is that of the run, or was not
\* stored in the end.  Versions only grow, and a run that has a newer one than
\* it read is going to store it.
VersionInv ==
  LET stored == cr.status.oa.version
      ours == run.status.oa.version
  IN  /\ cache.status.oa.version <= stored
      /\ run.at # "idle" /\ run.fresh => stored <= ours
      /\ run.at \in {"tokens", "status", "istio", "pull", "versions"} => ours <= stored
      /\ run.at # "idle" /\ ~run.updated => ours <= stored
      /\ \A f \in Features :
           objs[<<"ds", f>>] # Absent =>
             \/ objs[<<"ds", f>>].version \in unstored
             \/ objs[<<"ds", f>>].version <= stored
             \/ run.at # "idle" /\ objs[<<"ds", f>>].version = ours

\* Holds initially and is kept by every step.
IInv ==
  /\ TypeOK /\ UnitInv
  /\ synced => cache = cr
  /\ ServiceBeforeStatefulSet /\ ServiceInv /\ StatusInv /\ VersionInv
=============================================================================
