----------------------------- MODULE Injection -----------------------------
(***************************************************************************)
(* Injection of code modules into the pods of one namespace.  The operator *)
(* keeps a Secret with the init script in the namespace; the webhook,      *)
(* another process with an informer cache of its own, adds an init         *)
(* container that runs this script to every new pod; other webhooks add    *)
(* containers after it, on which the API server calls it again; and the    *)
(* kubelet starts the pod when everything the pod refers to is there.      *)
(*                                                                         *)
(* No OneAgentAPM is installed: with one, neither part does anything.      *)
(***************************************************************************)
EXTENDS Naturals, Sequences, FiniteSets

CONSTANTS
  Names,        \* names of containers
  PodSpecs,     \* [names, inject, policy]: what users create
  Sidecars,     \* names of containers other webhooks add
  Namespaces,   \* [label, inject]: label and annotation of the namespace
  DynaKubes,    \* [enabled, reinvoke, proxy, rev], or Absent
  TokenValues,  \* PaaS tokens, or Absent for a missing Secret
  Absent,
  MaxEdits,     \* bound: edits of what users own, deletions of the pod
  MaxFaults     \* bound: failing requests and downloads, crashes

Answers == {"unset", "true", "false"}

ASSUME InjectionAssumption ==
  /\ Sidecars \subseteq Names
  /\ \A p \in PodSpecs : /\ p.names \in Seq(Names) /\ p.names # <<>>
                         /\ p.inject \in Answers /\ p.policy \in {"silent", "fail"}
  /\ \A n \in Namespaces : n.label \in BOOLEAN /\ n.inject \in Answers
  /\ \A d \in DynaKubes \ {Absent} :
       /\ d.enabled \in BOOLEAN /\ d.reinvoke \in BOOLEAN
       /\ d.proxy \in {"none", "set", "empty", "missing"}
  /\ Absent \notin Names
  /\ MaxEdits \in Nat /\ MaxFaults \in Nat

Settings  == [ns : Namespaces, dk : DynaKubes, tokens : TokenValues]
Processes == {"operator", "webhook"}
Script    == [rev : {d.rev : d \in DynaKubes \ {Absent}},
              token : TokenValues \ {Absent}, proxy : BOOLEAN]

VARIABLES
  now,      \* the namespace, its DynaKube and the tokens, as stored
  view,     \* process -> the same as its informers show it
  secret,   \* the config Secret of the namespace
  queued,   \* whether the operator's queue will hand out the namespace
  work,     \* data the running Reconcile is about to write, or Absent
  pod,      \* the pod, from its admission until it runs
  edits, faults

vars == <<now, view, secret, queued, work, pod, edits, faults>>

NoPod ==
  [at |-> "none", inject |-> "unset", policy |-> "silent", containers |-> <<>>,
   injected |-> FALSE, installers |-> 0, count |-> 0,
   entries |-> [i \in {} |-> Absent], calls |-> 0, altered |-> FALSE,
   reinvoked |-> FALSE, failed |-> FALSE, conf |-> {}]

Container == [name : Names, preload : 0..2, proxy : BOOLEAN]

\* The variables CONTAINER_<i>_NAME of the install container are a function
\* with whatever positions were added to them.
PodsWith(entries) ==
  [at : {"none", "admission", "created", "configured", "running"},
   inject : Answers, policy : {"silent", "fail"}, containers : Seq(Container),
   injected : BOOLEAN, installers : Nat, count : Nat, entries : {entries},
   calls : 0..2, altered : BOOLEAN, reinvoked : BOOLEAN, failed : BOOLEAN,
   conf : SUBSET Names]

TypeOK ==
  /\ now \in Settings /\ view \in [Processes -> Settings]
  /\ secret \in Script \cup {Absent} /\ work \in Script \cup {Absent}
  /\ queued \in BOOLEAN
  /\ pod \in PodsWith(pod.entries)
  /\ 1..pod.count \subseteq DOMAIN pod.entries /\ \A i \in DOMAIN pod.entries : pod.entries[i] \in Names
  /\ edits \in 0..MaxEdits /\ faults \in 0..MaxFaults

Init ==
  /\ now \in Settings
  /\ view = [p \in Processes |-> now]
  /\ secret = Absent /\ work = Absent
  /\ queued = TRUE
  /\ pod = NoPod
  /\ edits = 0 /\ faults = 0

Works == faults' = faults
Fails == faults < MaxFaults /\ faults' = faults + 1
-----------------------------------------------------------------------------
(* The namespace controller                                                *)

seen == view["operator"]

NamespaceStep == queued /\ work = Absent /\ UNCHANGED <<now, view, secret, pod, edits>>

\* A namespace without the label is forgotten until it changes.
NamespaceNotAssigned ==
  /\ ~seen.ns.label
  /\ queued' = FALSE
  /\ Works /\ NamespaceStep /\ UNCHANGED work

\* Code modules are disabled: a Secret of the tokens' name is deleted, the
\* config Secret stays, and the namespace comes back in five minutes.
ensureSecretDeleted ==
  /\ seen.ns.label /\ seen.dk # Absent /\ ~seen.dk.enabled
  /\ Works /\ NamespaceStep /\ UNCHANGED <<queued, work>>

Readable(v) ==
  /\ v.ns.label /\ v.dk # Absent
  /\ v.dk.enabled /\ v.tokens # Absent /\ v.dk.proxy # "missing"

newScriptMutant(v) ==
  [rev |-> v.dk.rev, token |-> v.tokens, proxy |-> FALSE]

\* A proxy whose Secret has no value is left out of the data.
newScript(v) ==
  [rev |-> v.dk.rev, token |-> v.tokens, proxy |-> v.dk.proxy = "set"]

ReconcileNamespace ==
  /\ Readable(seen)
  /\ work' = newScript(seen)
  /\ Works /\ NamespaceStep /\ UNCHANGED queued

\* One of the objects cannot be read; the error queues the namespace again.
ReconcileNamespaceFails ==
  /\ seen.ns.label
  /\ IF seen.dk # Absent /\ (~seen.dk.enabled \/ Readable(seen)) THEN Fails ELSE Works
  /\ NamespaceStep /\ UNCHANGED <<queued, work>>

\* The namespace is not handed out again after a success.
CreateOrUpdateSecretIfNotExistsMutant ==
  /\ work # Absent
  /\ secret' = work /\ work' = Absent /\ queued' = FALSE
  /\ Works /\ UNCHANGED <<now, view, pod, edits>>

\* The Secret is read from the API server itself and created or updated.
CreateOrUpdateSecretIfNotExists ==
  /\ work # Absent
  /\ secret' = work /\ work' = Absent
  /\ Works /\ UNCHANGED <<now, view, queued, pod, edits>>

CreateOrUpdateSecretFails ==
  /\ work # Absent
  /\ work' = Absent
  /\ Fails /\ UNCHANGED <<now, view, secret, queued, pod, edits>>

\* The operator starts again, lists all namespaces and queues them.
OperatorRestarts ==
  /\ work' = Absent /\ queued' = TRUE
  /\ view' = [view EXCEPT !["operator"] = now]
  /\ Fails /\ UNCHANGED <<now, secret, pod, edits>>
-----------------------------------------------------------------------------
(* The webhook: podInjector.Handle                                         *)

shown == view["webhook"]

injectField ==
  IF pod.inject # "unset" THEN pod.inject
  ELSE IF shown.ns.inject # "unset" THEN shown.ns.inject ELSE "true"

\* updateContainer: mounts, LD_PRELOAD and, with a proxy, a reference to the
\* key of the config Secret that holds it.
updateContainer(c) ==
  [c EXCEPT !.preload = @ + 1, !.proxy = shown.dk.proxy # "none"]

Unpatched == pod

InjectedMutant ==
  LET cs == pod.containers
  IN  [pod EXCEPT !.injected = TRUE, !.installers = @ + 1, !.count = Len(cs) + 1,
                  !.entries = [i \in DOMAIN cs |-> cs[i].name],
                  !.containers = [i \in DOMAIN cs |-> updateContainer(cs[i])]]

Injected ==
  LET cs == pod.containers
  IN  [pod EXCEPT !.injected = TRUE, !.installers = @ + 1, !.count = Len(cs),
                  !.entries = [i \in DOMAIN cs |-> cs[i].name],
                  !.containers = [i \in DOMAIN cs |-> updateContainer(cs[i])]]

\* Every container is taken for a new one.
ReinstrumentedMutant ==
  LET cs == pod.containers
  IN  [pod EXCEPT !.reinvoked = TRUE,
                  !.entries = [j \in DOMAIN @ \cup DOMAIN cs |-> cs[j].name],
                  !.containers = [i \in DOMAIN cs |-> updateContainer(cs[i])]]

\* The reinvocation: containers without LD_PRELOAD are instrumented and added
\* to the install container under their position (of two variables with the
\* same name the one appended later counts); CONTAINERS_COUNT stays.
Reinstrumented ==
  LET cs == pod.containers
      missing == {i \in DOMAIN cs : cs[i].preload = 0}
  IN  [pod EXCEPT !.reinvoked = (missing # {}),
                  !.entries = [j \in DOMAIN @ \cup missing |->
                                 IF j \in missing THEN cs[j].name ELSE @[j]],
                  !.containers = [i \in DOMAIN cs |->
                                    IF i \in missing THEN updateContainer(cs[i]) ELSE cs[i]]]

Patched ==
  IF injectField = "false" \/ ~shown.dk.enabled THEN Unpatched
  ELSE IF ~pod.injected THEN Injected
  ELSE IF shown.dk.reinvoke THEN Reinstrumented
  ELSE Unpatched

\* The API server calls the webhook for pods of namespaces with the label.  It
\* calls it once more if another webhook changed the pod after that and the
\* reinvocation policy is IfNeeded, as in the manifest that is shipped; the
\* configuration the operator writes has no policy, which means never.
Called ==
  /\ pod.at = "admission" /\ now.ns.label
  /\ pod.calls = 0 \/ (pod.calls = 1 /\ pod.altered)

Handle ==
  /\ Called
  /\ injectField = "false" \/ (shown.ns.label /\ shown.dk # Absent)
  /\ pod' = [Patched EXCEPT !.calls = @ + 1, !.altered = FALSE]
  /\ Works /\ UNCHANGED <<now, view, secret, queued, work, edits>>

\* An error, or no answer, refuses the pod.
HandleErrored ==
  /\ Called
  /\ IF injectField # "false" /\ ~(shown.ns.label /\ shown.dk # Absent) THEN Works ELSE Fails
  /\ pod' = NoPod
  /\ UNCHANGED <<now, view, secret, queued, work, edits>>
-----------------------------------------------------------------------------
(* The surroundings: users, other webhooks, API server, kubelet            *)

CreatePod ==
  /\ pod.at = "none"
  /\ \E p \in PodSpecs :
       pod' = [NoPod EXCEPT !.at = "admission", !.inject = p.inject, !.policy = p.policy,
                 !.containers = [i \in DOMAIN p.names |->
                                   [name |-> p.names[i], preload |-> 0, proxy |-> FALSE]]]
  /\ UNCHANGED <<now, view, secret, queued, work, edits, faults>>

\* Another webhook adds a container, in front or at the end.
AddSidecar ==
  /\ pod.at = "admission" /\ pod.calls = 1 /\ ~pod.altered
  /\ \E n \in Sidecars, front \in BOOLEAN :
       LET c == <<[name |-> n, preload |-> 0, proxy |-> FALSE]>>
       IN  /\ \A i \in DOMAIN pod.containers : pod.containers[i].name # n
           /\ pod' = [pod EXCEPT !.altered = TRUE,
                                 !.containers = IF front THEN c \o @ ELSE @ \o c]
  /\ UNCHANGED <<now, view, secret, queued, work, edits, faults>>

\* Without the reinvocation a pod that was altered is admitted as it is.
Admit ==
  /\ pod.at = "admission"
  /\ ~now.ns.label \/ pod.calls > 0
  /\ pod' = [pod EXCEPT !.at = "created"]
  /\ UNCHANGED <<now, view, secret, queued, work, edits, faults>>

\* init.sh: the agent is downloaded unless it is provisioned, then one file is
\* written for each of CONTAINERS_COUNT containers.  The volume with the
\* script can only be mounted when the config Secret exists.
RunInitScript ==
  /\ pod.at = "created" /\ (pod.injected => secret # Absent)
  /\ pod' = [pod EXCEPT !.at = "configured",
                        !.conf = {pod.entries[i] : i \in 1..pod.count}]
  /\ UNCHANGED <<now, view, secret, queued, work, edits, faults>>

InitScriptFailsMutant ==
  /\ pod.at = "created" /\ pod.injected /\ secret # Absent
  /\ pod' = [pod EXCEPT !.failed = TRUE, !.at = "configured"]
  /\ Fails /\ UNCHANGED <<now, view, secret, queued, work, edits>>

\* With failure policy fail, the init container exits with an error and is
\* started again; otherwise the pod starts without its files.
InitScriptFails ==
  /\ pod.at = "created" /\ pod.injected /\ secret # Absent
  /\ pod' = [pod EXCEPT !.failed = TRUE,
                        !.at = IF pod.policy = "fail" THEN @ ELSE "configured"]
  /\ Fails /\ UNCHANGED <<now, view, secret, queued, work, edits>>

StartContainers ==
  /\ pod.at = "configured"
  /\ \A i \in DOMAIN pod.containers :
       pod.containers[i].proxy => secret # Absent /\ secret.proxy
  /\ pod' = [pod EXCEPT !.at = "running"]
  /\ UNCHANGED <<now, view, secret, queued, work, edits, faults>>

\* The informers of a process catch up; a change of the namespace queues it.
Sync(p) ==
  /\ view[p] # now
  /\ view' = [view EXCEPT ![p] = now]
  /\ queued' = (queued \/ (p = "operator" /\ view[p].ns # now.ns))
  /\ UNCHANGED <<now, secret, work, pod, edits, faults>>

Edit ==
  /\ edits < MaxEdits /\ edits' = edits + 1
  /\ \/ \E n \in Namespaces \ {now.ns}     : now' = [now EXCEPT !.ns = n]
     \/ \E d \in DynaKubes \ {now.dk}      : now' = [now EXCEPT !.dk = d]
     \/ \E t \in TokenValues \ {now.tokens} : now' = [now EXCEPT !.tokens = t]
  /\ UNCHANGED <<view, secret, queued, work, pod, faults>>

DeletePod ==
  /\ edits < MaxEdits /\ edits' = edits + 1
  /\ pod.at \in {"created", "configured", "running"}
  /\ pod' = NoPod
  /\ UNCHANGED <<now, view, secret, queued, work, faults>>

Namespace ==
  \/ NamespaceNotAssigned \/ ensureSecretDeleted
  \/ ReconcileNamespace \/ ReconcileNamespaceFails
  \/ CreateOrUpdateSecretIfNotExists \/ CreateOrUpdateSecretFails

Webhook == Handle \/ HandleErrored

Kubelet == RunInitScript \/ InitScriptFails \/ StartContainers

Next ==
  \/ Namespace \/ OperatorRestarts \/ Webhook
  \/ CreatePod \/ AddSidecar \/ Admit \/ Kubelet
  \/ \E p \in Processes : Sync(p)
  \/ Edit \/ DeletePod

Spec == Init /\ [][Next]_vars

\* Every result of the controller but one queues the namespace again, each
\* admission is answered, a workload's controller creates its pod again, the
\* kubelet retries and informers catch up.
FairSpec ==
  /\ Spec
  /\ WF_vars(Namespace) /\ WF_vars(Webhook) /\ WF_vars(CreatePod)
  /\ WF_vars(Admit) /\ WF_vars(Kubelet)
  /\ \A p \in Processes : WF_vars(Sync(p))
-----------------------------------------------------------------------------
(* Properties                                                              *)

\* A container that preloads the agent finds its configuration file, whatever
\* the order of webhooks and restarts of the init container, if the download
\* worked or was not allowed to fail, and no container came later.
InstrumentedIsConfigured ==
  pod.at = "running" /\ ~pod.reinvoked /\ (pod.policy = "fail" \/ ~pod.failed) =>
    \A i \in DOMAIN pod.containers :
      pod.containers[i].preload > 0 => pod.containers[i].name \in pod.conf

\* The same for containers that are instrumented by the reinvocation, which
\* adds them "to list of Containers of Install Container".
ReinvokedIsConfigured ==
  pod.at = "running" /\ ~pod.failed =>
    \A i \in DOMAIN pod.containers :
      pod.containers[i].preload > 0 => pod.containers[i].name \in pod.conf

\* The webhook is idempotent: called again, with the settings changed between
\* two calls, it adds nothing twice; the API server would refuse the pod for
\* mounting the same path twice.
InjectedOnce ==
  /\ pod.installers <= 1
  /\ \A i \in DOMAIN pod.containers : pod.containers[i].preload <= 1
  /\ (pod.installers = 1) <=> pod.injected
  /\ (\E i \in DOMAIN pod.containers : pod.containers[i].preload > 0) => pod.injected

\* The config Secret ends up with what the DynaKube and the tokens say,
\* although only the namespace is watched.
SecretFollows ==
  <>[]Readable(now) => <>[](Readable(now) /\ secret = newScript(now))

Startable ==
  /\ Readable(now)
  /\ \A i \in DOMAIN pod.containers : pod.containers[i].proxy => now.dk.proxy = "set"

\* An injected pod waits for the config Secret, and each container for the key
\* with the proxy: if neither is withdrawn for good, pods do start.
PodsStart == <>[]Startable => []<>(pod.at = "running")
-----------------------------------------------------------------------------
(* The inductive invariant                                                 *)

\* The containers for which the init script writes a file.
Listed == {pod.entries[i] : i \in 1..pod.count}

\* Only an injected pod is instrumented, once; the reinvocation is the second
\* call; without it all instrumented containers are listed; and what is listed
\* has its file when the init script went through.
PodInv ==
  /\ pod.installers = IF pod.injected THEN 1 ELSE 0
  /\ \A i \in DOMAIN pod.containers :
       pod.containers[i].preload <= IF pod.injected THEN 1 ELSE 0
  /\ pod.injected => pod.calls > 0
  /\ pod.reinvoked => pod.calls = 2
  /\ ~pod.reinvoked => \A i \in DOMAIN pod.containers :
       pod.containers[i].preload > 0 => pod.containers[i].name \in Listed
  /\ pod.at \in {"configured", "running"} /\ (pod.policy = "fail" \/ ~pod.failed)
       => pod.conf = Listed

IInv == TypeOK /\ PodInv
=============================================================================
