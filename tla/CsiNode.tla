------------------------------- MODULE CsiNode -------------------------------
(***************************************************************************)
(* The CSI driver of one node: the gRPC server that publishes OneAgent     *)
(* binaries to pods, the provisioner that installs agent versions and the  *)
(* garbage collector that removes them.  The three run concurrently in one *)
(* process and share the data directory without any lock, so every call    *)
(* that touches the file system or the mount table is a step of its own:   *)
(*                                                                         *)
(*   bin/<version>        the unpacked agent            bin                *)
(*   gc/<version>/        directory of references       refDir             *)
(*   gc/<version>/<vol>   usage file of a volume        ref                *)
(*   version              version to publish            versionFile        *)
(*   /data/gc/<vol>       metadata of a volume          meta               *)
(*   run/<vol>/mapped     overlay mounts over bin       overlay            *)
(*   the target path      bind mount of the overlay     target             *)
(*                                                                         *)
(* One DynaKube and one tenant; kubelet has one call per volume in flight  *)
(* and repeats a call that failed.  Version 0 stands for "none".           *)
(***************************************************************************)
EXTENDS Integers, Sequences, FiniteSets

CONSTANTS
    Volumes,      \* the CSI volumes of the pods of this node
    Versions,     \* agent versions, in order of release
    Rollback,     \* may the tenant's latest version go back?
    MaxReleases,  \* bound: changes of the tenant's latest version
    MaxCrashes,   \* bound: restarts of the driver process
    MaxFaults     \* bound: file system and mount calls that fail

ASSUME ConstantsAssumption ==
    /\ IsFiniteSet(Volumes)
    /\ Versions \subseteq Nat \ {0}
    /\ Versions # {}
    /\ Rollback \in BOOLEAN
    /\ MaxReleases \in Nat /\ MaxCrashes \in Nat /\ MaxFaults \in Nat

VARIABLES
    bin, refDir, ref, versionFile, meta, overlay, target,
    metric,     \* gauge agent_versions, in the memory of the process
    pod,        \* what kubelet wants of a volume
    op,         \* the gRPC call in flight for a volume
    gc,         \* the garbage collector's Reconcile
    prov,       \* the provisioner's Reconcile
    apiLatest,  \* the tenant's latest agent version
    dkVersion,  \* the DynaKube status' LatestAgentVersionUnixPaas
    raced,      \* history: volumes whose publish call overlapped a removal
                \* or an installation of the very version it publishes
    torn,       \* history: versions whose installation overlapped their
                \* removal
    cut,        \* history: versions whose unpacking or removal was cut short,
                \* by a crash or a RemoveAll that failed, until they are
                \* removed for good
    releases, crashes, faults

disk == <<bin, refDir, ref, versionFile, meta>>
mounts == <<overlay, target>>
world == <<apiLatest, dkVersion, releases>>
history == <<raced, torn>>
restarts == <<crashes, cut>>
vars == <<disk, mounts, metric, pod, op, gc, prov, world, history, restarts,
          faults>>

None == 0
IdleOp == [pc |-> "idle", ver |-> None]
IdleGC == [pc |-> "idle", latest |-> None, todo |-> {}, ver |-> None]
IdleProv == [pc |-> "idle", ver |-> None]

Init ==
    /\ bin = [v \in Versions |-> "absent"]
    /\ refDir = {}
    /\ ref = [v \in Versions |-> {}]
    /\ versionFile = None
    /\ meta = [vol \in Volumes |-> None]
    /\ overlay = [vol \in Volumes |-> <<>>]
    /\ target = [vol \in Volumes |-> None]
    /\ metric = [v \in Versions |-> 0]
    /\ pod = [vol \in Volumes |-> "wanted"]
    /\ op = [vol \in Volumes |-> IdleOp]
    /\ gc = IdleGC
    /\ prov = IdleProv
    /\ apiLatest \in {v \in Versions : \A w \in Versions : v <= w}
    /\ dkVersion = None
    /\ raced = {} /\ torn = {} /\ cut = {}
    /\ releases = 0 /\ crashes = 0 /\ faults = 0

\* A call to the file system or to the mounter fails.
Fault == faults < MaxFaults /\ faults' = faults + 1
NoFault == UNCHANGED faults

\* A call that is bound to fail under a condition, and may fail without it.
FailsIf(condition) == (condition /\ NoFault) \/ Fault

\* The gRPC call of vol goes on with step pc, or ends.
Goto(vol, pc) == op' = [op EXCEPT ![vol].pc = pc]
Return(vol) == op' = [op EXCEPT ![vol] = IdleOp]

DropLast(s) == IF s = <<>> THEN s ELSE SubSeq(s, 1, Len(s) - 1)

Publishing(vol) ==
    op[vol].pc \in {"mkdir", "overlay", "bind", "usage", "metadata"}

InFlight(v) == {vol \in Volumes : Publishing(vol) /\ op[vol].ver = v}

Installing(v) == prov.pc # "idle" /\ prov.ver = v

Removing(v) == gc.pc \in {"rmBin", "rmRest", "rmRefs"} /\ gc.ver = v

\* Some files of the version are there and some are not.
Halfway(v) ==
    \/ prov.pc = "unzip" /\ prov.ver = v
    \/ gc.pc = "rmRest" /\ gc.ver = v

-----------------------------------------------------------------------------
(* NodePublishVolume.  A call that fails leaves what it did so far behind  *)
(* and is repeated by kubelet.                                             *)

\* The target is mounted already: nothing more is done.
PublishMounted(vol) ==
    /\ pod[vol] = "wanted" /\ op[vol].pc = "idle"
    /\ target[vol] # None
    /\ pod' = [pod EXCEPT ![vol] = "published"]
    /\ NoFault
    /\ UNCHANGED <<disk, mounts, metric, op, gc, prov, world, history, restarts>>

\* Mutant of PublishReadVersion: an absent version file goes unnoticed.
PublishReadVersionMutant(vol) ==
    /\ pod[vol] = "wanted" /\ op[vol].pc = "idle"
    /\ target[vol] = None
    /\ op' = [op EXCEPT ![vol] = [pc |-> "mkdir", ver |-> versionFile]]
    /\ raced' = IF Removing(versionFile) THEN raced \cup {vol} ELSE raced
    /\ NoFault
    /\ UNCHANGED <<disk, mounts, metric, pod, gc, prov, world, torn, restarts>>

\* newBindConfig reads the version file (the tenant file is older than it) ...
PublishReadVersion(vol) ==
    /\ pod[vol] = "wanted" /\ op[vol].pc = "idle"
    /\ target[vol] = None
    /\ versionFile # None
    /\ op' = [op EXCEPT ![vol] = [pc |-> "mkdir", ver |-> versionFile]]
    /\ raced' = IF Removing(versionFile) THEN raced \cup {vol} ELSE raced
    /\ NoFault
    /\ UNCHANGED <<disk, mounts, metric, pod, gc, prov, world, torn, restarts>>

\* ... and creates the directory of references.
PublishMkRefDir(vol) ==
    /\ op[vol].pc = "mkdir"
    /\ \/ NoFault /\ refDir' = refDir \cup {op[vol].ver} /\ Goto(vol, "overlay")
       \/ Fault /\ UNCHANGED refDir /\ Return(vol)
    /\ UNCHANGED <<bin, ref, versionFile, meta, mounts, metric, pod, gc, prov,
                   world, history, restarts>>

\* mountOneAgent: the overlay needs bin/<version> as its lower directory.
PublishOverlay(vol) ==
    /\ op[vol].pc = "overlay"
    /\ \/ /\ bin[op[vol].ver] # "absent"
          /\ NoFault
          /\ overlay' = [overlay EXCEPT ![vol] = Append(@, op[vol].ver)]
          /\ Goto(vol, "bind")
       \/ /\ FailsIf(bin[op[vol].ver] = "absent")
          /\ UNCHANGED overlay
          /\ Return(vol)
    /\ UNCHANGED <<disk, target, metric, pod, gc, prov, world, history, restarts>>

\* The bind mount; if it fails the overlay is unmounted again, and an error of
\* this unmount is ignored.
PublishBind(vol) ==
    /\ op[vol].pc = "bind"
    /\ \/ /\ NoFault
          /\ target' = [target EXCEPT ![vol] = op[vol].ver]
          /\ UNCHANGED overlay
          /\ Goto(vol, "usage")
       \/ /\ Fault
          /\ \/ overlay' = [overlay EXCEPT ![vol] = DropLast(@)]
             \/ UNCHANGED overlay
          /\ UNCHANGED target
          /\ Return(vol)
    /\ UNCHANGED <<disk, metric, pod, gc, prov, world, history, restarts>>

\* Mutant of PublishUsageFile: an error is logged only.
PublishUsageFileMutant(vol) ==
    LET v == op[vol].ver IN
    /\ op[vol].pc = "usage"
    /\ \/ /\ v \in refDir
          /\ NoFault
          /\ ref' = [ref EXCEPT ![v] = @ \cup {vol}]
       \/ /\ FailsIf(v \notin refDir)
          /\ UNCHANGED ref
    /\ Goto(vol, "metadata")
    /\ UNCHANGED <<bin, refDir, versionFile, meta, mounts, metric, pod, gc,
                   prov, world, history, restarts>>

\* storeVolumeMetadata: the usage file needs its directory ...
PublishUsageFile(vol) ==
    LET v == op[vol].ver IN
    /\ op[vol].pc = "usage"
    /\ \/ /\ v \in refDir
          /\ NoFault
          /\ ref' = [ref EXCEPT ![v] = @ \cup {vol}]
          /\ Goto(vol, "metadata")
       \/ /\ FailsIf(v \notin refDir)
          /\ UNCHANGED ref
          /\ Return(vol)
    /\ UNCHANGED <<bin, refDir, versionFile, meta, mounts, metric, pod, gc,
                   prov, world, history, restarts>>

\* ... then the metadata; the gauge is incremented when all went well.
PublishMetadata(vol) ==
    LET v == op[vol].ver IN
    /\ op[vol].pc = "metadata"
    /\ \/ /\ NoFault
          /\ meta' = [meta EXCEPT ![vol] = v]
          /\ metric' = [metric EXCEPT ![v] = @ + 1]
          /\ pod' = [pod EXCEPT ![vol] = "published"]
       \/ Fault /\ UNCHANGED <<meta, metric, pod>>
    /\ Return(vol)
    /\ UNCHANGED <<bin, refDir, ref, versionFile, mounts, gc, prov, world,
                   history, restarts>>

-----------------------------------------------------------------------------
(* NodeUnpublishVolume.                                                    *)

\* The pod goes away, whether or not its volume was ever published.
PodDeleted(vol) ==
    /\ pod[vol] \in {"wanted", "published"} /\ op[vol].pc = "idle"
    /\ pod' = [pod EXCEPT ![vol] = "dying"]
    /\ NoFault
    /\ UNCHANGED <<disk, mounts, metric, op, gc, prov, world, history, restarts>>

\* A volume whose metadata cannot be read is unpublished all the same.
UnpublishLoad(vol) ==
    /\ pod[vol] = "dying" /\ op[vol].pc = "idle"
    /\ \/ NoFault /\ op' = [op EXCEPT ![vol] = [pc |-> "umount", ver |-> meta[vol]]]
       \/ Fault /\ op' = [op EXCEPT ![vol] = [pc |-> "umount", ver |-> None]]
    /\ UNCHANGED <<disk, mounts, metric, pod, gc, prov, world, history, restarts>>

\* umountOneAgent only logs what fails: first the target ...
UnpublishUmount(vol) ==
    /\ op[vol].pc = "umount"
    /\ \/ NoFault /\ target' = [target EXCEPT ![vol] = None]
       \/ Fault /\ UNCHANGED target
    /\ Goto(vol, "umountOverlay")
    /\ UNCHANGED <<disk, overlay, metric, pod, gc, prov, world, history, restarts>>

\* Mutant of UnpublishUmountOverlay: only the target is unmounted.
UnpublishUmountOverlayMutant(vol) ==
    /\ op[vol].pc = "umountOverlay"
    /\ NoFault
    /\ Goto(vol, "rmUsage")
    /\ UNCHANGED <<disk, mounts, metric, pod, gc, prov, world, history, restarts>>

\* ... then the overlay, which is left alone when there was no metadata.
UnpublishUmountOverlay(vol) ==
    /\ op[vol].pc = "umountOverlay"
    /\ \/ /\ NoFault
          /\ overlay' = IF op[vol].ver = None THEN overlay
                        ELSE [overlay EXCEPT ![vol] = DropLast(@)]
       \/ Fault /\ op[vol].ver # None /\ UNCHANGED overlay
    /\ Goto(vol, "rmUsage")
    /\ UNCHANGED <<disk, target, metric, pod, gc, prov, world, history, restarts>>

UnpublishRmUsage(vol) ==
    LET v == op[vol].ver IN
    /\ op[vol].pc = "rmUsage"
    /\ \/ /\ NoFault
          /\ ref' = IF v = None THEN ref ELSE [ref EXCEPT ![v] = @ \ {vol}]
          /\ Goto(vol, "rmMeta")
       \/ Fault /\ v # None /\ UNCHANGED ref /\ Return(vol)
    /\ UNCHANGED <<bin, refDir, versionFile, meta, mounts, metric, pod, gc,
                   prov, world, history, restarts>>

UnpublishRmMeta(vol) ==
    /\ op[vol].pc = "rmMeta"
    /\ \/ /\ NoFault
          /\ meta' = [meta EXCEPT ![vol] = None]
          /\ Goto(vol, "rmTarget")
       \/ Fault /\ UNCHANGED meta /\ Return(vol)
    /\ UNCHANGED <<bin, refDir, ref, versionFile, mounts, metric, pod, gc, prov,
                   world, history, restarts>>

\* Mutant of UnpublishRmTarget: the gauge is not decremented.
UnpublishRmTargetMutant(vol) ==
    /\ op[vol].pc = "rmTarget"
    /\ target[vol] = None
    /\ NoFault
    /\ pod' = [pod EXCEPT ![vol] = "gone"]
    /\ Return(vol)
    /\ UNCHANGED <<disk, mounts, metric, gc, prov, world, history, restarts>>

\* A target that is still mounted cannot be removed.  The gauge follows the
\* metadata that was loaded.
UnpublishRmTarget(vol) ==
    LET v == op[vol].ver IN
    /\ op[vol].pc = "rmTarget"
    /\ \/ /\ target[vol] = None
          /\ NoFault
          /\ pod' = [pod EXCEPT ![vol] = "gone"]
          /\ metric' = IF v = None THEN metric
                       ELSE [metric EXCEPT ![v] = @ - 1]
       \/ /\ FailsIf(target[vol] # None)
          /\ UNCHANGED <<pod, metric>>
    /\ Return(vol)
    /\ UNCHANGED <<disk, mounts, gc, prov, world, history, restarts>>

-----------------------------------------------------------------------------
(* The garbage collector.  A query that fails ends the run with nothing    *)
(* done.                                                                   *)

\* Reconcile asks the tenant for its latest version ...
GCQuery ==
    /\ gc.pc = "idle"
    /\ gc' = [gc EXCEPT !.pc = "list", !.latest = apiLatest]
    /\ NoFault
    /\ UNCHANGED <<disk, mounts, metric, pod, op, prov, world, history, restarts>>

\* ... and lists the versions that have a directory of references.
GCList ==
    /\ gc.pc = "list"
    /\ gc' = [gc EXCEPT !.pc = "scan", !.todo = refDir]
    /\ NoFault
    /\ UNCHANGED <<disk, mounts, metric, pod, op, prov, world, history, restarts>>

\* Mutants of shouldDelete: references are not looked at; only a newer latest
\* version makes a version outdated.
shouldDeleteMutant(v) == v # gc.latest /\ v \in refDir

shouldDeleteNewerMutant(v) == v < gc.latest /\ v \in refDir /\ ref[v] = {}

shouldDelete(v) == v # gc.latest /\ v \in refDir /\ ref[v] = {}

\* One version of the list is examined.
GCScan ==
    /\ gc.pc = "scan"
    /\ \E v \in gc.todo :
          \/ /\ shouldDelete(v)
             /\ gc' = [gc EXCEPT !.pc = "rmBin", !.ver = v, !.todo = @ \ {v}]
             /\ raced' = raced \cup InFlight(v)
             /\ torn' = torn \cup {w \in {v} : Installing(w)}
          \/ /\ ~shouldDelete(v)
             /\ gc' = [gc EXCEPT !.todo = @ \ {v}]
             /\ UNCHANGED history
    /\ NoFault
    /\ UNCHANGED <<disk, mounts, metric, pod, op, prov, world, restarts>>

\* removeUnusedVersion: RemoveAll takes the files away one by one ...
GCRemoveSome ==
    /\ gc.pc = "rmBin"
    /\ \/ /\ bin[gc.ver] # "absent"
          /\ NoFault
          /\ bin' = [bin EXCEPT ![gc.ver] = "partial"]
          /\ gc' = [gc EXCEPT !.pc = "rmRest"]
       \/ /\ (bin[gc.ver] = "absent" /\ NoFault) \/ Fault
          /\ UNCHANGED bin
          /\ gc' = [gc EXCEPT !.pc = "rmRefs"]
    /\ UNCHANGED <<refDir, ref, versionFile, meta, mounts, metric, pod, op,
                   prov, world, history, restarts>>

\* ... and may stop in the middle.  A failure is logged and the references go
\* anyway.
GCRemoveBin ==
    /\ gc.pc = "rmRest"
    /\ \/ /\ NoFault
          /\ bin' = [bin EXCEPT ![gc.ver] = "absent"]
          /\ cut' = cut \ {gc.ver}
       \/ Fault /\ UNCHANGED bin /\ cut' = cut \cup {gc.ver}
    /\ gc' = [gc EXCEPT !.pc = "rmRefs"]
    /\ UNCHANGED <<refDir, ref, versionFile, meta, mounts, metric, pod, op,
                   prov, world, history, crashes>>

GCRemoveRefs ==
    /\ gc.pc = "rmRefs"
    /\ \/ /\ NoFault
          /\ refDir' = refDir \ {gc.ver}
          /\ ref' = [ref EXCEPT ![gc.ver] = {}]
       \/ Fault /\ UNCHANGED <<refDir, ref>>
    /\ gc' = [gc EXCEPT !.pc = "scan", !.ver = None]
    /\ UNCHANGED <<bin, versionFile, meta, mounts, metric, pod, op, prov,
                   world, history, restarts>>

GCDone ==
    /\ gc.pc = "scan" /\ gc.todo = {}
    /\ gc' = IdleGC
    /\ NoFault
    /\ UNCHANGED <<disk, mounts, metric, pod, op, prov, world, history, restarts>>

-----------------------------------------------------------------------------
(* The provisioner.                                                        *)

\* updateAgent: nothing is done when the version file is up to date.
ProvStart ==
    /\ prov.pc = "idle"
    /\ dkVersion \notin {None, versionFile}
    /\ \/ /\ NoFault
          /\ refDir' = refDir \cup {dkVersion}
          /\ prov' = [pc |-> "stat", ver |-> dkVersion]
          /\ raced' = raced \cup InFlight(dkVersion)
          /\ torn' = torn \cup {v \in {dkVersion} : Removing(v)}
       \/ Fault /\ UNCHANGED <<refDir, prov, history>>
    /\ UNCHANGED <<bin, ref, versionFile, meta, mounts, metric, pod, op, gc,
                   world, restarts>>

\* The agent is installed only if its directory does not exist.
ProvStat ==
    /\ prov.pc = "stat"
    /\ prov' = [prov EXCEPT !.pc =
                   IF bin[prov.ver] = "absent" THEN "install" ELSE "write"]
    /\ NoFault
    /\ UNCHANGED <<disk, mounts, metric, pod, op, gc, world, history, restarts>>

\* Mutant of ProvUnzip: the version file is written before the agent is
\* unpacked.
ProvUnzipMutant ==
    /\ prov.pc = "install"
    /\ bin' = [bin EXCEPT ![prov.ver] = "partial"]
    /\ versionFile' = prov.ver
    /\ prov' = [prov EXCEPT !.pc = "unzip"]
    /\ NoFault
    /\ UNCHANGED <<refDir, ref, meta, mounts, metric, pod, op, gc, world,
                   history, restarts>>

\* The download is complete and is being unpacked.
ProvUnzip ==
    /\ prov.pc = "install"
    /\ bin' = [bin EXCEPT ![prov.ver] = "partial"]
    /\ prov' = [prov EXCEPT !.pc = "unzip"]
    /\ NoFault
    /\ UNCHANGED <<refDir, ref, versionFile, meta, mounts, metric, pod, op, gc,
                   world, history, restarts>>

\* The last file is extracted.  What was removed meanwhile stays removed.
ProvUnzipped ==
    /\ prov.pc = "unzip"
    /\ \/ /\ bin[prov.ver] # "absent"
          /\ bin' = [bin EXCEPT ![prov.ver] = "full"]
       \/ /\ prov.ver \in torn
          /\ bin' = [bin EXCEPT ![prov.ver] = "partial"]
    /\ prov' = [prov EXCEPT !.pc = "write"]
    /\ NoFault
    /\ UNCHANGED <<refDir, ref, versionFile, meta, mounts, metric, pod, op, gc,
                   world, history, restarts>>

\* Mutant of ProvInstallFails: what was unpacked stays.
ProvInstallFailsMutant ==
    /\ prov.pc \in {"install", "unzip"}
    /\ Fault
    /\ prov' = IdleProv
    /\ UNCHANGED <<disk, mounts, metric, pod, op, gc, world, history, restarts>>

\* Download or extraction failed: what was unpacked is removed, but an error of
\* this RemoveAll is ignored and leaves an incomplete directory.
ProvInstallFails ==
    /\ prov.pc \in {"install", "unzip"}
    /\ Fault
    /\ \/ /\ bin' = [bin EXCEPT ![prov.ver] = "absent"]
          /\ cut' = cut \ {prov.ver}
       \/ /\ bin[prov.ver] # "absent"
          /\ bin' = [bin EXCEPT ![prov.ver] = "partial"]
          /\ cut' = cut \cup {prov.ver}
    /\ prov' = IdleProv
    /\ UNCHANGED <<refDir, ref, versionFile, meta, mounts, metric, pod, op, gc,
                   world, history, crashes>>

ProvWriteVersion ==
    /\ prov.pc = "write"
    /\ \/ NoFault /\ versionFile' = prov.ver
       \/ Fault /\ UNCHANGED versionFile
    /\ prov' = IdleProv
    /\ UNCHANGED <<bin, refDir, ref, meta, mounts, metric, pod, op, gc, world,
                   history, restarts>>

-----------------------------------------------------------------------------
(* The environment.                                                        *)

\* A new version becomes the tenant's latest, or an old one is restored.
Release ==
    /\ releases < MaxReleases
    /\ \E v \in Versions \ {apiLatest} :
          /\ Rollback \/ v > apiLatest
          /\ apiLatest' = v
    /\ releases' = releases + 1
    /\ NoFault
    /\ UNCHANGED <<disk, mounts, metric, pod, op, gc, prov, dkVersion, history,
                   restarts>>

\* The operator refreshes the DynaKube status.
UpdateStatus ==
    /\ dkVersion # apiLatest
    /\ dkVersion' = apiLatest
    /\ NoFault
    /\ UNCHANGED <<disk, mounts, metric, pod, op, gc, prov, apiLatest, releases,
                   history, restarts>>

\* The driver process restarts: files and mounts stay, its memory does not.
Crash ==
    /\ crashes < MaxCrashes
    /\ crashes' = crashes + 1
    /\ cut' = cut \cup {v \in Versions : Halfway(v)}
    /\ op' = [vol \in Volumes |-> IdleOp]
    /\ gc' = IdleGC
    /\ prov' = IdleProv
    /\ metric' = [v \in Versions |-> 0]
    /\ NoFault
    /\ UNCHANGED <<disk, mounts, pod, world, history>>

Publish(vol) ==
    \/ PublishMounted(vol) \/ PublishReadVersion(vol) \/ PublishMkRefDir(vol)
    \/ PublishOverlay(vol) \/ PublishBind(vol) \/ PublishUsageFile(vol)
    \/ PublishMetadata(vol)

Unpublish(vol) ==
    \/ UnpublishLoad(vol) \/ UnpublishUmount(vol) \/ UnpublishUmountOverlay(vol)
    \/ UnpublishRmUsage(vol) \/ UnpublishRmMeta(vol) \/ UnpublishRmTarget(vol)

CollectGarbage ==
    \/ GCQuery \/ GCList \/ GCScan \/ GCRemoveSome \/ GCRemoveBin
    \/ GCRemoveRefs \/ GCDone

Provision ==
    \/ ProvStart \/ ProvStat \/ ProvUnzip \/ ProvUnzipped \/ ProvInstallFails
    \/ ProvWriteVersion

Next ==
    \/ \E vol \in Volumes : Publish(vol) \/ PodDeleted(vol) \/ Unpublish(vol)
    \/ CollectGarbage
    \/ Provision
    \/ Release \/ UpdateStatus \/ Crash

Spec == Init /\ [][Next]_vars

\* Kubelet repeats its calls, both controllers are requeued, and the operator
\* refreshes the status.
Fairness ==
    /\ \A vol \in Volumes : WF_vars(Publish(vol)) /\ WF_vars(Unpublish(vol))
    /\ WF_vars(CollectGarbage)
    /\ WF_vars(Provision)
    /\ WF_vars(UpdateStatus)

FairSpec == Spec /\ Fairness

-----------------------------------------------------------------------------
(* Properties                                                              *)

Known == Versions \cup {None}
Calls == [pc : {"idle", "mkdir", "overlay", "bind", "usage", "metadata",
                "umount", "umountOverlay", "rmUsage", "rmMeta", "rmTarget"},
          ver : Known]
Collections == [pc : {"idle", "list", "scan", "rmBin", "rmRest", "rmRefs"},
                latest : Known, todo : SUBSET Versions, ver : Known]
Provisions == [pc : {"idle", "stat", "install", "unzip", "write"}, ver : Known]

\* The variables have their types.
TypeOK ==
    /\ bin \in [Versions -> {"absent", "partial", "full"}]
    /\ refDir \in SUBSET Versions
    /\ ref \in [Versions -> SUBSET Volumes]
    /\ versionFile \in Known
    /\ meta \in [Volumes -> Known]
    /\ overlay \in [Volumes -> Seq(Versions)]
    /\ target \in [Volumes -> Known]
    /\ metric \in [Versions -> Int]
    /\ pod \in [Volumes -> {"wanted", "published", "dying", "gone"}]
    /\ op \in [Volumes -> Calls]
    /\ gc \in Collections /\ prov \in Provisions
    /\ apiLatest \in Versions /\ dkVersion \in Known
    /\ raced \in SUBSET Volumes /\ torn \in SUBSET Versions
    /\ cut \in SUBSET Versions
    /\ releases \in Nat /\ crashes \in Nat /\ faults \in Nat

\* A usage file protects its version: the garbage collector never takes the
\* binaries away under a reference, whatever crashes or fails, unless that
\* version was being removed or installed while the volume was published.
ReferencedIsKept ==
    \A v \in Versions : \A vol \in ref[v] \ raced : bin[v] # "absent"

\* A directory below bin is taken for an installed agent: it is complete
\* unless it is being unpacked or removed right now, one of the two was cut
\* short by a crash or by a RemoveAll that failed, or both went on at a time.
\* In particular an installation that fails, a publish call and an unpublish
\* call leave no incomplete agent behind.
PresentIsComplete ==
    \A v \in Versions :
        bin[v] = "partial" =>
            Halfway(v) \/ v \in cut \cup torn

\* Metadata never points to a usage file that is gone: it is written after
\* and removed after the usage file (NodeUnpublishVolume relies on it).
MetadataHasUsageFile ==
    \A vol \in Volumes \ raced :
        (meta[vol] # None /\ op[vol].pc # "rmMeta" /\ pod[vol] # "dying")
            => vol \in ref[meta[vol]]

\* Without crashes and failing calls, a pod that runs has the binaries of its
\* version mounted, referenced and recorded, and they are complete unless the
\* garbage collector removed files while they were being installed.
PublishedIsSound ==
    \A vol \in Volumes \ raced :
        pod[vol] = "published" =>
            /\ target[vol] # None
            /\ overlay[vol] = <<target[vol]>>
            /\ meta[vol] = target[vol]
            /\ vol \in ref[target[vol]]
            /\ bin[target[vol]] # "absent"
            /\ target[vol] \notin torn => bin[target[vol]] = "full"

\* Without crashes and failing calls, nothing is left of a volume that was
\* unpublished: no mount, no metadata, no reference.
UnpublishLeavesNothing ==
    \A vol \in Volumes \ raced :
        pod[vol] = "gone" =>
            /\ target[vol] = None /\ overlay[vol] = <<>> /\ meta[vol] = None
            /\ \A v \in Versions : vol \notin ref[v]

\* Without crashes and failing calls, the gauge counts the volumes that have
\* metadata or are about to lose their count.
GaugeIsAccurate ==
    \A v \in Versions :
        LET leaving(vol) == op[vol] = [pc |-> "rmTarget", ver |-> v] IN
        metric[v] = Cardinality({vol \in Volumes : meta[vol] = v \/ leaving(vol)})

-----------------------------------------------------------------------------
(* The inductive invariant                                                 *)

\* A call in flight, its pod and its metadata go together.
CallInv(vol) ==
    /\ Publishing(vol) => op[vol].ver # None /\ pod[vol] = "wanted"
    /\ op[vol].pc \in {"umount", "umountOverlay", "rmUsage", "rmMeta", "rmTarget"}
          => pod[vol] = "dying"
    /\ pod[vol] \in {"wanted", "gone"} \/ op[vol].pc = "rmTarget"
          => meta[vol] = None

\* A version in removal, or that is about to be unpacked.
Unsafe(v) ==
    Removing(v) \/ (prov.pc \in {"install", "unzip"} /\ prov.ver = v)

\* A volume that is not raced publishes no version while it is removed or
\* installed, and refers to none that is removed or unpacked.
RaceInv(vol) ==
    \A v \in Versions :
        /\ Removing(v) \/ Installing(v)
              => ~(Publishing(vol) /\ op[vol].ver = v)
        /\ Unsafe(v) => vol \notin ref[v]

\* What a publish call has made so far is still there.
FootingInv(vol) ==
    /\ op[vol].pc \in {"overlay", "bind", "usage"} => op[vol].ver \in refDir
    /\ op[vol].pc \in {"bind", "usage", "metadata"}
          => bin[op[vol].ver] # "absent"
    /\ op[vol].pc = "metadata" => vol \in ref[op[vol].ver]

\* Both controllers know the version they work on, the provisioner never
\* installs the version that is being published, an installation that meets a
\* removal is torn, and what is being unpacked is partial.
ControllerInv ==
    /\ gc.pc \in {"rmBin", "rmRest", "rmRefs"} => gc.ver # None
    /\ prov.pc # "idle" => prov.ver \notin {None, versionFile}
    /\ \A v \in Versions : Removing(v) /\ Installing(v) => v \in torn
    /\ prov.pc = "unzip" /\ prov.ver \notin torn => bin[prov.ver] = "partial"

FaultFree == faults = 0 /\ crashes = 0

RefersTo(vol) == {v \in Versions : vol \in ref[v]}

\* The mounts, the metadata and the references of a volume.
Traces(vol, t, o, m, r) ==
    /\ target[vol] = t /\ overlay[vol] = o /\ meta[vol] = m
    /\ RefersTo(vol) = r

Clean(vol) == Traces(vol, None, <<>>, None, {})
Held(vol) ==
    /\ target[vol] # None
    /\ Traces(vol, target[vol], <<target[vol]>>, target[vol], {target[vol]})

\* Without faults every step of a call finds what the steps before it left.
Stage(vol) ==
    LET v == op[vol].ver IN
    /\ op[vol].pc \in {"mkdir", "overlay", "rmTarget"} => Clean(vol)
    /\ op[vol].pc = "bind" => Traces(vol, None, <<v>>, None, {})
    /\ op[vol].pc = "usage" => Traces(vol, v, <<v>>, None, {})
    /\ op[vol].pc = "metadata" => Traces(vol, v, <<v>>, None, {v})
    /\ op[vol].pc = "umount" => Clean(vol) \/ Held(vol)
    /\ op[vol].pc = "umountOverlay" =>
          Clean(vol) \/ (v # None /\ Traces(vol, None, <<v>>, v, {v}))
    /\ op[vol].pc = "rmUsage" => Traces(vol, None, <<>>, v, {v} \ {None})
    /\ op[vol].pc = "rmMeta" => Traces(vol, None, <<>>, v, {})
    /\ op[vol].pc = "idle" =>
          /\ pod[vol] \in {"wanted", "gone"} => Clean(vol)
          /\ pod[vol] = "published" => Held(vol)
          /\ pod[vol] = "dying" => Clean(vol) \/ Held(vol)

\* Without faults also a raced volume is unpublished as its metadata says.
FaultFreeInv(vol) ==
    /\ op[vol].pc \in {"umount", "umountOverlay", "rmUsage", "rmMeta"}
          => op[vol].ver = meta[vol]
    /\ op[vol].pc \in {"umountOverlay", "rmUsage", "rmMeta", "rmTarget"}
          => target[vol] = None
    /\ vol \notin raced => Stage(vol)

\* Holds initially and is kept by every step; the safety properties above
\* follow from it.
IInv ==
    /\ TypeOK
    /\ ControllerInv
    /\ ReferencedIsKept /\ PresentIsComplete /\ MetadataHasUsageFile
    /\ \A vol \in Volumes :
          /\ CallInv(vol)
          /\ vol \notin raced => RaceInv(vol) /\ FootingInv(vol)
          /\ FaultFree => FaultFreeInv(vol)
    /\ FaultFree => cut = {} /\ GaugeIsAccurate

-----------------------------------------------------------------------------
(* What a doc says, and what happens in the end                            *)

\* "CSIGarbageCollector removes unused and outdated agent versions"
\* (controllers/csi/gc/controller.go): a version that a running pod has
\* mounted is not unused.
GCRemovesOnlyUnused ==
    \A vol \in Volumes : pod[vol] = "published" => bin[target[vol]] # "absent"

\* A version that is neither the latest nor wanted by the DynaKube, and that
\* no volume refers to any longer, is reclaimed in the end (unless it was
\* removed while it was being installed: what is unpacked after that has no
\* directory of references, and the garbage collector never looks at it).
OutdatedIsReclaimed ==
    \A v \in Versions :
        <>[](apiLatest # v /\ dkVersion # v /\ ref[v] = {} /\ v \notin torn)
            => <>[](bin[v] = "absent")
=============================================================================
