---------------------------- MODULE CsiNodeProofs ----------------------------
(***************************************************************************)
(* Proofs that IInv is an inductive invariant of CsiNode and that the      *)
(* safety properties follow from it, for any number of volumes, versions,  *)
(* releases, crashes and faults.                                           *)
(***************************************************************************)
EXTENDS CsiNode, FiniteSetTheorems, TLAPS

-----------------------------------------------------------------------------
(* What the helpers of the actions do.                                     *)

\* Version 0 is none of the versions.
LEMMA NoneIsNoVersion ==
    /\ None \notin Versions /\ None \in Known /\ Versions \subseteq Known
    /\ \A v \in Known : v # None => v \in Versions
BY ConstantsAssumption DEF None, Known

\* The records of idle actors have their types.
LEMMA IdleTypes ==
    /\ IdleOp \in Calls /\ IdleGC \in Collections /\ IdleProv \in Provisions
    /\ IdleOp.pc = "idle" /\ IdleGC.pc = "idle" /\ IdleProv.pc = "idle"
BY NoneIsNoVersion
   DEF IdleOp, IdleGC, IdleProv, Calls, Collections, Provisions

\* Goto changes the step of one call, and nothing else.
LEMMA GotoEffect ==
    ASSUME op \in [Volumes -> Calls], NEW vol \in Volumes,
           NEW pc \in {"overlay", "bind", "usage", "metadata",
                       "umountOverlay", "rmUsage", "rmMeta", "rmTarget"},
           Goto(vol, pc)
    PROVE  /\ op' \in [Volumes -> Calls]
           /\ op'[vol].pc = pc /\ op'[vol].ver = op[vol].ver
           /\ \A u \in Volumes \ {vol} : op'[u] = op[u]
BY DEF Goto, Calls

\* Return ends one call, and changes nothing else.
LEMMA ReturnEffect ==
    ASSUME op \in [Volumes -> Calls], NEW vol \in Volumes, Return(vol)
    PROVE  /\ op' \in [Volumes -> Calls]
           /\ op'[vol] = IdleOp
           /\ \A u \in Volumes \ {vol} : op'[u] = op[u]
BY IdleTypes DEF Return

\* Removing the last element of a sequence leaves a sequence.
LEMMA DropLastType ==
    ASSUME NEW S, NEW s \in Seq(S)
    PROVE  DropLast(s) \in Seq(S)
BY DEF DropLast

-----------------------------------------------------------------------------
(* Type correctness.                                                       *)

\* The node starts empty, within the types.
LEMMA TypeInit == Init => TypeOK
BY ConstantsAssumption, NoneIsNoVersion, IdleTypes DEF Init, TypeOK

\* A step keeps the types if the calls and the controllers know the version
\* they work on.
LEMMA TypeStep ==
    TypeOK /\ (\A vol \in Volumes : CallInv(vol)) /\ ControllerInv /\ [Next]_vars
        => TypeOK'
<1> SUFFICES ASSUME TypeOK, \A vol \in Volumes : CallInv(vol), ControllerInv,
                    [Next]_vars
             PROVE  TypeOK'
  OBVIOUS
<1> USE NoneIsNoVersion, IdleTypes
    DEF TypeOK, disk, mounts, world, history, restarts, Fault, NoFault, FailsIf
<1>1. ASSUME NEW vol \in Volumes, Publish(vol)
      PROVE  TypeOK'
  <2>0. /\ op[vol] \in Calls /\ op[vol].ver \in Known
        /\ Publishing(vol) => op[vol].ver \in Versions
    BY DEF CallInv, Calls
  <2>1. CASE PublishMounted(vol)
    BY <2>1 DEF PublishMounted
  <2>2. CASE PublishReadVersion(vol)
    <3>1. [pc |-> "mkdir", ver |-> versionFile] \in Calls
      BY <2>2 DEF PublishReadVersion, Calls
    <3>2. QED
      BY <3>1, <2>2 DEF PublishReadVersion
  <2>3. CASE PublishMkRefDir(vol)
    BY <2>0, <2>3, GotoEffect, ReturnEffect DEF PublishMkRefDir, Publishing
  <2>4. CASE PublishOverlay(vol)
    <3>1. op' \in [Volumes -> Calls]
      BY <2>4, <2>0, GotoEffect, ReturnEffect DEF PublishOverlay
    <3>2. overlay' \in [Volumes -> Seq(Versions)]
      <4>1. op[vol].ver \in Versions /\ overlay[vol] \in Seq(Versions)
        BY <2>0, <2>4 DEF PublishOverlay, Publishing
      <4>2. Append(overlay[vol], op[vol].ver) \in Seq(Versions)
        BY <4>1
      <4>3. QED
        BY <2>4, <4>2 DEF PublishOverlay
    <3>3. faults' \in Nat
      BY <2>4, <2>0 DEF PublishOverlay
    <3>4. QED
      BY <2>4, <3>1, <3>2, <3>3 DEF PublishOverlay
  <2>5. CASE PublishBind(vol)
    <3>1. op' \in [Volumes -> Calls]
      BY <2>5, <2>0, GotoEffect, ReturnEffect DEF PublishBind
    <3>2. overlay' \in [Volumes -> Seq(Versions)]
      <4>1. DropLast(overlay[vol]) \in Seq(Versions)
        BY DropLastType
      <4>2. QED
        BY <2>5, <4>1 DEF PublishBind
    <3>3. target' \in [Volumes -> Known]
      BY <2>5, <2>0 DEF PublishBind
    <3>4. faults' \in Nat
      BY <2>5, <2>0 DEF PublishBind
    <3>5. QED
      BY <2>5, <3>1, <3>2, <3>3, <3>4 DEF PublishBind
  <2>6. CASE PublishUsageFile(vol)
    <3>1. op' \in [Volumes -> Calls]
      BY <2>6, <2>0, GotoEffect, ReturnEffect DEF PublishUsageFile
    <3>2. ref' \in [Versions -> SUBSET Volumes]
      <4>1. ref[op[vol].ver] \cup {vol} \in SUBSET Volumes
        BY <2>0, <2>6 DEF PublishUsageFile, Publishing
      <4>2. QED
        BY <2>6, <4>1 DEF PublishUsageFile
    <3>3. faults' \in Nat
      BY <2>6, <2>0 DEF PublishUsageFile
    <3>4. QED
      BY <2>6, <3>1, <3>2, <3>3 DEF PublishUsageFile
  <2>7. CASE PublishMetadata(vol)
    <3>1. op' \in [Volumes -> Calls]
      BY <2>7, <2>0, ReturnEffect DEF PublishMetadata
    <3>2. meta' \in [Volumes -> Known]
      BY <2>7, <2>0 DEF PublishMetadata
    <3>3. metric' \in [Versions -> Int]
      BY <2>7, <2>0 DEF PublishMetadata, Publishing
    <3>4. pod' \in [Volumes -> {"wanted", "published", "dying", "gone"}]
      BY <2>7, <2>0 DEF PublishMetadata
    <3>5. faults' \in Nat
      BY <2>7, <2>0 DEF PublishMetadata
    <3>6. QED
      BY <2>7, <3>1, <3>2, <3>3, <3>4, <3>5 DEF PublishMetadata
  <2>8. QED
    BY <1>1, <2>1, <2>2, <2>3, <2>4, <2>5, <2>6, <2>7 DEF Publish
<1>2. ASSUME NEW vol \in Volumes, PodDeleted(vol) \/ Unpublish(vol)
      PROVE  TypeOK'
  <2>0. op[vol] \in Calls /\ op[vol].ver \in Known
    BY DEF Calls
  <2>1. CASE PodDeleted(vol)
    BY <2>1 DEF PodDeleted
  <2>2. CASE UnpublishLoad(vol)
    <3>1. /\ [pc |-> "umount", ver |-> meta[vol]] \in Calls
          /\ [pc |-> "umount", ver |-> None] \in Calls
      BY DEF Calls
    <3>2. op' \in [Volumes -> Calls]
      BY <3>1, <2>2 DEF UnpublishLoad
    <3>3. QED
      BY <3>2, <2>2 DEF UnpublishLoad
  <2>3. CASE UnpublishUmount(vol)
    <3>1. op' \in [Volumes -> Calls]
      BY <2>3, <2>0, GotoEffect DEF UnpublishUmount
    <3>2. target' \in [Volumes -> Known]
      BY <2>3, <2>0 DEF UnpublishUmount
    <3>3. faults' \in Nat
      BY <2>3, <2>0 DEF UnpublishUmount
    <3>4. QED
      BY <2>3, <3>1, <3>2, <3>3 DEF UnpublishUmount
  <2>3a. CASE UnpublishUmountOverlay(vol)
    <3>1. op' \in [Volumes -> Calls]
      BY <2>3a, <2>0, GotoEffect DEF UnpublishUmountOverlay
    <3>2. overlay' \in [Volumes -> Seq(Versions)]
      <4>1. DropLast(overlay[vol]) \in Seq(Versions)
        BY DropLastType
      <4>2. QED
        BY <2>3a, <4>1 DEF UnpublishUmountOverlay
    <3>3. faults' \in Nat
      BY <2>3a, <2>0 DEF UnpublishUmountOverlay
    <3>4. QED
      BY <2>3a, <3>1, <3>2, <3>3 DEF UnpublishUmountOverlay
  <2>4. CASE UnpublishRmUsage(vol)
    <3>1. op' \in [Volumes -> Calls]
      BY <2>4, <2>0, GotoEffect, ReturnEffect DEF UnpublishRmUsage
    <3>2. ref' \in [Versions -> SUBSET Volumes]
      <4>1. CASE op[vol].ver = None
        BY <2>4, <4>1 DEF UnpublishRmUsage
      <4>2. CASE op[vol].ver # None
        <5>1. ref[op[vol].ver] \ {vol} \in SUBSET Volumes
          BY <2>0, <4>2
        <5>2. QED
          BY <2>4, <4>2, <5>1 DEF UnpublishRmUsage
      <4>3. QED
        BY <4>1, <4>2
    <3>3. faults' \in Nat
      BY <2>4, <2>0 DEF UnpublishRmUsage
    <3>4. QED
      BY <2>4, <3>1, <3>2, <3>3 DEF UnpublishRmUsage
  <2>5. CASE UnpublishRmMeta(vol)
    <3>1. op' \in [Volumes -> Calls]
      BY <2>5, <2>0, GotoEffect, ReturnEffect DEF UnpublishRmMeta
    <3>2. meta' \in [Volumes -> Known]
      BY <2>5, <2>0 DEF UnpublishRmMeta
    <3>3. faults' \in Nat
      BY <2>5, <2>0 DEF UnpublishRmMeta
    <3>4. QED
      BY <2>5, <3>1, <3>2, <3>3 DEF UnpublishRmMeta
  <2>6. CASE UnpublishRmTarget(vol)
    <3>1. op' \in [Volumes -> Calls]
      BY <2>6, <2>0, ReturnEffect DEF UnpublishRmTarget
    <3>2. pod' \in [Volumes -> {"wanted", "published", "dying", "gone"}]
      BY <2>6, <2>0 DEF UnpublishRmTarget
    <3>3. metric' \in [Versions -> Int]
      BY <2>6, <2>0 DEF UnpublishRmTarget
    <3>4. faults' \in Nat
      BY <2>6, <2>0 DEF UnpublishRmTarget
    <3>5. QED
      BY <2>6, <3>1, <3>2, <3>3, <3>4 DEF UnpublishRmTarget
  <2>7. QED
    BY <1>2, <2>1, <2>2, <2>3, <2>3a, <2>4, <2>5, <2>6 DEF Unpublish
<1>3. CASE CollectGarbage
  <2>1. CASE GCQuery
    BY <2>1 DEF GCQuery, Collections
  <2>2. CASE GCList
    BY <2>2 DEF GCList, Collections
  <2>3. CASE GCScan
    <3>1. gc' \in Collections
      <4>1. PICK v \in gc.todo :
               \/ gc' = [gc EXCEPT !.pc = "rmBin", !.ver = v, !.todo = @ \ {v}]
               \/ gc' = [gc EXCEPT !.todo = @ \ {v}]
        BY <2>3 DEF GCScan
      <4>2. v \in Known /\ gc.todo \ {v} \in SUBSET Versions
        BY <4>1 DEF Collections
      <4>3. CASE gc' = [gc EXCEPT !.todo = @ \ {v}]
        BY <4>2, <4>3 DEF Collections
      <4>4. CASE gc' = [gc EXCEPT !.pc = "rmBin", !.ver = v, !.todo = @ \ {v}]
        BY <4>2, <4>4 DEF Collections
      <4>5. QED
        BY <4>1, <4>3, <4>4
    <3>2. raced' \in SUBSET Volumes /\ torn' \in SUBSET Versions
      BY <2>3 DEF GCScan, InFlight, Collections
    <3>3. QED
      BY <2>3, <3>1, <3>2 DEF GCScan
  <2>4. CASE GCRemoveSome \/ GCRemoveBin
    <3>1. gc' \in Collections
      BY <2>4 DEF GCRemoveSome, GCRemoveBin, Collections
    <3>2. bin' \in [Versions -> {"absent", "partial", "full"}]
      BY <2>4 DEF GCRemoveSome, GCRemoveBin
    <3>3. faults' \in Nat
      BY <2>4 DEF GCRemoveSome, GCRemoveBin
    <3>4. cut' \in SUBSET Versions
      BY <2>4 DEF GCRemoveSome, GCRemoveBin, ControllerInv, Collections
    <3>5. QED
      BY <2>4, <3>1, <3>2, <3>3, <3>4 DEF GCRemoveSome, GCRemoveBin
  <2>5. CASE GCRemoveRefs
    <3>1. gc' \in Collections
      BY <2>5 DEF GCRemoveRefs, Collections
    <3>2. refDir' \in SUBSET Versions /\ ref' \in [Versions -> SUBSET Volumes]
      BY <2>5 DEF GCRemoveRefs
    <3>3. faults' \in Nat
      BY <2>5 DEF GCRemoveRefs
    <3>4. QED
      BY <2>5, <3>1, <3>2, <3>3 DEF GCRemoveRefs
  <2>6. CASE GCDone
    BY <2>6 DEF GCDone
  <2>7. QED
    BY <1>3, <2>1, <2>2, <2>3, <2>4, <2>5, <2>6 DEF CollectGarbage
<1>4. CASE Provision
  <2>0. prov.pc # "idle" => prov.ver \in Versions
    BY DEF ControllerInv, Provisions
  <2>1. CASE ProvStart
    BY <2>1 DEF ProvStart, InFlight, Provisions
  <2>2. CASE ProvStat
    BY <2>2 DEF ProvStat, Provisions
  <2>3. CASE ProvUnzip
    BY <2>0, <2>3 DEF ProvUnzip, Provisions
  <2>4. CASE ProvUnzipped
    BY <2>0, <2>4 DEF ProvUnzipped, Provisions
  <2>5. CASE ProvInstallFails
    <3>1. cut' \in SUBSET Versions
      BY <2>0, <2>5 DEF ProvInstallFails
    <3>2. bin' \in [Versions -> {"absent", "partial", "full"}]
      BY <2>0, <2>5 DEF ProvInstallFails
    <3>3. QED
      BY <2>5, <3>1, <3>2 DEF ProvInstallFails
  <2>6. CASE ProvWriteVersion
    BY <2>0, <2>6 DEF ProvWriteVersion
  <2>7. QED
    BY <1>4, <2>1, <2>2, <2>3, <2>4, <2>5, <2>6 DEF Provision
<1>5. CASE Release
  BY <1>5 DEF Release
<1>6. CASE UpdateStatus
  BY <1>6 DEF UpdateStatus
<1>7. CASE Crash
  <2>1. cut' \in SUBSET Versions
    BY <1>7 DEF Crash, ControllerInv, Provisions
  <2>2. op' \in [Volumes -> Calls] /\ metric' \in [Versions -> Int]
    BY <1>7 DEF Crash
  <2>3. QED
    BY <1>7, <2>1, <2>2 DEF Crash
<1>8. CASE UNCHANGED vars
  BY <1>8 DEF vars
<1>9. QED
  BY <1>1, <1>2, <1>3, <1>4, <1>5, <1>6, <1>7, <1>8 DEF Next

-----------------------------------------------------------------------------
(* A call touches nothing of the other volumes.                            *)

\* A step leaves alone whatever the invariant says of volume u.
Undisturbed(u) ==
    /\ UNCHANGED <<bin, gc, prov>>
    /\ refDir \subseteq refDir'
    /\ op'[u] = op[u] /\ pod'[u] = pod[u] /\ meta'[u] = meta[u]
    /\ target'[u] = target[u] /\ overlay'[u] = overlay[u]
    /\ \A v \in Versions : u \in ref'[v] <=> u \in ref[v]
    /\ (u \in raced') <=> (u \in raced)
    /\ faults <= faults' /\ crashes' = crashes

\* A call of vol leaves the other volumes alone.
LEMMA OthersUndisturbed ==
    ASSUME TypeOK, NEW vol \in Volumes, NEW u \in Volumes \ {vol},
           Publish(vol) \/ PodDeleted(vol) \/ Unpublish(vol)
    PROVE  Undisturbed(u)
<1> USE DEF TypeOK, Undisturbed, disk, mounts, world, history, restarts,
            Fault, NoFault, FailsIf
<1>1. CASE PublishMounted(vol)
  BY <1>1 DEF PublishMounted
<1>2. CASE PublishReadVersion(vol)
  BY <1>2 DEF PublishReadVersion
<1>3. CASE PublishMkRefDir(vol)
  BY <1>3, GotoEffect, ReturnEffect DEF PublishMkRefDir
<1>4. CASE PublishOverlay(vol)
  BY <1>4, GotoEffect, ReturnEffect DEF PublishOverlay
<1>5. CASE PublishBind(vol)
  BY <1>5, GotoEffect, ReturnEffect DEF PublishBind
<1>6. CASE PublishUsageFile(vol)
  <2>1. \A v \in Versions : u \in ref'[v] <=> u \in ref[v]
    BY <1>6 DEF PublishUsageFile
  <2>2. QED
    BY <1>6, <2>1, GotoEffect, ReturnEffect DEF PublishUsageFile
<1>7. CASE PublishMetadata(vol)
  BY <1>7, ReturnEffect DEF PublishMetadata
<1>8. CASE PodDeleted(vol)
  BY <1>8 DEF PodDeleted
<1>9. CASE UnpublishLoad(vol)
  BY <1>9 DEF UnpublishLoad
<1>10. CASE UnpublishUmount(vol)
  BY <1>10, GotoEffect DEF UnpublishUmount
<1>10a. CASE UnpublishUmountOverlay(vol)
  BY <1>10a, GotoEffect DEF UnpublishUmountOverlay
<1>11. CASE UnpublishRmUsage(vol)
  <2>1. \A v \in Versions : u \in ref'[v] <=> u \in ref[v]
    <3>1. CASE ref' = ref
      BY <3>1
    <3>2. CASE ref' = [ref EXCEPT ![op[vol].ver] = @ \ {vol}]
      BY <3>2
    <3>3. QED
      BY <1>11, <3>1, <3>2 DEF UnpublishRmUsage
  <2>2. QED
    BY <1>11, <2>1, GotoEffect, ReturnEffect DEF UnpublishRmUsage
<1>12. CASE UnpublishRmMeta(vol)
  BY <1>12, GotoEffect, ReturnEffect DEF UnpublishRmMeta
<1>13. CASE UnpublishRmTarget(vol)
  BY <1>13, ReturnEffect DEF UnpublishRmTarget
<1>14. QED
  BY <1>1, <1>2, <1>3, <1>4, <1>5, <1>6, <1>7, <1>8, <1>9, <1>10, <1>10a,
     <1>11, <1>12, <1>13 DEF Publish, Unpublish

-----------------------------------------------------------------------------
(* What holds of a volume whatever crashes or fails.                       *)

\* The part of the properties that is about the references of vol.
ReferenceInv(vol) ==
    /\ \A v \in Versions : vol \in ref[v] => bin[v] # "absent"
    /\ (meta[vol] # None /\ op[vol].pc # "rmMeta" /\ pod[vol] # "dying")
          => vol \in ref[meta[vol]]

SafeVolume(vol) ==
    /\ CallInv(vol)
    /\ vol \notin raced => RaceInv(vol) /\ FootingInv(vol) /\ ReferenceInv(vol)

\* A volume that a step leaves alone stays safe.
LEMMA UndisturbedIsSafe ==
    ASSUME TypeOK, NEW u \in Volumes, SafeVolume(u), Undisturbed(u)
    PROVE  SafeVolume(u)'
<1>1. CallInv(u)'
  BY DEF SafeVolume, Undisturbed, CallInv, Publishing
<1>2. /\ \A v \in Versions : /\ Removing(v)' <=> Removing(v)
                             /\ Installing(v)' <=> Installing(v)
                             /\ Unsafe(v)' <=> Unsafe(v)
      /\ Publishing(u)' <=> Publishing(u)
  BY DEF Undisturbed, Removing, Installing, Unsafe, Publishing
<1>3. /\ Publishing(u) => op[u].ver \in Versions
      /\ meta[u] # None => meta[u] \in Versions
  BY NoneIsNoVersion DEF SafeVolume, CallInv, TypeOK, Calls
<1>4. ASSUME u \notin raced
      PROVE  RaceInv(u)' /\ FootingInv(u)' /\ ReferenceInv(u)'
  <2>1. RaceInv(u)'
    BY <1>2, <1>4 DEF SafeVolume, RaceInv, Undisturbed
  <2>2. FootingInv(u)'
    BY <1>3, <1>4 DEF SafeVolume, FootingInv, Undisturbed, Publishing
  <2>3. ReferenceInv(u)'
    BY <1>3, <1>4 DEF SafeVolume, ReferenceInv, Undisturbed
  <2>4. QED
    BY <2>1, <2>2, <2>3
<1>5. QED
  BY <1>1, <1>4 DEF SafeVolume, Undisturbed

\* A call of vol keeps vol safe.
LEMMA CallKeepsSafe ==
    ASSUME TypeOK, ControllerInv, NEW vol \in Volumes, SafeVolume(vol),
           Publish(vol) \/ PodDeleted(vol) \/ Unpublish(vol)
    PROVE  SafeVolume(vol)'
<1> USE DEF disk, mounts, world, history, restarts
<1>0. /\ Publishing(vol) => op[vol].ver \in Versions
      /\ meta[vol] # None => meta[vol] \in Versions
      /\ versionFile # None => versionFile \in Versions
  BY NoneIsNoVersion DEF SafeVolume, CallInv, TypeOK, Calls
<1>a. CallInv(vol)
  BY DEF SafeVolume
<1>b. ASSUME UNCHANGED <<bin, gc, prov>>
      PROVE  \A v \in Versions : /\ Removing(v)' <=> Removing(v)
                                 /\ Installing(v)' <=> Installing(v)
                                 /\ Unsafe(v)' <=> Unsafe(v)
  BY <1>b DEF Removing, Installing, Unsafe
<1>1. CASE PublishMounted(vol)
  <2>1. /\ UNCHANGED <<bin, gc, prov>> /\ refDir \subseteq refDir'
        /\ UNCHANGED <<op, ref, meta, raced>>
        /\ pod[vol] = "wanted" /\ pod'[vol] = "published"
        /\ op[vol].pc = "idle"
    BY <1>1, <1>0 DEF PublishMounted, TypeOK
  <2>2. CallInv(vol)'
    BY <1>a, <2>1 DEF CallInv, Publishing
  <2>3. vol \notin raced' => RaceInv(vol)'
    BY <1>0, <1>a, <1>b, <2>1 DEF SafeVolume, CallInv, RaceInv, Publishing
  <2>4. vol \notin raced' => FootingInv(vol)'
    BY <1>0, <1>a, <2>1 DEF SafeVolume, CallInv, FootingInv, Publishing
  <2>5. vol \notin raced' => ReferenceInv(vol)'
    BY <1>0, <1>a, <2>1 DEF SafeVolume, CallInv, ReferenceInv, FootingInv, Publishing
  <2>6. QED
    BY <2>2, <2>3, <2>4, <2>5 DEF SafeVolume
<1>2. CASE PublishReadVersion(vol)
  <2>1. /\ UNCHANGED <<bin, gc, prov>> /\ refDir \subseteq refDir'
        /\ UNCHANGED <<ref, meta, pod>>
        /\ pod[vol] = "wanted" /\ versionFile # None
        /\ op'[vol].pc = "mkdir" /\ op'[vol].ver = versionFile
        /\ raced \subseteq raced' /\ (Removing(versionFile) => vol \in raced')
    BY <1>2, <1>0 DEF PublishReadVersion, TypeOK
  <2>2. CallInv(vol)'
    BY <1>a, <2>1 DEF CallInv, Publishing
  <2>3. vol \notin raced' => RaceInv(vol)'
    BY <1>0, <1>a, <1>b, <2>1
       DEF SafeVolume, CallInv, RaceInv, Publishing, ControllerInv, Installing
  <2>4. vol \notin raced' => FootingInv(vol)'
    BY <1>0, <1>a, <2>1 DEF SafeVolume, CallInv, FootingInv, Publishing
  <2>5. vol \notin raced' => ReferenceInv(vol)'
    BY <1>0, <1>a, <2>1 DEF SafeVolume, CallInv, ReferenceInv, FootingInv, Publishing
  <2>6. QED
    BY <2>2, <2>3, <2>4, <2>5 DEF SafeVolume
<1>3. CASE PublishMkRefDir(vol)
  <2>1. /\ UNCHANGED <<bin, gc, prov>> /\ refDir \subseteq refDir'
        /\ UNCHANGED <<ref, meta, pod, raced>>
        /\ op[vol].pc = "mkdir" /\ op'[vol].pc \in {"overlay", "idle"}
        /\ op'[vol].pc = "overlay"
              => op'[vol].ver = op[vol].ver /\ op[vol].ver \in refDir'
    BY <1>3, <1>0, GotoEffect, ReturnEffect, IdleTypes DEF PublishMkRefDir, TypeOK
  <2>2. CallInv(vol)'
    BY <1>a, <2>1 DEF CallInv, Publishing
  <2>3. vol \notin raced' => RaceInv(vol)'
    BY <1>0, <1>a, <1>b, <2>1 DEF SafeVolume, CallInv, RaceInv, Publishing
  <2>4. vol \notin raced' => FootingInv(vol)'
    BY <1>0, <1>a, <2>1 DEF SafeVolume, CallInv, FootingInv, Publishing
  <2>5. vol \notin raced' => ReferenceInv(vol)'
    BY <1>0, <1>a, <2>1 DEF SafeVolume, CallInv, ReferenceInv, FootingInv, Publishing
  <2>6. QED
    BY <2>2, <2>3, <2>4, <2>5 DEF SafeVolume
<1>4. CASE PublishOverlay(vol)
  <2>1. /\ UNCHANGED <<bin, gc, prov>> /\ refDir \subseteq refDir'
        /\ UNCHANGED <<ref, meta, pod, raced>>
        /\ op[vol].pc = "overlay" /\ op'[vol].pc \in {"bind", "idle"}
        /\ op'[vol].pc = "bind"
              => op'[vol].ver = op[vol].ver /\ bin[op[vol].ver] # "absent"
    BY <1>4, <1>0, GotoEffect, ReturnEffect, IdleTypes DEF PublishOverlay, TypeOK
  <2>2. CallInv(vol)'
    BY <1>a, <2>1 DEF CallInv, Publishing
  <2>3. vol \notin raced' => RaceInv(vol)'
    BY <1>0, <1>a, <1>b, <2>1 DEF SafeVolume, CallInv, RaceInv, Publishing
  <2>4. vol \notin raced' => FootingInv(vol)'
    BY <1>0, <1>a, <2>1 DEF SafeVolume, CallInv, FootingInv, Publishing
  <2>5. vol \notin raced' => ReferenceInv(vol)'
    BY <1>0, <1>a, <2>1 DEF SafeVolume, CallInv, ReferenceInv, FootingInv, Publishing
  <2>6. QED
    BY <2>2, <2>3, <2>4, <2>5 DEF SafeVolume
<1>5. CASE PublishBind(vol)
  <2>1. /\ UNCHANGED <<bin, gc, prov>> /\ refDir \subseteq refDir'
        /\ UNCHANGED <<ref, meta, pod, raced>>
        /\ op[vol].pc = "bind" /\ op'[vol].pc \in {"usage", "idle"}
        /\ op'[vol].pc = "usage" => op'[vol].ver = op[vol].ver
    BY <1>5, <1>0, GotoEffect, ReturnEffect, IdleTypes DEF PublishBind, TypeOK
  <2>2. CallInv(vol)'
    BY <1>a, <2>1 DEF CallInv, Publishing
  <2>3. vol \notin raced' => RaceInv(vol)'
    BY <1>0, <1>a, <1>b, <2>1 DEF SafeVolume, CallInv, RaceInv, Publishing
  <2>4. vol \notin raced' => FootingInv(vol)'
    BY <1>0, <1>a, <2>1 DEF SafeVolume, CallInv, FootingInv, Publishing
  <2>5. vol \notin raced' => ReferenceInv(vol)'
    BY <1>0, <1>a, <2>1 DEF SafeVolume, CallInv, ReferenceInv, FootingInv, Publishing
  <2>6. QED
    BY <2>2, <2>3, <2>4, <2>5 DEF SafeVolume
<1>6. CASE PublishUsageFile(vol)
  <2>1. /\ UNCHANGED <<bin, gc, prov>> /\ refDir \subseteq refDir'
        /\ UNCHANGED <<meta, pod, raced>>
        /\ op[vol].pc = "usage" /\ op'[vol].pc \in {"metadata", "idle"}
        /\ op'[vol].pc = "metadata"
              => op'[vol].ver = op[vol].ver /\ vol \in ref'[op[vol].ver]
        /\ \A v \in Versions : ref[v] \subseteq ref'[v]
        /\ \A v \in Versions : vol \in ref'[v] => vol \in ref[v] \/ v = op[vol].ver
    <3>1. op[vol].pc = "usage" /\ op[vol].ver \in Versions
      BY <1>6, <1>0 DEF PublishUsageFile, Publishing
    <3>2. CASE Return(vol) /\ ref' = ref
      BY <1>6, <3>1, <3>2, ReturnEffect, IdleTypes DEF PublishUsageFile, TypeOK
    <3>3. CASE Goto(vol, "metadata") /\ ref' = [ref EXCEPT ![op[vol].ver] = @ \cup {vol}]
      BY <1>6, <3>1, <3>3, GotoEffect DEF PublishUsageFile, TypeOK
    <3>4. QED
      BY <1>6, <3>2, <3>3 DEF PublishUsageFile
  <2>2. CallInv(vol)'
    BY <1>a, <2>1 DEF CallInv, Publishing
  <2>3. vol \notin raced' => RaceInv(vol)'
    BY <1>0, <1>a, <1>b, <2>1
       DEF SafeVolume, CallInv, RaceInv, Publishing, Unsafe, Installing
  <2>4. vol \notin raced' => FootingInv(vol)'
    BY <1>0, <1>a, <2>1 DEF SafeVolume, CallInv, FootingInv, Publishing
  <2>5. vol \notin raced' => ReferenceInv(vol)'
    BY <1>0, <1>a, <2>1 DEF SafeVolume, CallInv, ReferenceInv, FootingInv, Publishing
  <2>6. QED
    BY <2>2, <2>3, <2>4, <2>5 DEF SafeVolume
<1>7. CASE PublishMetadata(vol)
  <2>1. /\ UNCHANGED <<bin, gc, prov>> /\ refDir \subseteq refDir'
        /\ UNCHANGED <<ref, raced>>
        /\ op[vol].pc = "metadata" /\ op'[vol].pc = "idle"
        /\ \/ UNCHANGED <<meta, pod>>
           \/ meta'[vol] = op[vol].ver /\ pod'[vol] = "published"
    BY <1>7, <1>0, GotoEffect, ReturnEffect, IdleTypes DEF PublishMetadata, TypeOK
  <2>2. CallInv(vol)'
    BY <1>a, <2>1 DEF CallInv, Publishing
  <2>3. vol \notin raced' => RaceInv(vol)'
    BY <1>0, <1>a, <1>b, <2>1 DEF SafeVolume, CallInv, RaceInv, Publishing
  <2>4. vol \notin raced' => FootingInv(vol)'
    BY <1>0, <1>a, <2>1 DEF SafeVolume, CallInv, FootingInv, Publishing
  <2>5. vol \notin raced' => ReferenceInv(vol)'
    BY <1>0, <1>a, <2>1 DEF SafeVolume, CallInv, ReferenceInv, FootingInv, Publishing
  <2>6. QED
    BY <2>2, <2>3, <2>4, <2>5 DEF SafeVolume
<1>8. CASE PodDeleted(vol)
  <2>1. /\ UNCHANGED <<bin, gc, prov>> /\ refDir \subseteq refDir'
        /\ UNCHANGED <<op, ref, meta, raced>>
        /\ pod'[vol] = "dying" /\ op[vol].pc = "idle"
    BY <1>8, <1>0 DEF PodDeleted, TypeOK
  <2>2. CallInv(vol)'
    BY <1>a, <2>1 DEF CallInv, Publishing
  <2>3. vol \notin raced' => RaceInv(vol)'
    BY <1>0, <1>a, <1>b, <2>1 DEF SafeVolume, CallInv, RaceInv, Publishing
  <2>4. vol \notin raced' => FootingInv(vol)'
    BY <1>0, <1>a, <2>1 DEF SafeVolume, CallInv, FootingInv, Publishing
  <2>5. vol \notin raced' => ReferenceInv(vol)'
    BY <1>0, <1>a, <2>1 DEF SafeVolume, CallInv, ReferenceInv, FootingInv, Publishing
  <2>6. QED
    BY <2>2, <2>3, <2>4, <2>5 DEF SafeVolume
<1>9. CASE UnpublishLoad(vol)
  <2>1. /\ UNCHANGED <<bin, gc, prov>> /\ refDir \subseteq refDir'
        /\ UNCHANGED <<ref, meta, pod, raced>>
        /\ pod[vol] = "dying" /\ op'[vol].pc = "umount"
    BY <1>9, <1>0 DEF UnpublishLoad, TypeOK
  <2>2. CallInv(vol)'
    BY <1>a, <2>1 DEF CallInv, Publishing
  <2>3. vol \notin raced' => RaceInv(vol)'
    BY <1>0, <1>a, <1>b, <2>1 DEF SafeVolume, CallInv, RaceInv, Publishing
  <2>4. vol \notin raced' => FootingInv(vol)'
    BY <1>0, <1>a, <2>1 DEF SafeVolume, CallInv, FootingInv, Publishing
  <2>5. vol \notin raced' => ReferenceInv(vol)'
    BY <1>0, <1>a, <2>1 DEF SafeVolume, CallInv, ReferenceInv, FootingInv, Publishing
  <2>6. QED
    BY <2>2, <2>3, <2>4, <2>5 DEF SafeVolume
<1>10. CASE UnpublishUmount(vol)
  <2>1. /\ UNCHANGED <<bin, gc, prov>> /\ refDir \subseteq refDir'
        /\ UNCHANGED <<ref, meta, pod, raced>>
        /\ op[vol].pc = "umount" /\ op'[vol].pc = "umountOverlay"
    BY <1>10, <1>0, GotoEffect DEF UnpublishUmount, TypeOK
  <2>2. CallInv(vol)'
    BY <1>a, <2>1 DEF CallInv, Publishing
  <2>3. vol \notin raced' => RaceInv(vol)'
    BY <1>0, <1>a, <1>b, <2>1 DEF SafeVolume, CallInv, RaceInv, Publishing
  <2>4. vol \notin raced' => FootingInv(vol)'
    BY <1>0, <1>a, <2>1 DEF SafeVolume, CallInv, FootingInv, Publishing
  <2>5. vol \notin raced' => ReferenceInv(vol)'
    BY <1>0, <1>a, <2>1 DEF SafeVolume, CallInv, ReferenceInv, FootingInv, Publishing
  <2>6. QED
    BY <2>2, <2>3, <2>4, <2>5 DEF SafeVolume
<1>10a. CASE UnpublishUmountOverlay(vol)
  <2>1. /\ UNCHANGED <<bin, gc, prov>> /\ refDir \subseteq refDir'
        /\ UNCHANGED <<ref, meta, pod, raced>>
        /\ op[vol].pc = "umountOverlay" /\ op'[vol].pc = "rmUsage"
    BY <1>10a, <1>0, GotoEffect DEF UnpublishUmountOverlay, TypeOK
  <2>2. CallInv(vol)'
    BY <1>a, <2>1 DEF CallInv, Publishing
  <2>3. vol \notin raced' => RaceInv(vol)'
    BY <1>0, <1>a, <1>b, <2>1 DEF SafeVolume, CallInv, RaceInv, Publishing
  <2>4. vol \notin raced' => FootingInv(vol)'
    BY <1>0, <1>a, <2>1 DEF SafeVolume, CallInv, FootingInv, Publishing
  <2>5. vol \notin raced' => ReferenceInv(vol)'
    BY <1>0, <1>a, <2>1 DEF SafeVolume, CallInv, ReferenceInv, FootingInv, Publishing
  <2>6. QED
    BY <2>2, <2>3, <2>4, <2>5 DEF SafeVolume
<1>11. CASE UnpublishRmUsage(vol)
  <2>1. /\ UNCHANGED <<bin, gc, prov>> /\ refDir \subseteq refDir'
        /\ UNCHANGED <<meta, pod, raced>>
        /\ op[vol].pc = "rmUsage" /\ op'[vol].pc \in {"rmMeta", "idle"}
        /\ \A v \in Versions : vol \in ref'[v] => vol \in ref[v]
    BY <1>11, <1>0, GotoEffect, ReturnEffect, IdleTypes DEF UnpublishRmUsage, TypeOK
  <2>2. CallInv(vol)'
    BY <1>a, <2>1 DEF CallInv, Publishing
  <2>3. vol \notin raced' => RaceInv(vol)'
    BY <1>0, <1>a, <1>b, <2>1 DEF SafeVolume, CallInv, RaceInv, Publishing
  <2>4. vol \notin raced' => FootingInv(vol)'
    BY <1>0, <1>a, <2>1 DEF SafeVolume, CallInv, FootingInv, Publishing
  <2>5. vol \notin raced' => ReferenceInv(vol)'
    BY <1>0, <1>a, <2>1 DEF SafeVolume, CallInv, ReferenceInv, FootingInv, Publishing
  <2>6. QED
    BY <2>2, <2>3, <2>4, <2>5 DEF SafeVolume
<1>12. CASE UnpublishRmMeta(vol)
  <2>1. /\ UNCHANGED <<bin, gc, prov>> /\ refDir \subseteq refDir'
        /\ UNCHANGED <<ref, pod, raced>>
        /\ op[vol].pc = "rmMeta" /\ op'[vol].pc \in {"rmTarget", "idle"}
        /\ op'[vol].pc = "rmTarget" => meta'[vol] = None
        /\ meta'[vol] \in {meta[vol], None}
    BY <1>12, <1>0, GotoEffect, ReturnEffect, IdleTypes DEF UnpublishRmMeta, TypeOK
  <2>2. CallInv(vol)'
    BY <1>a, <2>1 DEF CallInv, Publishing
  <2>3. vol \notin raced' => RaceInv(vol)'
    BY <1>0, <1>a, <1>b, <2>1 DEF SafeVolume, CallInv, RaceInv, Publishing
  <2>4. vol \notin raced' => FootingInv(vol)'
    BY <1>0, <1>a, <2>1 DEF SafeVolume, CallInv, FootingInv, Publishing
  <2>5. vol \notin raced' => ReferenceInv(vol)'
    BY <1>0, <1>a, <2>1 DEF SafeVolume, CallInv, ReferenceInv, FootingInv, Publishing
  <2>6. QED
    BY <2>2, <2>3, <2>4, <2>5 DEF SafeVolume
<1>13. CASE UnpublishRmTarget(vol)
  <2>1. /\ UNCHANGED <<bin, gc, prov>> /\ refDir \subseteq refDir'
        /\ UNCHANGED <<ref, meta, raced>>
        /\ op[vol].pc = "rmTarget" /\ op'[vol].pc = "idle"
        /\ pod'[vol] \in {pod[vol], "gone"}
    BY <1>13, <1>0, GotoEffect, ReturnEffect, IdleTypes DEF UnpublishRmTarget, TypeOK
  <2>2. CallInv(vol)'
    BY <1>a, <2>1 DEF CallInv, Publishing
  <2>3. vol \notin raced' => RaceInv(vol)'
    BY <1>0, <1>a, <1>b, <2>1 DEF SafeVolume, CallInv, RaceInv, Publishing
  <2>4. vol \notin raced' => FootingInv(vol)'
    BY <1>0, <1>a, <2>1 DEF SafeVolume, CallInv, FootingInv, Publishing
  <2>5. vol \notin raced' => ReferenceInv(vol)'
    BY <1>0, <1>a, <2>1 DEF SafeVolume, CallInv, ReferenceInv, FootingInv, Publishing
  <2>6. QED
    BY <2>2, <2>3, <2>4, <2>5 DEF SafeVolume
<1>14. QED
  BY <1>1, <1>2, <1>3, <1>4, <1>5, <1>6, <1>7, <1>8, <1>9, <1>10, <1>10a,
     <1>11, <1>12, <1>13 DEF Publish, Unpublish

\* The controllers, the environment and a crash keep every volume safe.
LEMMA OthersKeepSafe ==
    ASSUME TypeOK, ControllerInv, NEW u \in Volumes, SafeVolume(u),
           \/ CollectGarbage \/ Provision
           \/ Release \/ UpdateStatus \/ Crash \/ UNCHANGED vars
    PROVE  SafeVolume(u)'
<1> USE DEF disk, mounts, world, history, restarts
<1>0. /\ Publishing(u) => op[u].ver \in Versions
      /\ meta[u] # None => meta[u] \in Versions
      /\ gc.pc \in {"rmBin", "rmRest", "rmRefs"} => gc.ver \in Versions
      /\ prov.pc # "idle" => prov.ver \in Versions
  BY NoneIsNoVersion
     DEF SafeVolume, CallInv, TypeOK, Calls, ControllerInv, Collections, Provisions
<1>a. CallInv(u)
  BY DEF SafeVolume
<1>1. CASE GCQuery \/ GCList \/ GCDone
  <2>1. /\ UNCHANGED <<op, pod, meta>>
        /\ UNCHANGED <<bin, ref, refDir, prov, raced>>
        /\ gc'.pc \notin {"rmBin", "rmRest", "rmRefs"}
    <3>1. CASE GCQuery
      BY <3>1 DEF GCQuery, TypeOK, Collections
    <3>2. CASE GCList
      BY <3>2 DEF GCList, TypeOK, Collections
    <3>3. CASE GCDone
      BY <3>3, IdleTypes DEF GCDone
    <3>4. QED
      BY <1>1, <3>1, <3>2, <3>3
  <2>2. CallInv(u)'
    BY <1>a, <2>1 DEF CallInv, Publishing
  <2>3. u \notin raced' => RaceInv(u)'
    BY <1>0, <1>a, <2>1
       DEF SafeVolume, RaceInv, Removing, Installing, Unsafe, Publishing,
           CallInv, ReferenceInv
  <2>4. u \notin raced' => FootingInv(u)'
    BY <1>0, <1>a, <2>1
       DEF SafeVolume, FootingInv, RaceInv, Removing, Installing, Publishing
  <2>5. u \notin raced' => ReferenceInv(u)'
    BY <1>0, <1>a, <2>1
       DEF SafeVolume, ReferenceInv, RaceInv, Removing, Unsafe
  <2>6. QED
    BY <2>2, <2>3, <2>4, <2>5 DEF SafeVolume
<1>2. CASE GCScan
  <2>1. /\ UNCHANGED <<op, pod, meta>>
        /\ UNCHANGED <<bin, ref, refDir, prov>> /\ gc.pc = "scan"
        /\ \/ raced' = raced /\ gc'.pc = "scan"
           \/ /\ gc'.ver \in Versions /\ ref[gc'.ver] = {}
              /\ raced \subseteq raced'
              /\ Publishing(u) /\ op[u].ver = gc'.ver => u \in raced'
    <3>1. PICK v \in gc.todo :
             \/ /\ shouldDelete(v)
                /\ gc' = [gc EXCEPT !.pc = "rmBin", !.ver = v, !.todo = @ \ {v}]
                /\ raced' = raced \cup InFlight(v)
             \/ gc' = [gc EXCEPT !.todo = @ \ {v}] /\ raced' = raced
      BY <1>2 DEF GCScan
    <3>2. v \in Versions /\ gc.pc = "scan"
      BY <1>2, <3>1 DEF GCScan, TypeOK, Collections
    <3>3. CASE gc' = [gc EXCEPT !.todo = @ \ {v}] /\ raced' = raced
      BY <1>2, <3>2, <3>3 DEF GCScan, TypeOK, Collections
    <3>4. CASE /\ shouldDelete(v)
               /\ gc' = [gc EXCEPT !.pc = "rmBin", !.ver = v, !.todo = @ \ {v}]
               /\ raced' = raced \cup InFlight(v)
      <4>1. gc'.ver = v
        BY <3>4 DEF TypeOK, Collections
      <4>2. QED
        BY <1>2, <3>2, <3>4, <4>1 DEF GCScan, shouldDelete, InFlight
    <3>5. QED
      BY <3>1, <3>3, <3>4
  <2>2. CallInv(u)'
    BY <1>a, <2>1 DEF CallInv, Publishing
  <2>3. u \notin raced' => RaceInv(u)'
    BY <1>0, <1>a, <2>1
       DEF SafeVolume, RaceInv, Removing, Installing, Unsafe, Publishing,
           CallInv, ReferenceInv
  <2>4. u \notin raced' => FootingInv(u)'
    BY <1>0, <1>a, <2>1
       DEF SafeVolume, FootingInv, RaceInv, Removing, Installing, Publishing
  <2>5. u \notin raced' => ReferenceInv(u)'
    BY <1>0, <1>a, <2>1
       DEF SafeVolume, ReferenceInv, RaceInv, Removing, Unsafe
  <2>6. QED
    BY <2>2, <2>3, <2>4, <2>5 DEF SafeVolume
<1>3. CASE GCRemoveSome \/ GCRemoveBin
  <2>1. /\ UNCHANGED <<op, pod, meta>>
        /\ UNCHANGED <<ref, refDir, prov, raced>>
        /\ gc.pc \in {"rmBin", "rmRest"} /\ gc'.pc \in {"rmRest", "rmRefs"}
        /\ gc'.ver = gc.ver
        /\ \A v \in Versions \ {gc.ver} : bin'[v] = bin[v]
    BY <1>3, <1>0 DEF GCRemoveSome, GCRemoveBin, TypeOK, Collections
  <2>2. CallInv(u)'
    BY <1>a, <2>1 DEF CallInv, Publishing
  <2>3. u \notin raced' => RaceInv(u)'
    BY <1>0, <1>a, <2>1
       DEF SafeVolume, RaceInv, Removing, Installing, Unsafe, Publishing,
           CallInv, ReferenceInv
  <2>4. u \notin raced' => FootingInv(u)'
    BY <1>0, <1>a, <2>1
       DEF SafeVolume, FootingInv, RaceInv, Removing, Installing, Publishing
  <2>5. u \notin raced' => ReferenceInv(u)'
    BY <1>0, <1>a, <2>1
       DEF SafeVolume, ReferenceInv, RaceInv, Removing, Unsafe
  <2>6. QED
    BY <2>2, <2>3, <2>4, <2>5 DEF SafeVolume
<1>4. CASE GCRemoveRefs
  <2>1. /\ UNCHANGED <<op, pod, meta>>
        /\ UNCHANGED <<bin, prov, raced>>
        /\ gc.pc = "rmRefs" /\ gc'.pc = "scan"
        /\ \A v \in Versions \ {gc.ver} : v \in refDir => v \in refDir'
        /\ \A v \in Versions \ {gc.ver} : ref'[v] = ref[v]
        /\ \A v \in Versions : ref'[v] \subseteq ref[v]
    BY <1>4, <1>0 DEF GCRemoveRefs, TypeOK, Collections
  <2>2. CallInv(u)'
    BY <1>a, <2>1 DEF CallInv, Publishing
  <2>3. u \notin raced' => RaceInv(u)'
    BY <1>0, <1>a, <2>1
       DEF SafeVolume, RaceInv, Removing, Installing, Unsafe, Publishing,
           CallInv, ReferenceInv
  <2>4. u \notin raced' => FootingInv(u)'
    BY <1>0, <1>a, <2>1
       DEF SafeVolume, FootingInv, RaceInv, Removing, Installing, Publishing
  <2>5. u \notin raced' => ReferenceInv(u)'
    BY <1>0, <1>a, <2>1
       DEF SafeVolume, ReferenceInv, RaceInv, Removing, Unsafe
  <2>6. QED
    BY <2>2, <2>3, <2>4, <2>5 DEF SafeVolume
<1>5. CASE ProvStart
  <2>1. /\ UNCHANGED <<op, pod, meta>>
        /\ UNCHANGED <<bin, ref, gc>> /\ refDir \subseteq refDir'
        /\ raced \subseteq raced'
        /\ \/ UNCHANGED prov
           \/ /\ prov'.pc = "stat"
              /\ Publishing(u) /\ op[u].ver = prov'.ver => u \in raced'
    BY <1>5, <1>0 DEF ProvStart, InFlight, TypeOK
  <2>2. CallInv(u)'
    BY <1>a, <2>1 DEF CallInv, Publishing
  <2>3. u \notin raced' => RaceInv(u)'
    BY <1>0, <1>a, <2>1
       DEF SafeVolume, RaceInv, Removing, Installing, Unsafe, Publishing,
           CallInv, ReferenceInv
  <2>4. u \notin raced' => FootingInv(u)'
    BY <1>0, <1>a, <2>1
       DEF SafeVolume, FootingInv, RaceInv, Removing, Installing, Publishing
  <2>5. u \notin raced' => ReferenceInv(u)'
    BY <1>0, <1>a, <2>1
       DEF SafeVolume, ReferenceInv, RaceInv, Removing, Unsafe
  <2>6. QED
    BY <2>2, <2>3, <2>4, <2>5 DEF SafeVolume
<1>6. CASE ProvStat
  <2>1. /\ UNCHANGED <<op, pod, meta>>
        /\ UNCHANGED <<bin, ref, refDir, gc, raced>>
        /\ prov.pc = "stat" /\ prov'.ver = prov.ver
        /\ \/ prov'.pc = "write"
           \/ prov'.pc = "install" /\ bin[prov.ver] = "absent"
    BY <1>6, <1>0 DEF ProvStat, TypeOK, Provisions
  <2>2. CallInv(u)'
    BY <1>a, <2>1 DEF CallInv, Publishing
  <2>3. u \notin raced' => RaceInv(u)'
    BY <1>0, <1>a, <2>1
       DEF SafeVolume, RaceInv, Removing, Installing, Unsafe, Publishing,
           CallInv, ReferenceInv
  <2>4. u \notin raced' => FootingInv(u)'
    BY <1>0, <1>a, <2>1
       DEF SafeVolume, FootingInv, RaceInv, Removing, Installing, Publishing
  <2>5. u \notin raced' => ReferenceInv(u)'
    BY <1>0, <1>a, <2>1
       DEF SafeVolume, ReferenceInv, RaceInv, Removing, Unsafe
  <2>6. QED
    BY <2>2, <2>3, <2>4, <2>5 DEF SafeVolume
<1>7. CASE ProvUnzip \/ ProvUnzipped
  <2>1. /\ UNCHANGED <<op, pod, meta>>
        /\ UNCHANGED <<ref, refDir, gc, raced>>
        /\ prov.pc \in {"install", "unzip"} /\ prov'.ver = prov.ver
        /\ prov'.pc \in {"unzip", "write"}
        /\ \A v \in Versions : bin[v] # "absent" => bin'[v] # "absent"
    BY <1>7, <1>0 DEF ProvUnzip, ProvUnzipped, TypeOK, Provisions
  <2>2. CallInv(u)'
    BY <1>a, <2>1 DEF CallInv, Publishing
  <2>3. u \notin raced' => RaceInv(u)'
    BY <1>0, <1>a, <2>1
       DEF SafeVolume, RaceInv, Removing, Installing, Unsafe, Publishing,
           CallInv, ReferenceInv
  <2>4. u \notin raced' => FootingInv(u)'
    BY <1>0, <1>a, <2>1
       DEF SafeVolume, FootingInv, RaceInv, Removing, Installing, Publishing
  <2>5. u \notin raced' => ReferenceInv(u)'
    BY <1>0, <1>a, <2>1
       DEF SafeVolume, ReferenceInv, RaceInv, Removing, Unsafe
  <2>6. QED
    BY <2>2, <2>3, <2>4, <2>5 DEF SafeVolume
<1>8. CASE ProvInstallFails
  <2>1. /\ UNCHANGED <<op, pod, meta>>
        /\ UNCHANGED <<ref, refDir, gc, raced>>
        /\ prov.pc \in {"install", "unzip"} /\ prov'.pc = "idle"
        /\ \A v \in Versions \ {prov.ver} : bin'[v] = bin[v]
    BY <1>8, <1>0 DEF ProvInstallFails, IdleProv, TypeOK, Provisions
  <2>2. CallInv(u)'
    BY <1>a, <2>1 DEF CallInv, Publishing
  <2>3. u \notin raced' => RaceInv(u)'
    BY <1>0, <1>a, <2>1
       DEF SafeVolume, RaceInv, Removing, Installing, Unsafe, Publishing,
           CallInv, ReferenceInv
  <2>4. u \notin raced' => FootingInv(u)'
    BY <1>0, <1>a, <2>1
       DEF SafeVolume, FootingInv, RaceInv, Removing, Installing, Publishing
  <2>5. u \notin raced' => ReferenceInv(u)'
    BY <1>0, <1>a, <2>1
       DEF SafeVolume, ReferenceInv, RaceInv, Removing, Unsafe
  <2>6. QED
    BY <2>2, <2>3, <2>4, <2>5 DEF SafeVolume
<1>9. CASE ProvWriteVersion
  <2>1. /\ UNCHANGED <<op, pod, meta>>
        /\ UNCHANGED <<bin, ref, refDir, gc, raced>> /\ prov'.pc = "idle"
    BY <1>9, <1>0 DEF ProvWriteVersion, IdleProv, TypeOK
  <2>2. CallInv(u)'
    BY <1>a, <2>1 DEF CallInv, Publishing
  <2>3. u \notin raced' => RaceInv(u)'
    BY <1>0, <1>a, <2>1
       DEF SafeVolume, RaceInv, Removing, Installing, Unsafe, Publishing,
           CallInv, ReferenceInv
  <2>4. u \notin raced' => FootingInv(u)'
    BY <1>0, <1>a, <2>1
       DEF SafeVolume, FootingInv, RaceInv, Removing, Installing, Publishing
  <2>5. u \notin raced' => ReferenceInv(u)'
    BY <1>0, <1>a, <2>1
       DEF SafeVolume, ReferenceInv, RaceInv, Removing, Unsafe
  <2>6. QED
    BY <2>2, <2>3, <2>4, <2>5 DEF SafeVolume
<1>10. CASE Release \/ UpdateStatus \/ UNCHANGED vars
  <2>1. /\ UNCHANGED <<op, pod, meta>>
        /\ UNCHANGED <<bin, ref, refDir, gc, prov, raced>>
    BY <1>10, <1>0 DEF Release, UpdateStatus, vars, TypeOK
  <2>2. CallInv(u)'
    BY <1>a, <2>1 DEF CallInv, Publishing
  <2>3. u \notin raced' => RaceInv(u)'
    BY <1>0, <1>a, <2>1
       DEF SafeVolume, RaceInv, Removing, Installing, Unsafe, Publishing,
           CallInv, ReferenceInv
  <2>4. u \notin raced' => FootingInv(u)'
    BY <1>0, <1>a, <2>1
       DEF SafeVolume, FootingInv, RaceInv, Removing, Installing, Publishing
  <2>5. u \notin raced' => ReferenceInv(u)'
    BY <1>0, <1>a, <2>1
       DEF SafeVolume, ReferenceInv, RaceInv, Removing, Unsafe
  <2>6. QED
    BY <2>2, <2>3, <2>4, <2>5 DEF SafeVolume
<1>11. CASE Crash
  <2>1. /\ UNCHANGED <<bin, ref, refDir, pod, meta, raced>>
        /\ op'[u].pc = "idle" /\ gc'.pc = "idle" /\ prov'.pc = "idle"
    BY <1>11, <1>0 DEF Crash, IdleOp, IdleGC, IdleProv, TypeOK
  <2>2. CallInv(u)'
    BY <1>a, <2>1 DEF CallInv, Publishing
  <2>3. u \notin raced' => RaceInv(u)'
    BY <1>0, <1>a, <2>1
       DEF SafeVolume, RaceInv, Removing, Installing, Unsafe, Publishing,
           CallInv, ReferenceInv
  <2>4. u \notin raced' => FootingInv(u)'
    BY <1>0, <1>a, <2>1
       DEF SafeVolume, FootingInv, RaceInv, Removing, Installing, Publishing
  <2>5. u \notin raced' => ReferenceInv(u)'
    BY <1>0, <1>a, <2>1
       DEF SafeVolume, ReferenceInv, CallInv
  <2>6. QED
    BY <2>2, <2>3, <2>4, <2>5 DEF SafeVolume
<1>12. QED
  BY <1>1, <1>2, <1>3, <1>4, <1>5, <1>6, <1>7, <1>8, <1>9, <1>10, <1>11
     DEF CollectGarbage, Provision

-----------------------------------------------------------------------------
(* The controllers.                                                        *)

\* A call leaves the controllers and the agents alone.
LEMMA CallFrame ==
    ASSUME NEW vol \in Volumes,
           Publish(vol) \/ PodDeleted(vol) \/ Unpublish(vol)
    PROVE  UNCHANGED <<bin, gc, prov, versionFile, torn, cut, crashes>>
BY DEF Publish, PublishMounted, PublishReadVersion, PublishMkRefDir,
       PublishOverlay, PublishBind, PublishUsageFile, PublishMetadata,
       PodDeleted, Unpublish, UnpublishLoad, UnpublishUmount,
       UnpublishUmountOverlay,
       UnpublishRmUsage, UnpublishRmMeta, UnpublishRmTarget,
       disk, mounts, world, history, restarts

\* Agents are partial only while they are unpacked or removed, or after that
\* was cut short.
LEMMA ControllersStep ==
    ASSUME TypeOK, ControllerInv, PresentIsComplete, [Next]_vars
    PROVE  ControllerInv' /\ PresentIsComplete'
<1> USE DEF disk, mounts, world, history, restarts
<1>0. /\ gc.pc \in {"rmBin", "rmRest", "rmRefs"} => gc.ver \in Versions
      /\ prov.pc # "idle" => prov.ver \in Versions
  BY NoneIsNoVersion DEF TypeOK, ControllerInv, Collections, Provisions
<1>1. CASE GCQuery \/ GCList \/ GCDone
  <2>1. /\ UNCHANGED <<bin, prov, versionFile, torn, cut>>
        /\ gc.pc # "rmRest" /\ gc'.pc \notin {"rmBin", "rmRest", "rmRefs"}
    <3>1. CASE GCQuery
      BY <3>1 DEF GCQuery, TypeOK, Collections
    <3>2. CASE GCList
      BY <3>2 DEF GCList, TypeOK, Collections
    <3>3. CASE GCDone
      BY <3>3, IdleTypes DEF GCDone
    <3>4. QED
      BY <1>1, <3>1, <3>2, <3>3
  <2>2. ControllerInv'
    BY <1>0, <2>1 DEF ControllerInv, Removing, Installing, PresentIsComplete
  <2>3. PresentIsComplete'
    BY <1>0, <2>1 DEF ControllerInv, PresentIsComplete, Halfway
  <2>4. QED
    BY <2>2, <2>3
<1>2. CASE GCScan
  <2>1. /\ UNCHANGED <<bin, prov, versionFile, cut>> /\ torn \subseteq torn'
        /\ gc.pc # "rmRest"
        /\ \/ gc'.pc = "scan"
           \/ /\ gc'.ver \in Versions
              /\ Installing(gc'.ver) => gc'.ver \in torn'
    <3>1. PICK v \in gc.todo :
             \/ /\ gc' = [gc EXCEPT !.pc = "rmBin", !.ver = v, !.todo = @ \ {v}]
                /\ torn' = torn \cup {w \in {v} : Installing(w)}
             \/ gc' = [gc EXCEPT !.todo = @ \ {v}] /\ torn' = torn
      BY <1>2 DEF GCScan
    <3>2. v \in Versions /\ gc.pc = "scan"
      BY <1>2, <3>1 DEF GCScan, TypeOK, Collections
    <3>3. CASE gc' = [gc EXCEPT !.todo = @ \ {v}] /\ torn' = torn
      BY <1>2, <3>2, <3>3 DEF GCScan, TypeOK, Collections
    <3>4. CASE /\ gc' = [gc EXCEPT !.pc = "rmBin", !.ver = v, !.todo = @ \ {v}]
               /\ torn' = torn \cup {w \in {v} : Installing(w)}
      <4>1. gc'.ver = v
        BY <3>4 DEF TypeOK, Collections
      <4>2. QED
        BY <1>2, <3>2, <3>4, <4>1 DEF GCScan
    <3>5. QED
      BY <3>1, <3>3, <3>4
  <2>2. ControllerInv'
    BY <1>0, <2>1, NoneIsNoVersion
       DEF ControllerInv, Removing, Installing, PresentIsComplete
  <2>3. PresentIsComplete'
    BY <1>0, <2>1 DEF ControllerInv, PresentIsComplete, Halfway
  <2>4. QED
    BY <2>2, <2>3
<1>3. CASE GCRemoveSome
  <2>1. /\ UNCHANGED <<prov, versionFile, torn, cut>>
        /\ gc.pc = "rmBin" /\ gc'.ver = gc.ver
        /\ \/ gc'.pc = "rmRest"
           \/ gc'.pc = "rmRefs" /\ UNCHANGED bin
        /\ \A v \in Versions \ {gc.ver} : bin'[v] = bin[v]
    BY <1>3, <1>0 DEF GCRemoveSome, TypeOK, Collections
  <2>2. ControllerInv'
    BY <1>0, <2>1 DEF ControllerInv, Removing, Installing, PresentIsComplete
  <2>3. PresentIsComplete'
    BY <1>0, <2>1 DEF ControllerInv, PresentIsComplete, Halfway
  <2>4. QED
    BY <2>2, <2>3
<1>3a. CASE GCRemoveBin
  <2>1. /\ UNCHANGED <<prov, versionFile, torn>>
        /\ gc.pc = "rmRest" /\ gc'.pc = "rmRefs" /\ gc'.ver = gc.ver
        /\ bin'[gc.ver] = "absent" \/ gc.ver \in cut'
        /\ \A v \in Versions \ {gc.ver} : /\ bin'[v] = bin[v]
                                          /\ v \in cut => v \in cut'
    BY <1>3a, <1>0 DEF GCRemoveBin, TypeOK, Collections
  <2>2. ControllerInv'
    BY <1>0, <2>1 DEF ControllerInv, Removing, Installing, PresentIsComplete
  <2>3. PresentIsComplete'
    BY <1>0, <2>1 DEF ControllerInv, PresentIsComplete, Halfway
  <2>4. QED
    BY <2>2, <2>3
<1>4. CASE GCRemoveRefs
  <2>1. /\ UNCHANGED <<bin, prov, versionFile, torn, cut>>
        /\ gc.pc # "rmRest" /\ gc'.pc = "scan"
    BY <1>4, <1>0 DEF GCRemoveRefs, TypeOK, Collections
  <2>2. ControllerInv'
    BY <1>0, <2>1 DEF ControllerInv, Removing, Installing, PresentIsComplete
  <2>3. PresentIsComplete'
    BY <1>0, <2>1 DEF ControllerInv, PresentIsComplete, Halfway
  <2>4. QED
    BY <2>2, <2>3
<1>5. CASE ProvStart
  <2>1. /\ UNCHANGED <<bin, gc, versionFile, cut>> /\ torn \subseteq torn'
        /\ prov.pc = "idle"
        /\ \/ UNCHANGED prov
           \/ /\ prov'.pc = "stat" /\ prov'.ver \notin {None, versionFile}
              /\ Removing(prov'.ver) => prov'.ver \in torn'
    BY <1>5, <1>0 DEF ProvStart, TypeOK
  <2>2. ControllerInv'
    BY <1>0, <2>1 DEF ControllerInv, Removing, Installing, PresentIsComplete
  <2>3. PresentIsComplete'
    BY <1>0, <2>1 DEF ControllerInv, PresentIsComplete, Halfway
  <2>4. QED
    BY <2>2, <2>3
<1>6. CASE ProvStat
  <2>1. /\ UNCHANGED <<bin, gc, versionFile, torn, cut>>
        /\ prov.pc = "stat" /\ prov'.ver = prov.ver
        /\ prov'.pc \in {"install", "write"}
    BY <1>6, <1>0 DEF ProvStat, TypeOK, Provisions
  <2>2. ControllerInv'
    BY <1>0, <2>1 DEF ControllerInv, Removing, Installing, PresentIsComplete
  <2>3. PresentIsComplete'
    BY <1>0, <2>1 DEF ControllerInv, PresentIsComplete, Halfway
  <2>4. QED
    BY <2>2, <2>3
<1>7. CASE ProvUnzip
  <2>1. /\ UNCHANGED <<gc, versionFile, torn, cut>>
        /\ prov.pc = "install" /\ prov'.pc = "unzip" /\ prov'.ver = prov.ver
        /\ bin'[prov.ver] = "partial"
        /\ \A v \in Versions \ {prov.ver} : bin'[v] = bin[v]
    BY <1>7, <1>0 DEF ProvUnzip, TypeOK, Provisions
  <2>2. ControllerInv'
    BY <1>0, <2>1 DEF ControllerInv, Removing, Installing, PresentIsComplete
  <2>3. PresentIsComplete'
    BY <1>0, <2>1 DEF ControllerInv, PresentIsComplete, Halfway
  <2>4. QED
    BY <2>2, <2>3
<1>8. CASE ProvUnzipped
  <2>1. /\ UNCHANGED <<gc, versionFile, torn, cut>>
        /\ prov.pc = "unzip" /\ prov'.pc = "write" /\ prov'.ver = prov.ver
        /\ prov.ver \in torn \/ bin'[prov.ver] = "full"
        /\ \A v \in Versions \ {prov.ver} : bin'[v] = bin[v]
    BY <1>8, <1>0 DEF ProvUnzipped, TypeOK, Provisions
  <2>2. ControllerInv'
    BY <1>0, <2>1 DEF ControllerInv, Removing, Installing, PresentIsComplete
  <2>3. PresentIsComplete'
    BY <1>0, <2>1 DEF ControllerInv, PresentIsComplete, Halfway
  <2>4. QED
    BY <2>2, <2>3
<1>9. CASE ProvInstallFails
  <2>1. /\ UNCHANGED <<gc, versionFile, torn>>
        /\ prov'.pc = "idle"
        /\ bin'[prov.ver] = "absent" \/ prov.ver \in cut'
        /\ \A v \in Versions \ {prov.ver} : /\ bin'[v] = bin[v]
                                            /\ v \in cut => v \in cut'
    BY <1>9, <1>0 DEF ProvInstallFails, IdleProv, TypeOK, Provisions
  <2>2. ControllerInv'
    BY <1>0, <2>1 DEF ControllerInv, Removing, Installing, PresentIsComplete
  <2>3. PresentIsComplete'
    BY <1>0, <2>1 DEF ControllerInv, PresentIsComplete, Halfway
  <2>4. QED
    BY <2>2, <2>3
<1>10. CASE ProvWriteVersion
  <2>1. /\ UNCHANGED <<bin, gc, torn, cut>>
        /\ prov.pc = "write" /\ prov'.pc = "idle"
    BY <1>10, <1>0 DEF ProvWriteVersion, IdleProv, TypeOK
  <2>2. ControllerInv'
    BY <1>0, <2>1 DEF ControllerInv, Removing, Installing, PresentIsComplete
  <2>3. PresentIsComplete'
    BY <1>0, <2>1 DEF ControllerInv, PresentIsComplete, Halfway
  <2>4. QED
    BY <2>2, <2>3
<1>11. CASE Release \/ UpdateStatus \/ UNCHANGED vars
  <2>1. UNCHANGED <<bin, gc, prov, versionFile, torn, cut>>
    BY <1>11, <1>0 DEF Release, UpdateStatus, vars, TypeOK
  <2>2. ControllerInv'
    BY <1>0, <2>1 DEF ControllerInv, Removing, Installing, PresentIsComplete
  <2>3. PresentIsComplete'
    BY <1>0, <2>1 DEF ControllerInv, PresentIsComplete, Halfway
  <2>4. QED
    BY <2>2, <2>3
<1>12. CASE Crash
  <2>1. /\ UNCHANGED <<bin, versionFile, torn>>
        /\ gc'.pc = "idle" /\ prov'.pc = "idle"
        /\ cut \subseteq cut' /\ \A v \in Versions : Halfway(v) => v \in cut'
    BY <1>12, <1>0 DEF Crash, IdleOp, IdleGC, IdleProv, TypeOK
  <2>2. ControllerInv'
    BY <1>0, <2>1 DEF ControllerInv, Removing, Installing, PresentIsComplete
  <2>3. PresentIsComplete'
    BY <1>0, <2>1 DEF ControllerInv, PresentIsComplete, Halfway
  <2>4. QED
    BY <2>2, <2>3
<1>13. CASE \E vol \in Volumes : Publish(vol) \/ PodDeleted(vol) \/ Unpublish(vol)
  <2>1. UNCHANGED <<bin, gc, prov, versionFile, torn, cut>>
    BY <1>13, CallFrame
  <2>2. ControllerInv'
    BY <1>0, <2>1 DEF ControllerInv, Removing, Installing, PresentIsComplete
  <2>3. PresentIsComplete'
    BY <1>0, <2>1 DEF ControllerInv, PresentIsComplete, Halfway
  <2>4. QED
    BY <2>2, <2>3
<1>14. QED
  BY <1>1, <1>2, <1>3, <1>3a, <1>4, <1>5, <1>6, <1>7, <1>8, <1>9, <1>10,
     <1>11, <1>12, <1>13 DEF Next, CollectGarbage, Provision

-----------------------------------------------------------------------------
(* What holds of a volume as long as nothing crashed or failed.            *)

\* Without a fault in the past there was none in this step.
LEMMA FaultFreeStep ==
    ASSUME TypeOK, FaultFree', [Next]_vars
    PROVE  FaultFree /\ ~Fault /\ UNCHANGED crashes
<1>1. /\ faults <= faults' /\ crashes <= crashes'
      /\ Fault => faults' # 0
  <2>1. ASSUME NEW vol \in Volumes, Publish(vol) \/ PodDeleted(vol) \/ Unpublish(vol)
        PROVE  NoFault \/ Fault
    BY <2>1 DEF Publish, PublishMounted, PublishReadVersion, PublishMkRefDir,
       PublishOverlay, PublishBind, PublishUsageFile, PublishMetadata,
       PodDeleted, Unpublish, UnpublishLoad, UnpublishUmount,
       UnpublishUmountOverlay,
       UnpublishRmUsage, UnpublishRmMeta, UnpublishRmTarget, FailsIf
  <2>2. CASE CollectGarbage \/ Provision
    <3>1. (NoFault \/ Fault) /\ UNCHANGED crashes
      BY <2>2 DEF restarts, CollectGarbage, GCQuery, GCList, GCScan,
         GCRemoveSome, GCRemoveBin, GCRemoveRefs, GCDone, Provision, ProvStart, ProvStat, ProvUnzip,
         ProvUnzipped, ProvInstallFails, ProvWriteVersion
    <3>2. QED
      BY <3>1 DEF NoFault, Fault, TypeOK
  <2>3. CASE Release \/ UpdateStatus \/ Crash \/ UNCHANGED vars
    BY <2>3 DEF Release, UpdateStatus, Crash, vars, restarts, NoFault, Fault,
       TypeOK
  <2>4. QED
    BY <2>1, <2>2, <2>3, CallFrame DEF Next, NoFault, Fault, TypeOK
<1>2. QED
  BY <1>1 DEF FaultFree, TypeOK

\* The sequences that the overlay mounts of a volume go through.
LEMMA OneOverlay ==
    ASSUME NEW v
    PROVE  Append(<<>>, v) = <<v>> /\ DropLast(<<v>>) = <<>>
<1>1. Append(<<>>, v) = <<v>>
  OBVIOUS
<1>2. <<v>> # <<>> /\ Len(<<v>>) - 1 = 0 /\ SubSeq(<<v>>, 1, 0) = <<>>
  OBVIOUS
<1>3. QED
  BY <1>1, <1>2 DEF DropLast

\* A volume that a step leaves alone keeps its stage.
LEMMA UndisturbedStage ==
    ASSUME NEW u \in Volumes, FaultFreeInv(u), Undisturbed(u)
    PROVE  FaultFreeInv(u)'
<1>1. RefersTo(u)' = RefersTo(u)
  BY DEF RefersTo, Undisturbed
<1>2. QED
  BY <1>1 DEF FaultFreeInv, Stage, Clean, Held, Traces, Undisturbed

\* Without a fault a call of vol goes on from stage to stage.
LEMMA CallStage ==
    ASSUME TypeOK, NEW vol \in Volumes, SafeVolume(vol), FaultFreeInv(vol),
           ~Fault, Publish(vol) \/ PodDeleted(vol) \/ Unpublish(vol)
    PROVE  FaultFreeInv(vol)'
<1> USE DEF disk, mounts, world, history, restarts
<1>0. /\ Publishing(vol) => op[vol].ver \in Versions
      /\ op[vol].ver \in Known /\ meta[vol] \in Known /\ target[vol] \in Known
  BY NoneIsNoVersion DEF SafeVolume, CallInv, TypeOK, Calls
<1>a. ASSUME UNCHANGED ref PROVE RefersTo(vol)' = RefersTo(vol)
  BY <1>a DEF RefersTo
<1>1. CASE PublishMounted(vol)
  <2>1. /\ UNCHANGED <<op, ref, meta, raced, target, overlay>>
        /\ pod[vol] = "wanted" /\ pod'[vol] = "published"
        /\ op[vol].pc = "idle" /\ target[vol] # None
    BY <1>1 DEF PublishMounted, TypeOK
  <2>2. QED
    BY <1>a, <2>1 DEF FaultFreeInv, Stage, Clean, Held, Traces
<1>2. CASE PublishReadVersion(vol)
  <2>1. /\ UNCHANGED <<ref, meta, pod, target, overlay>>
        /\ pod[vol] = "wanted" /\ op[vol].pc = "idle" /\ op'[vol].pc = "mkdir"
        /\ raced \subseteq raced'
    BY <1>2 DEF PublishReadVersion, TypeOK
  <2>2. QED
    BY <1>a, <2>1 DEF FaultFreeInv, Stage, Clean, Held, Traces
<1>3. CASE PublishMkRefDir(vol)
  <2>1. /\ UNCHANGED <<ref, meta, pod, target, overlay, raced>>
        /\ op[vol].pc = "mkdir" /\ op'[vol].pc = "overlay"
    BY <1>3, GotoEffect DEF PublishMkRefDir, TypeOK
  <2>2. QED
    BY <1>a, <2>1 DEF FaultFreeInv, Stage, Clean, Held, Traces
<1>4. CASE PublishOverlay(vol)
  <2>1. /\ UNCHANGED <<ref, meta, pod, target, raced>>
        /\ op[vol].pc = "overlay" /\ pod[vol] = "wanted"
        /\ \/ op'[vol].pc = "idle" /\ UNCHANGED overlay
           \/ /\ op'[vol].pc = "bind" /\ op'[vol].ver = op[vol].ver
              /\ overlay'[vol] = Append(overlay[vol], op[vol].ver)
    BY <1>4, GotoEffect, ReturnEffect, IdleTypes
       DEF PublishOverlay, TypeOK, SafeVolume, CallInv, Publishing
  <2>2. QED
    BY <1>a, <2>1, OneOverlay DEF FaultFreeInv, Stage, Clean, Held, Traces
<1>5. CASE PublishBind(vol)
  <2>1. /\ UNCHANGED <<ref, meta, pod, overlay, raced>>
        /\ op[vol].pc = "bind" /\ op'[vol].pc = "usage"
        /\ op'[vol].ver = op[vol].ver /\ target'[vol] = op[vol].ver
    BY <1>5, GotoEffect DEF PublishBind, TypeOK
  <2>2. QED
    BY <1>a, <2>1 DEF FaultFreeInv, Stage, Clean, Held, Traces
<1>6. CASE PublishUsageFile(vol)
  <2>1. /\ UNCHANGED <<meta, pod, overlay, target, raced>>
        /\ op[vol].pc = "usage" /\ op[vol].ver \in Versions
        /\ \/ op'[vol].pc = "idle" /\ op[vol].ver \notin refDir
           \/ /\ op'[vol].pc = "metadata" /\ op'[vol].ver = op[vol].ver
              /\ ref' = [ref EXCEPT ![op[vol].ver] = @ \cup {vol}]
    BY <1>0, <1>6, GotoEffect, ReturnEffect, IdleTypes
       DEF PublishUsageFile, TypeOK, FailsIf, Publishing
  <2>2. vol \notin raced => op'[vol].pc = "metadata"
    BY <2>1 DEF SafeVolume, FootingInv
  <2>3. ASSUME ref' = [ref EXCEPT ![op[vol].ver] = @ \cup {vol}]
        PROVE  RefersTo(vol)' = RefersTo(vol) \cup {op[vol].ver}
    BY <2>1, <2>3 DEF RefersTo, TypeOK
  <2>4. QED
    BY <2>1, <2>2, <2>3 DEF FaultFreeInv, Stage, Clean, Held, Traces
<1>7. CASE PublishMetadata(vol)
  <2>1. /\ UNCHANGED <<ref, overlay, target, raced>>
        /\ op[vol].pc = "metadata" /\ op[vol].ver \in Versions
        /\ op'[vol].pc = "idle"
        /\ meta'[vol] = op[vol].ver /\ pod'[vol] = "published"
    BY <1>0, <1>7, ReturnEffect, IdleTypes DEF PublishMetadata, TypeOK, Publishing
  <2>2. QED
    BY <1>a, <2>1, NoneIsNoVersion
       DEF FaultFreeInv, Stage, Clean, Held, Traces
<1>8. CASE PodDeleted(vol)
  <2>1. /\ UNCHANGED <<op, ref, meta, raced, target, overlay>>
        /\ pod[vol] \in {"wanted", "published"} /\ pod'[vol] = "dying"
        /\ op[vol].pc = "idle"
    BY <1>8 DEF PodDeleted, TypeOK
  <2>2. QED
    BY <1>a, <2>1 DEF FaultFreeInv, Stage, Clean, Held, Traces
<1>9. CASE UnpublishLoad(vol)
  <2>1. /\ UNCHANGED <<ref, meta, pod, raced, target, overlay>>
        /\ pod[vol] = "dying" /\ op[vol].pc = "idle"
        /\ op'[vol].pc = "umount" /\ op'[vol].ver = meta[vol]
    BY <1>9 DEF UnpublishLoad, TypeOK
  <2>2. QED
    BY <1>a, <2>1 DEF FaultFreeInv, Stage, Clean, Held, Traces
<1>10. CASE UnpublishUmount(vol)
  <2>1. /\ UNCHANGED <<ref, meta, pod, raced, overlay>>
        /\ op[vol].pc = "umount" /\ op'[vol].pc = "umountOverlay"
        /\ op'[vol].ver = op[vol].ver
        /\ target'[vol] = None
    BY <1>10, GotoEffect DEF UnpublishUmount, TypeOK
  <2>2. op[vol].ver = meta[vol] /\ (vol \notin raced => Clean(vol) \/ Held(vol))
    BY <2>1 DEF FaultFreeInv, Stage
  <2>3. QED
    BY <1>a, <2>1, <2>2 DEF FaultFreeInv, Stage, Clean, Held, Traces
<1>10a. CASE UnpublishUmountOverlay(vol)
  <2>1. /\ UNCHANGED <<ref, meta, pod, raced, target>>
        /\ op[vol].pc = "umountOverlay" /\ op'[vol].pc = "rmUsage"
        /\ op'[vol].ver = op[vol].ver
        /\ overlay'[vol] = IF op[vol].ver = None THEN overlay[vol]
                           ELSE DropLast(overlay[vol])
    BY <1>10a, GotoEffect DEF UnpublishUmountOverlay, TypeOK
  <2>2. /\ op[vol].ver = meta[vol] /\ target[vol] = None
        /\ vol \notin raced =>
              \/ Clean(vol)
              \/ /\ op[vol].ver # None
                 /\ Traces(vol, None, <<op[vol].ver>>, op[vol].ver, {op[vol].ver})
    BY <2>1 DEF FaultFreeInv, Stage
  <2>3. vol \notin raced => Traces(vol, None, <<>>, op[vol].ver,
                                   {op[vol].ver} \ {None})'
    BY <1>a, <2>1, <2>2, OneOverlay DEF Clean, Traces
  <2>4. QED
    BY <2>1, <2>2, <2>3 DEF FaultFreeInv, Stage
<1>11. CASE UnpublishRmUsage(vol)
  <2>1. /\ UNCHANGED <<meta, pod, overlay, target, raced>>
        /\ op[vol].pc = "rmUsage" /\ op'[vol].pc = "rmMeta"
        /\ op'[vol].ver = op[vol].ver
        /\ ref' = IF op[vol].ver = None THEN ref
                  ELSE [ref EXCEPT ![op[vol].ver] = @ \ {vol}]
    BY <1>11, GotoEffect DEF UnpublishRmUsage, TypeOK
  <2>2. RefersTo(vol)' = RefersTo(vol) \ {op[vol].ver}
    BY <1>0, <2>1, NoneIsNoVersion DEF RefersTo, TypeOK
  <2>3. QED
    BY <2>1, <2>2 DEF FaultFreeInv, Stage, Clean, Held, Traces
<1>12. CASE UnpublishRmMeta(vol)
  <2>1. /\ UNCHANGED <<ref, pod, overlay, target, raced>>
        /\ op[vol].pc = "rmMeta" /\ op'[vol].pc = "rmTarget"
        /\ meta'[vol] = None
    BY <1>12, GotoEffect DEF UnpublishRmMeta, TypeOK
  <2>2. QED
    BY <1>a, <2>1 DEF FaultFreeInv, Stage, Clean, Held, Traces
<1>13. CASE UnpublishRmTarget(vol)
  <2>1. /\ UNCHANGED <<ref, meta, overlay, target, raced>>
        /\ op[vol].pc = "rmTarget" /\ op'[vol].pc = "idle"
        /\ pod'[vol] = "gone" \/ target[vol] # None
    BY <1>13, ReturnEffect, IdleTypes DEF UnpublishRmTarget, TypeOK, FailsIf
  <2>2. QED
    BY <1>a, <2>1 DEF FaultFreeInv, Stage, Clean, Held, Traces
<1>14. QED
  BY <1>1, <1>2, <1>3, <1>4, <1>5, <1>6, <1>7, <1>8, <1>9, <1>10, <1>10a,
     <1>11, <1>12, <1>13 DEF Publish, Unpublish

\* Without a crash the controllers and the operator touch no call, no mount
\* and no metadata, and only the garbage collector removes usage files.
LEMMA ControllersFrame ==
    ASSUME TypeOK, UNCHANGED crashes,
           CollectGarbage \/ Provision \/ Release \/ UpdateStatus \/ Crash
              \/ UNCHANGED vars
    PROVE  /\ UNCHANGED <<op, pod, meta, target, overlay, metric>>
           /\ Fault \/ cut' \subseteq cut
           /\ raced \subseteq raced'
           /\ \/ ref' = ref
              \/ gc.pc = "rmRefs" /\ ref' = [ref EXCEPT ![gc.ver] = {}]
<1> USE DEF disk, mounts, world, history, restarts
<1>1. CASE CollectGarbage
  <2>1. CASE GCScan
    BY <2>1 DEF GCScan
  <2>2. CASE GCRemoveRefs
    BY <2>2 DEF GCRemoveRefs
  <2>3. CASE GCQuery \/ GCList \/ GCRemoveSome \/ GCRemoveBin \/ GCDone
    BY <2>3 DEF GCQuery, GCList, GCRemoveSome, GCRemoveBin, GCDone
  <2>4. QED
    BY <1>1, <2>1, <2>2, <2>3 DEF CollectGarbage
<1>2. CASE Provision
  BY <1>2 DEF Provision, ProvStart, ProvStat, ProvUnzip, ProvUnzipped,
     ProvInstallFails, ProvWriteVersion
<1>3. CASE Release \/ UpdateStatus \/ UNCHANGED vars
  BY <1>3 DEF Release, UpdateStatus, vars
<1>4. ~Crash
  BY DEF Crash, TypeOK
<1>5. QED
  BY <1>1, <1>2, <1>3, <1>4

\* They leave a volume where its calls left it, unless it was raced.
LEMMA OthersKeepStage ==
    ASSUME TypeOK, ControllerInv, NEW u \in Volumes, SafeVolume(u),
           FaultFreeInv(u), UNCHANGED crashes,
           CollectGarbage \/ Provision \/ Release \/ UpdateStatus \/ Crash
              \/ UNCHANGED vars
    PROVE  FaultFreeInv(u)'
<1>1. /\ UNCHANGED <<op, pod, meta, target, overlay>>
      /\ raced \subseteq raced'
      /\ ref' = ref \/ (gc.pc = "rmRefs" /\ ref' = [ref EXCEPT ![gc.ver] = {}])
  BY ControllersFrame
<1>2. ASSUME u \notin raced
      PROVE  RefersTo(u)' = RefersTo(u)
  <2>1. \A v \in Versions : u \in ref'[v] <=> u \in ref[v]
    <3>1. CASE ref' = ref
      BY <3>1
    <3>2. CASE gc.pc = "rmRefs" /\ ref' = [ref EXCEPT ![gc.ver] = {}]
      <4>1. gc.ver \in Versions => u \notin ref[gc.ver]
        BY <1>2, <3>2 DEF SafeVolume, RaceInv, Unsafe, Removing
      <4>2. QED
        BY <3>2, <4>1 DEF TypeOK
    <3>3. QED
      BY <1>1, <3>1, <3>2
  <2>2. QED
    BY <2>1 DEF RefersTo
<1>3. QED
  BY <1>1, <1>2 DEF FaultFreeInv, Stage, Clean, Held, Traces

\* The volumes that the gauge of version v counts.
Counted(v) ==
    {vol \in Volumes :
        meta[vol] = v \/ (op[vol].pc = "rmTarget" /\ op[vol].ver = v)}

\* The gauge as the cardinality of these sets.
LEMMA GaugeCounts ==
    ASSUME op \in [Volumes -> Calls]
    PROVE  GaugeIsAccurate <=>
              \A v \in Versions : metric[v] = Cardinality(Counted(v))
<1>1. ASSUME NEW v, NEW vol \in Volumes
      PROVE  op[vol] = [pc |-> "rmTarget", ver |-> v]
                <=> (op[vol].pc = "rmTarget" /\ op[vol].ver = v)
  BY DEF Calls
<1>2. ASSUME NEW v
      PROVE  {vol \in Volumes : meta[vol] = v
                 \/ op[vol] = [pc |-> "rmTarget", ver |-> v]} = Counted(v)
  BY <1>1 DEF Counted
<1>3. QED
  BY <1>2 DEF GaugeIsAccurate

\* A counted set is finite, so that a volume more or less counts one.
LEMMA CountedChanges ==
    ASSUME NEW v, NEW vol \in Volumes
    PROVE  /\ Cardinality(Counted(v)) \in Nat
           /\ vol \notin Counted(v) =>
                 Cardinality(Counted(v) \cup {vol}) = Cardinality(Counted(v)) + 1
           /\ vol \in Counted(v) =>
                 Cardinality(Counted(v) \ {vol}) = Cardinality(Counted(v)) - 1
<1>1. IsFiniteSet(Counted(v))
  BY ConstantsAssumption, FS_Subset DEF Counted
<1>2. QED
  BY <1>1, FS_CardinalityType, FS_AddElement, FS_RemoveElement

\* Without a fault a call keeps the gauge accurate.
LEMMA CallGauge ==
    ASSUME TypeOK, TypeOK', NEW vol \in Volumes, CallInv(vol),
           FaultFreeInv(vol), GaugeIsAccurate, ~Fault,
           Publish(vol) \/ PodDeleted(vol) \/ Unpublish(vol)
    PROVE  GaugeIsAccurate'
<1> USE DEF disk, mounts, world, history, restarts
<1>0. /\ Publishing(vol) => op[vol].ver \in Versions
      /\ op[vol].ver \in Known /\ meta[vol] \in Known
  BY NoneIsNoVersion DEF CallInv, TypeOK, Calls
<1>1. /\ \A v \in Versions : metric[v] = Cardinality(Counted(v))
      /\ op \in [Volumes -> Calls] /\ op' \in [Volumes -> Calls]
  BY GaugeCounts DEF TypeOK
<1>2. SUFFICES ASSUME NEW v \in Versions
               PROVE  metric'[v] = Cardinality(Counted(v)')
  <2>1. \A v \in Versions : metric'[v] = Cardinality(Counted(v)')
    BY <1>2
  <2>2. ASSUME NEW v, NEW u \in Volumes
        PROVE  op'[u] = [pc |-> "rmTarget", ver |-> v]
                  <=> (op'[u].pc = "rmTarget" /\ op'[u].ver = v)
    BY <1>1 DEF Calls
  <2>3. ASSUME NEW v
        PROVE  {u \in Volumes : meta'[u] = v
                   \/ op'[u] = [pc |-> "rmTarget", ver |-> v]} = Counted(v)'
    BY <2>2 DEF Counted
  <2>4. QED
    BY <2>1, <2>3 DEF GaugeIsAccurate
<1>3. \A u \in Volumes \ {vol} : meta'[u] = meta[u] /\ op'[u] = op[u]
  BY OthersUndisturbed DEF Undisturbed
<1>4. CASE PublishMetadata(vol)
  <2>1. /\ op[vol].pc = "metadata" /\ op[vol].ver \in Versions
        /\ op'[vol].pc = "idle" /\ meta[vol] = None
        /\ meta'[vol] = op[vol].ver
        /\ metric' = [metric EXCEPT ![op[vol].ver] = @ + 1]
    BY <1>0, <1>4, ReturnEffect, IdleTypes
       DEF PublishMetadata, TypeOK, Publishing, CallInv
  <2>2. vol \notin Counted(v)
    BY <2>1, NoneIsNoVersion DEF Counted
  <2>3. Counted(v)' = IF v = op[vol].ver THEN Counted(v) \cup {vol}
                      ELSE Counted(v)
    BY <1>3, <2>1, <2>2 DEF Counted
  <2>4. QED
    <3>1. metric'[v] = IF v = op[vol].ver THEN metric[v] + 1 ELSE metric[v]
      BY <2>1 DEF TypeOK
    <3>2. QED
      BY <1>1, <2>2, <2>3, <3>1, CountedChanges
<1>5. CASE UnpublishRmMeta(vol)
  <2>1. /\ op[vol].pc = "rmMeta" /\ op[vol].ver = meta[vol]
        /\ op'[vol].pc = "rmTarget" /\ op'[vol].ver = op[vol].ver
        /\ meta'[vol] = None
        /\ UNCHANGED metric
    BY <1>5, GotoEffect DEF UnpublishRmMeta, TypeOK, FaultFreeInv
  <2>2. Counted(v)' = Counted(v)
    BY <1>3, <2>1, NoneIsNoVersion DEF Counted
  <2>3. QED
    BY <1>1, <2>1, <2>2
<1>6. CASE UnpublishRmTarget(vol)
  <2>1. /\ op[vol].pc = "rmTarget" /\ meta[vol] = None
        /\ op'[vol].pc = "idle" /\ UNCHANGED meta
        /\ metric' = IF op[vol].ver = None THEN metric
                     ELSE [metric EXCEPT ![op[vol].ver] = @ - 1]
    BY <1>6, ReturnEffect, IdleTypes
       DEF UnpublishRmTarget, TypeOK, FaultFreeInv, FailsIf, CallInv
  <2>2. vol \in Counted(v) <=> v = op[vol].ver
    BY <2>1, NoneIsNoVersion DEF Counted
  <2>3. Counted(v)' = Counted(v) \ {vol}
    BY <1>3, <2>1, NoneIsNoVersion DEF Counted
  <2>4. metric'[v] = IF v = op[vol].ver THEN metric[v] - 1 ELSE metric[v]
    BY <2>1, NoneIsNoVersion DEF TypeOK
  <2>5. CASE v = op[vol].ver
    BY <1>1, <2>2, <2>3, <2>4, <2>5, CountedChanges
  <2>6. CASE v # op[vol].ver
    <3>1. Counted(v)' = Counted(v)
      BY <2>2, <2>3, <2>6
    <3>2. QED
      BY <1>1, <2>4, <2>6, <3>1
  <2>7. QED
    BY <2>5, <2>6
<1>7. CASE ~PublishMetadata(vol) /\ ~UnpublishRmMeta(vol)
              /\ ~UnpublishRmTarget(vol)
  <2>1. UNCHANGED <<meta, metric>>
    BY <1>7 DEF Publish, PublishMounted, PublishReadVersion, PublishMkRefDir,
       PublishOverlay, PublishBind, PublishUsageFile, PodDeleted, Unpublish,
       UnpublishLoad, UnpublishUmount, UnpublishUmountOverlay, UnpublishRmUsage
  <2>2. op[vol].pc # "rmTarget"
    BY <1>7 DEF Publish, PublishMounted, PublishReadVersion, PublishMkRefDir,
       PublishOverlay, PublishBind, PublishUsageFile, PodDeleted, Unpublish,
       UnpublishLoad, UnpublishUmount, UnpublishUmountOverlay, UnpublishRmUsage
  <2>3. op'[vol].pc # "rmTarget"
    <3>1. CASE op' = op
      BY <2>2, <3>1
    <3>2. CASE \/ Return(vol) \/ Goto(vol, "overlay") \/ Goto(vol, "bind")
               \/ Goto(vol, "usage") \/ Goto(vol, "metadata")
               \/ Goto(vol, "umountOverlay") \/ Goto(vol, "rmUsage")
               \/ Goto(vol, "rmMeta")
      BY <1>1, <3>2, GotoEffect, ReturnEffect, IdleTypes
    <3>3. CASE PublishReadVersion(vol) \/ UnpublishLoad(vol)
      BY <1>1, <3>3 DEF PublishReadVersion, UnpublishLoad
    <3>4. QED
      BY <1>7, <3>1, <3>2, <3>3 DEF Publish, PublishMounted, PublishMkRefDir,
         PublishOverlay, PublishBind, PublishUsageFile, PodDeleted, Unpublish,
         UnpublishUmount, UnpublishUmountOverlay, UnpublishRmUsage
  <2>4. Counted(v)' = Counted(v)
    BY <1>3, <2>1, <2>2, <2>3 DEF Counted
  <2>5. QED
    BY <1>1, <2>1, <2>4
<1>8. QED
  BY <1>4, <1>5, <1>6, <1>7

-----------------------------------------------------------------------------
(* The inductive invariant.                                                *)

\* Initially nothing is installed, mounted or running.
LEMMA InitIInv == Init => IInv
<1> SUFFICES ASSUME Init PROVE IInv
  OBVIOUS
<1>1. TypeOK
  BY TypeInit
<1>2. /\ gc.pc = "idle" /\ prov.pc = "idle" /\ raced = {} /\ cut = {}
      /\ \A v \in Versions : bin[v] = "absent" /\ ref[v] = {} /\ metric[v] = 0
      /\ \A vol \in Volumes : /\ op[vol].pc = "idle" /\ pod[vol] = "wanted"
                              /\ meta[vol] = None /\ target[vol] = None
                              /\ overlay[vol] = <<>>
  BY IdleTypes DEF Init
<1>3. ControllerInv /\ ReferencedIsKept /\ PresentIsComplete
  BY <1>2 DEF ControllerInv, Removing, Installing, ReferencedIsKept,
     PresentIsComplete
<1>4. MetadataHasUsageFile
  BY <1>2 DEF MetadataHasUsageFile
<1>5. ASSUME NEW vol \in Volumes
      PROVE  /\ CallInv(vol) /\ RaceInv(vol) /\ FootingInv(vol)
             /\ FaultFreeInv(vol)
  <2>1. CallInv(vol) /\ RaceInv(vol) /\ FootingInv(vol)
    BY <1>2 DEF CallInv, RaceInv, FootingInv, Publishing, Removing, Installing,
       Unsafe
  <2>2. Clean(vol)
    BY <1>2 DEF Clean, Traces, RefersTo
  <2>3. QED
    BY <1>2, <2>1, <2>2 DEF FaultFreeInv, Stage
<1>6. GaugeIsAccurate
  <2>1. \A v \in Versions : Counted(v) = {}
    BY <1>2, NoneIsNoVersion DEF Counted
  <2>2. QED
    <3>1. op \in [Volumes -> Calls] /\ Cardinality({}) = 0
      BY <1>1, FS_EmptySet DEF TypeOK
    <3>2. \A v \in Versions : metric[v] = Cardinality(Counted(v))
      BY <1>2, <2>1, <3>1
    <3>3. QED
      BY <3>1, <3>2, GaugeCounts
<1>7. QED
  BY <1>1, <1>2, <1>3, <1>4, <1>5, <1>6 DEF IInv

\* The invariant makes every volume safe.
LEMMA IInvIsSafe ==
    ASSUME IInv
    PROVE  \A vol \in Volumes : SafeVolume(vol)
BY DEF IInv, SafeVolume, ReferenceInv, ReferencedIsKept, MetadataHasUsageFile

\* Every step keeps the invariant.
LEMMA StepIInv == IInv /\ [Next]_vars => IInv'
<1> SUFFICES ASSUME IInv, [Next]_vars PROVE IInv'
  OBVIOUS
<1>1. /\ TypeOK /\ ControllerInv /\ PresentIsComplete
      /\ \A vol \in Volumes : CallInv(vol) /\ SafeVolume(vol)
  BY IInvIsSafe DEF IInv
<1>2. TypeOK' /\ ControllerInv' /\ PresentIsComplete'
  BY <1>1, TypeStep, ControllersStep
<1>3. ASSUME NEW u \in Volumes
      PROVE  SafeVolume(u)'
  <2>1. CASE \E vol \in Volumes : Publish(vol) \/ PodDeleted(vol) \/ Unpublish(vol)
    <3>1. PICK vol \in Volumes : Publish(vol) \/ PodDeleted(vol) \/ Unpublish(vol)
      BY <2>1
    <3>2. CASE u = vol
      BY <1>1, <3>1, <3>2, CallKeepsSafe
    <3>3. CASE u # vol
      BY <1>1, <3>1, <3>3, OthersUndisturbed, UndisturbedIsSafe
    <3>4. QED
      BY <3>2, <3>3
  <2>2. CASE CollectGarbage \/ Provision \/ Release \/ UpdateStatus \/ Crash
                \/ UNCHANGED vars
    BY <1>1, <2>2, OthersKeepSafe
  <2>3. QED
    BY <2>1, <2>2 DEF Next
<1>4. ReferencedIsKept' /\ MetadataHasUsageFile'
  <2>1. \A v \in Versions : ref'[v] \subseteq Volumes
    BY <1>2 DEF TypeOK
  <2>2. QED
    BY <1>3, <2>1 DEF SafeVolume, ReferenceInv, ReferencedIsKept,
       MetadataHasUsageFile
<1>5. ASSUME FaultFree'
      PROVE  /\ \A u \in Volumes : FaultFreeInv(u)'
             /\ cut' = {} /\ GaugeIsAccurate'
  <2>1. /\ FaultFree /\ ~Fault /\ UNCHANGED crashes
        /\ \A u \in Volumes : FaultFreeInv(u)
        /\ cut = {} /\ GaugeIsAccurate
    BY <1>1, <1>5, FaultFreeStep DEF IInv
  <2>2. CASE \E vol \in Volumes : Publish(vol) \/ PodDeleted(vol) \/ Unpublish(vol)
    <3>1. PICK vol \in Volumes : Publish(vol) \/ PodDeleted(vol) \/ Unpublish(vol)
      BY <2>2
    <3>2. FaultFreeInv(vol)'
      BY <1>1, <2>1, <3>1, CallStage
    <3>3. \A u \in Volumes \ {vol} : FaultFreeInv(u)'
      BY <1>1, <2>1, <3>1, OthersUndisturbed, UndisturbedStage
    <3>4. cut' = {}
      BY <2>1, <3>1, CallFrame
    <3>5. GaugeIsAccurate'
      BY <1>1, <1>2, <2>1, <3>1, CallGauge
    <3>6. QED
      BY <3>2, <3>3, <3>4, <3>5
  <2>3. CASE CollectGarbage \/ Provision \/ Release \/ UpdateStatus \/ Crash
                \/ UNCHANGED vars
    <3>1. \A u \in Volumes : FaultFreeInv(u)'
      BY <1>1, <2>1, <2>3, OthersKeepStage
    <3>2. UNCHANGED <<op, meta, metric>> /\ cut' = {}
      BY <1>1, <2>1, <2>3, ControllersFrame
    <3>3. GaugeIsAccurate'
      BY <2>1, <3>2 DEF GaugeIsAccurate
    <3>4. QED
      BY <2>1, <3>1, <3>2, <3>3
  <2>4. QED
    BY <2>2, <2>3 DEF Next
<1>6. QED
  BY <1>2, <1>3, <1>4, <1>5 DEF IInv, SafeVolume

-----------------------------------------------------------------------------
(* The theorems.                                                           *)

\* In every reachable state what a publish or unpublish call has done so far is
\* still there for its next step, and the usage files, the metadata and the two
\* controllers' work agree, except for volumes whose publish call raced.
THEOREM Inductive == Spec => []IInv
BY InitIInv, StepIInv, PTL DEF Spec

\* Every variable keeps its type: no step works on a version, a volume or a
\* call that is not there, whatever crashes or fails.
THEOREM TypeCorrect == Spec => []TypeOK
<1>1. IInv => TypeOK
  BY DEF IInv
<1>2. QED
  BY <1>1, Inductive, PTL

\* Whatever crashes or fails, the garbage collector never takes the binaries
\* away under the usage file of a volume, unless the publish call raced with
\* a removal or an installation of that version.
THEOREM ReferencesProtect == Spec => []ReferencedIsKept
<1>1. IInv => ReferencedIsKept
  BY DEF IInv
<1>2. QED
  BY <1>1, Inductive, PTL

\* Whatever crashes or fails, a directory below bin is incomplete only while it
\* is being unpacked or removed, after one of the two was cut short by a crash
\* or a RemoveAll that failed, or when both went on at a time.
THEOREM InstalledIsComplete == Spec => []PresentIsComplete
<1>1. IInv => PresentIsComplete
  BY DEF IInv
<1>2. QED
  BY <1>1, Inductive, PTL

\* The metadata of a published volume points to an existing usage file.
THEOREM MetadataIsBacked == Spec => []MetadataHasUsageFile
<1>1. IInv => MetadataHasUsageFile
  BY DEF IInv
<1>2. QED
  BY <1>1, Inductive, PTL

\* As long as nothing crashed or failed, a pod that runs has the complete
\* binaries of its version mounted, referenced and recorded.
THEOREM PublishedSound == Spec => [](FaultFree => PublishedIsSound)
<1>1. IInv /\ FaultFree => PublishedIsSound
  <2> SUFFICES ASSUME IInv, FaultFree, NEW vol \in Volumes \ raced,
                      pod[vol] = "published"
               PROVE  /\ target[vol] # None
                      /\ overlay[vol] = <<target[vol]>>
                      /\ meta[vol] = target[vol]
                      /\ vol \in ref[target[vol]]
                      /\ bin[target[vol]] # "absent"
                      /\ target[vol] \notin torn => bin[target[vol]] = "full"
    BY DEF PublishedIsSound
  <2>1. /\ TypeOK /\ CallInv(vol) /\ RaceInv(vol) /\ FaultFreeInv(vol)
        /\ SafeVolume(vol) /\ PresentIsComplete /\ cut = {}
    BY IInvIsSafe DEF IInv
  <2>2. op[vol].pc = "idle"
    BY <2>1 DEF CallInv, Publishing, TypeOK, Calls
  <2>3. Held(vol)
    BY <2>1, <2>2 DEF FaultFreeInv, Stage
  <2>4. target[vol] \in Versions /\ vol \in ref[target[vol]]
    BY <2>3 DEF Held, Traces, RefersTo
  <2>5. bin[target[vol]] # "absent"
    BY <2>1, <2>4 DEF SafeVolume, ReferenceInv
  <2>6. target[vol] \notin torn => bin[target[vol]] # "partial"
    BY <2>1, <2>4 DEF PresentIsComplete, Halfway, RaceInv, Unsafe, Removing
  <2>7. bin[target[vol]] \in {"absent", "partial", "full"}
    BY <2>1, <2>4 DEF TypeOK
  <2>8. QED
    BY <2>3, <2>4, <2>5, <2>6, <2>7 DEF Held, Traces
<1>2. QED
  BY <1>1, Inductive, PTL

\* As long as nothing crashed or failed, nothing is left of a volume that was
\* unpublished: no mount, no metadata, no usage file.
THEOREM UnpublishedClean == Spec => [](FaultFree => UnpublishLeavesNothing)
<1>1. IInv /\ FaultFree => UnpublishLeavesNothing
  <2> SUFFICES ASSUME IInv, FaultFree, NEW vol \in Volumes \ raced,
                      pod[vol] = "gone"
               PROVE  /\ target[vol] = None /\ overlay[vol] = <<>>
                      /\ meta[vol] = None
                      /\ \A v \in Versions : vol \notin ref[v]
    BY DEF UnpublishLeavesNothing
  <2>1. TypeOK /\ CallInv(vol) /\ FaultFreeInv(vol)
    BY DEF IInv
  <2>2. op[vol].pc = "idle"
    BY <2>1 DEF CallInv, Publishing, TypeOK, Calls
  <2>3. Clean(vol)
    BY <2>1, <2>2 DEF FaultFreeInv, Stage
  <2>4. QED
    BY <2>3 DEF Clean, Traces, RefersTo
<1>2. QED
  BY <1>1, Inductive, PTL

\* As long as nothing crashed or failed, the gauge of a version is the number
\* of volumes that have metadata of it or are about to lose their count.
THEOREM GaugeAccurate == Spec => [](FaultFree => GaugeIsAccurate)
<1>1. IInv /\ FaultFree => GaugeIsAccurate
  BY DEF IInv
<1>2. QED
  BY <1>1, Inductive, PTL
=============================================================================
