-------------------------- MODULE InjectionProofs --------------------------
(***************************************************************************)
(* Proofs that IInv is an inductive invariant of Injection and that the    *)
(* safety properties follow from it, for any pods, sidecars, settings,     *)
(* edits and faults.                                                       *)
(***************************************************************************)
EXTENDS Injection, TLAPS

-----------------------------------------------------------------------------
(* What the webhook makes of a pod.                                        *)

\* The elements of a list, one by one.
LEMMA ListFacts ==
    ASSUME NEW S, NEW s \in Seq(S)
    PROVE  /\ DOMAIN s = 1..Len(s) /\ Len(s) \in Nat
           /\ \A i \in DOMAIN s : s[i] \in S
OBVIOUS

\* A list of the same length.
LEMMA ListOf ==
    ASSUME NEW S, NEW T, NEW s \in Seq(S), NEW f \in [DOMAIN s -> T]
    PROVE  f \in Seq(T) /\ DOMAIN f = DOMAIN s
OBVIOUS

\* An element of a concatenation is an element of one of its parts.
LEMMA ConcatFacts ==
    ASSUME NEW S, NEW s \in Seq(S), NEW t \in Seq(S)
    PROVE  /\ s \o t \in Seq(S)
           /\ \A i \in DOMAIN (s \o t) :
                 \/ \E j \in DOMAIN s : (s \o t)[i] = s[j]
                 \/ \E j \in DOMAIN t : (s \o t)[i] = t[j]
<1>1. /\ s \o t \in Seq(S) /\ Len(s \o t) = Len(s) + Len(t)
      /\ Len(s) \in Nat /\ Len(t) \in Nat
      /\ DOMAIN s = 1..Len(s) /\ DOMAIN t = 1..Len(t)
      /\ DOMAIN (s \o t) = 1..(Len(s) + Len(t))
  OBVIOUS
<1>2. ASSUME NEW i \in 1..(Len(s) + Len(t))
      PROVE  /\ i <= Len(s) => (s \o t)[i] = s[i]
             /\ i > Len(s) => (s \o t)[i] = t[i - Len(s)]
  BY <1>1
<1>3. ASSUME NEW i \in 1..(Len(s) + Len(t))
      PROVE  \/ \E j \in DOMAIN s : (s \o t)[i] = s[j]
             \/ \E j \in DOMAIN t : (s \o t)[i] = t[j]
  <2>1. CASE i <= Len(s)
    <3>1. i \in DOMAIN s
      BY <1>1, <2>1
    <3>2. QED
      BY <1>2, <2>1, <3>1
  <2>2. CASE i > Len(s)
    <3>1. i - Len(s) \in DOMAIN t
      BY <1>1, <2>2
    <3>2. QED
      BY <1>2, <2>2, <3>1
  <2>3. QED
    BY <1>1, <2>1, <2>2
<1>4. QED
  BY <1>1, <1>3

\* A container is instrumented and keeps its name.
LEMMA UpdateEffect ==
    ASSUME NEW c \in Container, c.preload = 0
    PROVE  /\ updateContainer(c) \in Container
           /\ updateContainer(c).name = c.name
           /\ updateContainer(c).preload = 1
<1> DEFINE b == shown.dk.proxy # "none"
           n == c.preload + 1
<1>1. b \in BOOLEAN /\ n \in 0..2 /\ n = 1
  OBVIOUS
<1>2. updateContainer(c) = [c EXCEPT !.preload = n, !.proxy = b]
  BY DEF updateContainer
<1> HIDE DEF b, n
<1>3. QED
  BY <1>1, <1>2 DEF Container

\* The first injection lists every container and instruments it once.
LEMMA InjectedEffect ==
    ASSUME TypeOK, PodInv, ~pod.injected, NEW q, q = Injected
    PROVE  /\ q \in PodsWith(q.entries)
           /\ q.at = pod.at /\ q.policy = pod.policy /\ q.failed = pod.failed
           /\ q.calls = pod.calls /\ q.reinvoked = pod.reinvoked
           /\ q.injected /\ q.installers = 1
           /\ 1..q.count \subseteq DOMAIN q.entries
           /\ \A i \in DOMAIN q.entries : q.entries[i] \in Names
           /\ \A i \in DOMAIN q.containers :
                 /\ q.containers[i].preload = 1 /\ i \in 1..q.count
                 /\ q.containers[i].name = q.entries[i]
<1> DEFINE cs == pod.containers
           e == [i \in DOMAIN cs |-> cs[i].name]
           us == [i \in DOMAIN cs |-> updateContainer(cs[i])]
<1>1. /\ pod \in PodsWith(pod.entries) /\ cs \in Seq(Container)
      /\ pod.installers = 0 /\ \A i \in DOMAIN cs : cs[i].preload = 0
  <2>1. pod \in PodsWith(pod.entries) /\ cs \in Seq(Container)
    BY DEF TypeOK, PodsWith
  <2>2. \A i \in DOMAIN cs : cs[i] \in Container
    BY <2>1, ListFacts
  <2>3. QED
    BY <2>1, <2>2 DEF PodInv, Container
<1>2. \A i \in DOMAIN cs : cs[i] \in Container /\ cs[i].name \in Names
  <2>1. \A i \in DOMAIN cs : cs[i] \in Container
    BY <1>1, ListFacts
  <2>2. QED
    BY <2>1 DEF Container
<1>3. /\ us \in Seq(Container) /\ DOMAIN us = DOMAIN cs
      /\ \A i \in DOMAIN cs : us[i].preload = 1 /\ us[i].name = cs[i].name
  <2>1. us \in [DOMAIN cs -> Container]
    BY <1>1, <1>2, UpdateEffect
  <2>2. us \in Seq(Container) /\ DOMAIN us = DOMAIN cs
    BY <1>1, <2>1, ListOf
  <2>3. QED
    BY <1>1, <1>2, <2>2, UpdateEffect
<1>4. DOMAIN cs = 1..Len(cs) /\ Len(cs) \in Nat
  BY <1>1, ListFacts
<1>5. q = [pod EXCEPT !.injected = TRUE, !.installers = @ + 1,
                      !.count = Len(cs), !.entries = e, !.containers = us]
  BY DEF Injected
<1>6. /\ DOMAIN e = DOMAIN cs
      /\ \A i \in DOMAIN cs : e[i] = cs[i].name
  OBVIOUS
<1> HIDE DEF cs, e, us
<1>7. /\ q \in PodsWith(q.entries)
      /\ q.at = pod.at /\ q.policy = pod.policy /\ q.failed = pod.failed
      /\ q.calls = pod.calls /\ q.reinvoked = pod.reinvoked
      /\ q.injected /\ q.installers = 1 /\ q.count = Len(cs)
      /\ q.entries = e /\ q.containers = us
  <2> DEFINE one == pod.installers + 1
             n == Len(cs)
  <2>1. one = 1 /\ one \in Nat /\ n \in Nat /\ n = Len(cs)
    BY <1>1, <1>4
  <2>2. q = [pod EXCEPT !.injected = TRUE, !.installers = one,
                        !.count = n, !.entries = e, !.containers = us]
    BY <1>5
  <2> HIDE DEF one, n
  <2>3. /\ q.at = pod.at /\ q.policy = pod.policy /\ q.failed = pod.failed
        /\ q.calls = pod.calls /\ q.reinvoked = pod.reinvoked
        /\ q.injected /\ q.installers = 1 /\ q.count = Len(cs)
        /\ q.entries = e /\ q.containers = us
    BY <1>1, <2>1, <2>2 DEF PodsWith
  <2>4. q \in PodsWith(q.entries)
    BY <1>1, <1>3, <2>1, <2>2, <2>3 DEF PodsWith
  <2>5. QED
    BY <2>3, <2>4
<1>8. QED
  BY <1>2, <1>3, <1>4, <1>6, <1>7

\* The reinvocation instruments the containers that are not yet.
LEMMA ReinstrumentedEffect ==
    ASSUME TypeOK, PodInv, pod.injected, NEW q, q = Reinstrumented
    PROVE  /\ q \in PodsWith(q.entries)
           /\ q.at = pod.at /\ q.policy = pod.policy /\ q.failed = pod.failed
           /\ q.calls = pod.calls /\ q.injected
           /\ q.installers = pod.installers
           /\ 1..q.count \subseteq DOMAIN q.entries
           /\ \A i \in DOMAIN q.entries : q.entries[i] \in Names
           /\ \A i \in DOMAIN q.containers : q.containers[i].preload <= 1
           /\ \/ q.reinvoked
              \/ /\ \A i \in 1..q.count : q.entries[i] = pod.entries[i]
                 /\ DOMAIN q.containers = DOMAIN pod.containers
                 /\ \A i \in DOMAIN q.containers :
                       q.containers[i] = pod.containers[i]
                 /\ q.count = pod.count
<1> DEFINE cs == pod.containers
           missing == {i \in DOMAIN cs : cs[i].preload = 0}
           e == [j \in DOMAIN pod.entries \cup missing |->
                   IF j \in missing THEN cs[j].name ELSE pod.entries[j]]
           us == [i \in DOMAIN cs |->
                    IF i \in missing THEN updateContainer(cs[i]) ELSE cs[i]]
<1>1. /\ pod \in PodsWith(pod.entries) /\ cs \in Seq(Container)
      /\ pod.count \in Nat /\ 1..pod.count \subseteq DOMAIN pod.entries
      /\ \A i \in DOMAIN pod.entries : pod.entries[i] \in Names
      /\ \A i \in DOMAIN cs : cs[i].preload <= 1
  BY DEF TypeOK, PodsWith, PodInv
<1>2. \A i \in DOMAIN cs : cs[i] \in Container /\ cs[i].name \in Names
  <2>1. \A i \in DOMAIN cs : cs[i] \in Container
    BY <1>1, ListFacts
  <2>2. QED
    BY <2>1 DEF Container
<1>3. /\ us \in Seq(Container) /\ DOMAIN us = DOMAIN cs
      /\ \A i \in DOMAIN cs : us[i].preload <= 1
  <2>1. us \in [DOMAIN cs -> Container]
    BY <1>1, <1>2, UpdateEffect
  <2>2. us \in Seq(Container) /\ DOMAIN us = DOMAIN cs
    BY <1>1, <2>1, ListOf
  <2>3. QED
    BY <1>1, <1>2, <2>2, UpdateEffect
<1>4. /\ DOMAIN e = DOMAIN pod.entries \cup missing
      /\ \A j \in DOMAIN e : e[j] \in Names
      /\ missing = {} => \A j \in DOMAIN e : e[j] = pod.entries[j]
      /\ missing = {} => \A i \in DOMAIN cs : us[i] = cs[i]
  BY <1>1, <1>2
<1>5. q = [pod EXCEPT !.reinvoked = (missing # {}), !.entries = e,
                      !.containers = us]
  BY DEF Reinstrumented
<1>6. (missing # {}) \in BOOLEAN
  OBVIOUS
<1> HIDE DEF cs, missing, e, us
<1>7. /\ q \in PodsWith(q.entries)
      /\ q.at = pod.at /\ q.policy = pod.policy /\ q.failed = pod.failed
      /\ q.calls = pod.calls /\ q.injected /\ q.count = pod.count
      /\ q.installers = pod.installers
      /\ q.reinvoked = (missing # {})
      /\ q.entries = e /\ q.containers = us
  BY <1>1, <1>3, <1>5, <1>6 DEF PodsWith
<1>8. QED
  BY <1>1, <1>3, <1>4, <1>7 DEF cs

-----------------------------------------------------------------------------
(* The inductive invariant.                                                *)

\* The invariant as it is about a pod q.
PodOK(q) ==
    /\ q \in PodsWith(q.entries)
    /\ 1..q.count \subseteq DOMAIN q.entries
    /\ \A i \in DOMAIN q.entries : q.entries[i] \in Names
    /\ q.installers = IF q.injected THEN 1 ELSE 0
    /\ \A i \in DOMAIN q.containers :
          q.containers[i].preload <= IF q.injected THEN 1 ELSE 0
    /\ q.injected => q.calls > 0
    /\ q.reinvoked => q.calls = 2
    /\ ~q.reinvoked => \A i \in DOMAIN q.containers :
          q.containers[i].preload > 0
             => q.containers[i].name \in {q.entries[j] : j \in 1..q.count}
    /\ q.at \in {"configured", "running"} /\ (q.policy = "fail" \/ ~q.failed)
          => q.conf = {q.entries[j] : j \in 1..q.count}

\* The other variables keep their types.
RestOK ==
    /\ now \in Settings /\ view \in [Processes -> Settings]
    /\ secret \in Script \cup {Absent} /\ work \in Script \cup {Absent}
    /\ queued \in BOOLEAN
    /\ edits \in 0..MaxEdits /\ faults \in 0..MaxFaults

\* The invariant splits into what is said of the pod and the rest.
LEMMA IInvParts == (IInv <=> RestOK /\ PodOK(pod)) /\ (IInv' <=> RestOK' /\ PodOK(pod'))
BY DEF IInv, TypeOK, PodInv, Listed, RestOK, PodOK

\* No pod, and a pod as its user created it.
LEMMA NoPodOK ==
    /\ PodOK(NoPod) /\ NoPod.at = "none" /\ NoPod.entries = [i \in {} |-> Absent]
    /\ NoPod.count = 0 /\ NoPod.calls = 0 /\ NoPod.installers = 0
    /\ ~NoPod.injected /\ ~NoPod.reinvoked /\ ~NoPod.failed
<1> DEFINE e == [i \in {} |-> Absent]
<1>1. /\ NoPod.at = "none" /\ NoPod.entries = e
      /\ NoPod.containers = <<>> /\ NoPod.conf = {}
      /\ NoPod.count = 0 /\ NoPod.calls = 0 /\ NoPod.installers = 0
      /\ ~NoPod.injected /\ ~NoPod.reinvoked /\ ~NoPod.failed
  BY DEF NoPod
<1>2. <<>> \in Seq(Container) /\ DOMAIN <<>> = {} /\ DOMAIN e = {}
  OBVIOUS
<1>3. NoPod \in PodsWith(e)
  <2> HIDE DEF e
  <2>1. 0 \in Nat /\ 0 \in 0..2 /\ "unset" \in Answers
    BY DEF Answers
  <2>2. QED
    BY <1>2, <2>1 DEF NoPod, PodsWith, e
<1>4. 1..0 = {}
  OBVIOUS
<1> HIDE DEF e
<1>5. PodOK(NoPod)
  BY <1>1, <1>2, <1>3, <1>4 DEF PodOK
<1>6. QED
  BY <1>1, <1>5 DEF e

\* The invariant holds before the pod is created.
LEMMA InitIInv == Init => IInv
<1> SUFFICES ASSUME Init PROVE RestOK /\ PodOK(pod)
  BY IInvParts
<1>1. PodOK(pod)
  BY NoPodOK DEF Init
<1>2. RestOK
  BY InjectionAssumption DEF Init, RestOK
<1>3. QED
  BY <1>1, <1>2

\* The namespace controller, the informers and the users keep the types.
LEMMA RestStep ==
    ASSUME RestOK, Next
    PROVE  RestOK'
<1> USE DEF RestOK, Works, Fails, NamespaceStep
<1>0. MaxEdits \in Nat /\ MaxFaults \in Nat
  BY InjectionAssumption
<1>1. CASE ReconcileNamespace
  <2>1. newScript(seen) \in Script
    <3>1. /\ seen.dk \in DynaKubes \ {Absent} /\ seen.tokens \in TokenValues \ {Absent}
      BY <1>1 DEF ReconcileNamespace, Readable, seen, Processes, Settings
    <3>2. (seen.dk.proxy = "set") \in BOOLEAN
      OBVIOUS
    <3>3. QED
      BY <3>1, <3>2 DEF newScript, Script
  <2>2. QED
    BY <1>1, <2>1 DEF ReconcileNamespace
<1>2. CASE \/ NamespaceNotAssigned \/ ensureSecretDeleted
           \/ ReconcileNamespaceFails \/ CreateOrUpdateSecretIfNotExists
           \/ CreateOrUpdateSecretFails
  <2>1. /\ UNCHANGED <<now, view, edits>> /\ (Works \/ Fails)
        /\ queued' \in BOOLEAN
        /\ secret' \in {secret, work} /\ work' \in {work, Absent}
    <3>1. CASE NamespaceNotAssigned \/ ensureSecretDeleted \/ ReconcileNamespaceFails
      BY <3>1 DEF NamespaceNotAssigned, ensureSecretDeleted,
         ReconcileNamespaceFails
    <3>2. CASE CreateOrUpdateSecretIfNotExists \/ CreateOrUpdateSecretFails
      BY <3>2 DEF CreateOrUpdateSecretIfNotExists, CreateOrUpdateSecretFails
    <3>3. QED
      BY <1>2, <3>1, <3>2
  <2>2. QED
    BY <1>0, <2>1
<1>3. CASE OperatorRestarts
  BY <1>0, <1>3 DEF OperatorRestarts, Processes
<1>4. CASE Webhook
  <2>1. /\ UNCHANGED <<now, view, secret, queued, work, edits>>
        /\ Works \/ Fails
    BY <1>4 DEF Webhook, Handle, HandleErrored
  <2>2. QED
    BY <1>0, <2>1
<1>5. CASE CreatePod \/ AddSidecar \/ Admit \/ Kubelet
  <2>1. CASE CreatePod \/ Admit \/ RunInitScript \/ StartContainers
    BY <2>1 DEF CreatePod, Admit, RunInitScript, StartContainers
  <2>2. CASE AddSidecar
    BY <2>2 DEF AddSidecar
  <2>3. CASE InitScriptFails
    BY <1>0, <2>3 DEF InitScriptFails
  <2>4. QED
    BY <1>5, <2>1, <2>2, <2>3 DEF Kubelet
<1>6. CASE \E p \in Processes : Sync(p)
  <2>1. PICK p \in Processes : Sync(p)
    BY <1>6
  <2>2. view' \in [Processes -> Settings]
    BY <2>1 DEF Sync
  <2>3. queued' \in BOOLEAN
    BY <2>1 DEF Sync
  <2>4. QED
    BY <2>1, <2>2, <2>3 DEF Sync
<1>7. CASE Edit
  <2>1. now' \in Settings
    BY <1>7 DEF Edit, Settings
  <2>2. QED
    BY <1>0, <1>7, <2>1 DEF Edit
<1>8. CASE DeletePod
  BY <1>0, <1>8 DEF DeletePod
<1>9. QED
  BY <1>1, <1>2, <1>3, <1>4, <1>5, <1>6, <1>7, <1>8 DEF Next, Namespace

\* The answer of the webhook.
LEMMA HandleOK ==
    ASSUME TypeOK, PodInv, PodOK(pod), Handle
    PROVE  PodOK(pod')
<1> DEFINE n == pod.calls + 1
<1>0. pod.at = "admission"
  BY DEF Handle, Called
<1>1. pod.calls \in {0, 1} /\ ~pod.reinvoked
  BY DEF Handle, Called, PodOK
<1>2. n \in 0..2 /\ n > 0 /\ (pod.calls > 0 => n = 2)
  BY <1>1
<1>3. ASSUME NEW q, q \in PodsWith(q.entries), q.calls = pod.calls,
             pod' = [q EXCEPT !.calls = @ + 1, !.altered = FALSE]
      PROVE  /\ pod' \in PodsWith(q.entries) /\ pod'.entries = q.entries
             /\ pod'.calls = n /\ pod'.at = q.at /\ pod'.count = q.count
             /\ pod'.containers = q.containers /\ pod'.injected = q.injected
             /\ pod'.installers = q.installers /\ pod'.reinvoked = q.reinvoked
             /\ pod'.policy = q.policy /\ pod'.failed = q.failed
             /\ pod'.conf = q.conf
  <2>1. pod' = [q EXCEPT !.calls = n, !.altered = FALSE]
    BY <1>3
  <2> HIDE DEF n
  <2>2. QED
    BY <1>2, <1>3, <2>1 DEF PodsWith
<1> HIDE DEF n
<1>4. PICK q : q = Patched
  OBVIOUS
<1>5. pod' = [q EXCEPT !.calls = @ + 1, !.altered = FALSE]
  BY <1>4 DEF Handle
<1>6. CASE q = pod
  <2>1. /\ pod' \in PodsWith(q.entries) /\ pod'.entries = q.entries
        /\ pod'.calls = n /\ pod'.at = q.at /\ pod'.count = q.count
        /\ pod'.containers = q.containers /\ pod'.injected = q.injected
        /\ pod'.installers = q.installers /\ pod'.reinvoked = q.reinvoked
        /\ pod'.policy = q.policy /\ pod'.failed = q.failed
        /\ pod'.conf = q.conf
    BY <1>3, <1>5, <1>6 DEF PodOK
  <2>2. QED
    BY <1>1, <1>2, <1>6, <2>1 DEF PodOK
<1>7. CASE ~pod.injected /\ q = Injected
  <2>1. /\ pod' \in PodsWith(q.entries) /\ pod'.entries = q.entries
        /\ pod'.calls = n /\ pod'.at = q.at /\ pod'.count = q.count
        /\ pod'.containers = q.containers /\ pod'.injected = q.injected
        /\ pod'.installers = q.installers /\ pod'.reinvoked = q.reinvoked
        /\ pod'.policy = q.policy /\ pod'.failed = q.failed
        /\ pod'.conf = q.conf
    <3>1. q \in PodsWith(q.entries) /\ q.calls = pod.calls
      BY <1>7, InjectedEffect
    <3>2. QED
      BY <1>3, <1>5, <3>1
  <2>2. QED
    <3>1. /\ pod'.at = "admission" /\ pod'.injected /\ pod'.installers = 1
          /\ pod'.calls > 0
          /\ 1..q.count \subseteq DOMAIN q.entries
          /\ \A i \in DOMAIN q.entries : q.entries[i] \in Names
          /\ \A i \in DOMAIN q.containers : q.containers[i].preload <= 1
      BY <1>0, <1>2, <1>7, <2>1, InjectedEffect DEF PodOK
    <3>2. pod'.reinvoked => pod'.calls = 2
      BY <1>1, <1>2, <1>7, <2>1, InjectedEffect DEF PodOK
    <3>3. ~pod'.reinvoked => \A i \in DOMAIN q.containers :
             q.containers[i].preload > 0
                => q.containers[i].name \in {q.entries[j] : j \in 1..q.count}
      BY <1>1, <1>7, <2>1, InjectedEffect DEF PodOK
    <3>4. QED
      BY <2>1, <3>1, <3>2, <3>3 DEF PodOK
<1>8. CASE pod.injected /\ q = Reinstrumented
  <2>1. /\ pod' \in PodsWith(q.entries) /\ pod'.entries = q.entries
        /\ pod'.calls = n /\ pod'.at = q.at /\ pod'.count = q.count
        /\ pod'.containers = q.containers /\ pod'.injected = q.injected
        /\ pod'.installers = q.installers /\ pod'.reinvoked = q.reinvoked
        /\ pod'.policy = q.policy /\ pod'.failed = q.failed
        /\ pod'.conf = q.conf
    <3>1. q \in PodsWith(q.entries) /\ q.calls = pod.calls
      BY <1>8, ReinstrumentedEffect
    <3>2. QED
      BY <1>3, <1>5, <3>1
  <2>2. QED
    <3>1. /\ pod'.at = "admission" /\ pod'.injected /\ pod'.installers = 1
          /\ pod'.calls > 0
          /\ 1..q.count \subseteq DOMAIN q.entries
          /\ \A i \in DOMAIN q.entries : q.entries[i] \in Names
          /\ \A i \in DOMAIN q.containers : q.containers[i].preload <= 1
      BY <1>0, <1>2, <1>8, <2>1, ReinstrumentedEffect DEF PodOK
    <3>2. pod'.reinvoked => pod'.calls = 2
      BY <1>1, <1>2, <1>8, <2>1, ReinstrumentedEffect DEF PodOK
    <3>3. ~pod'.reinvoked => \A i \in DOMAIN q.containers :
             q.containers[i].preload > 0
                => q.containers[i].name \in {q.entries[j] : j \in 1..q.count}
      BY <1>1, <1>8, <2>1, ReinstrumentedEffect DEF PodOK
    <3>4. QED
      BY <2>1, <3>1, <3>2, <3>3 DEF PodOK
<1>9. QED
  BY <1>4, <1>6, <1>7, <1>8 DEF Patched, Unpatched

\* What the users, the other webhooks, the API server and the kubelet do.
LEMMA PodStep ==
    ASSUME IInv, RestOK, PodOK(pod), Next
    PROVE  PodOK(pod')
<1>0. /\ pod \in PodsWith(pod.entries) /\ pod.containers \in Seq(Container)
      /\ pod.count \in Nat
  BY DEF PodOK, PodsWith
<1>1. CASE Handle
  BY <1>1, HandleOK DEF IInv
<1>2. CASE HandleErrored \/ DeletePod
  BY <1>2, NoPodOK DEF HandleErrored, DeletePod
<1>3. CASE CreatePod
  <2>1. PICK p \in PodSpecs :
           pod' = [NoPod EXCEPT !.at = "admission", !.inject = p.inject, !.policy = p.policy,
                     !.containers = [i \in DOMAIN p.names |->
                                       [name |-> p.names[i], preload |-> 0, proxy |-> FALSE]]]
    BY <1>3 DEF CreatePod
  <2> DEFINE cs == [i \in DOMAIN p.names |->
                      [name |-> p.names[i], preload |-> 0, proxy |-> FALSE]]
  <2>2. /\ p.names \in Seq(Names) /\ p.inject \in Answers
        /\ p.policy \in {"silent", "fail"}
    BY InjectionAssumption
  <2>3. ASSUME NEW n \in Names
        PROVE  [name |-> n, preload |-> 0, proxy |-> FALSE] \in Container
    BY DEF Container
  <2>4. cs \in [DOMAIN p.names -> Container]
    BY <2>2, <2>3, ListFacts
  <2>5. cs \in Seq(Container) /\ \A i \in DOMAIN cs : cs[i].preload = 0
    BY <2>2, <2>4, ListOf
  <2>6. pod' = [NoPod EXCEPT !.at = "admission", !.inject = p.inject,
                             !.policy = p.policy, !.containers = cs]
    BY <2>1
  <2> HIDE DEF cs
  <2>7. NoPod \in PodsWith(NoPod.entries)
    BY NoPodOK DEF PodOK
  <2>8. /\ pod' \in PodsWith(NoPod.entries) /\ pod'.entries = NoPod.entries
        /\ pod'.at = "admission" /\ pod'.containers = cs
        /\ pod'.count = NoPod.count /\ pod'.calls = NoPod.calls
        /\ pod'.installers = NoPod.installers
        /\ pod'.injected = NoPod.injected /\ pod'.reinvoked = NoPod.reinvoked
    BY <2>2, <2>5, <2>6, <2>7 DEF PodsWith
  <2>9. QED
    BY <2>5, <2>8, NoPodOK DEF PodOK
<1>4. CASE AddSidecar
  <2>1. PICK n \in Sidecars, front \in BOOLEAN :
           LET c == <<[name |-> n, preload |-> 0, proxy |-> FALSE]>>
           IN  pod' = [pod EXCEPT !.altered = TRUE,
                         !.containers = IF front THEN c \o @ ELSE @ \o c]
    BY <1>4 DEF AddSidecar
  <2> DEFINE d == [name |-> n, preload |-> 0, proxy |-> FALSE]
             c == <<d>>
             cs == IF front THEN c \o pod.containers ELSE pod.containers \o c
  <2>2. d \in Container /\ d.preload = 0
    BY InjectionAssumption DEF Container
  <2>3. pod' = [pod EXCEPT !.altered = TRUE, !.containers = cs]
    BY <2>1
  <2> HIDE DEF d
  <2>4. c \in Seq(Container) /\ \A j \in DOMAIN c : c[j] = d
    BY <2>2
  <2> HIDE DEF c
  <2>5. /\ cs \in Seq(Container)
        /\ \A i \in DOMAIN cs : \/ cs[i] = d
                                \/ \E j \in DOMAIN pod.containers :
                                      cs[i] = pod.containers[j]
    BY <1>0, <2>4, ConcatFacts
  <2> HIDE DEF cs
  <2>6. /\ pod' \in PodsWith(pod.entries) /\ pod'.entries = pod.entries
        /\ pod'.containers = cs
        /\ pod'.at = pod.at /\ pod'.policy = pod.policy
        /\ pod'.failed = pod.failed /\ pod'.conf = pod.conf
        /\ pod'.count = pod.count /\ pod'.calls = pod.calls
        /\ pod'.installers = pod.installers
        /\ pod'.injected = pod.injected /\ pod'.reinvoked = pod.reinvoked
    BY <1>0, <2>3, <2>5 DEF PodsWith
  <2>7. QED
    BY <2>2, <2>5, <2>6 DEF PodOK
<1>5. CASE Admit \/ RunInitScript \/ InitScriptFails \/ StartContainers
  <2>1. /\ pod' \in PodsWith(pod.entries) /\ pod'.entries = pod.entries
        /\ pod'.containers = pod.containers /\ pod'.policy = pod.policy
        /\ pod'.count = pod.count /\ pod'.calls = pod.calls
        /\ pod'.installers = pod.installers
        /\ pod'.injected = pod.injected /\ pod'.reinvoked = pod.reinvoked
        /\ pod'.at \in {"configured", "running"} /\ (pod'.policy = "fail" \/ ~pod'.failed)
              => pod'.conf = {pod.entries[i] : i \in 1..pod.count}
    <3>1. CASE Admit
      BY <1>0, <3>1 DEF Admit, PodsWith
    <3>2. CASE RunInitScript
      <4> DEFINE l == {pod.entries[i] : i \in 1..pod.count}
      <4>1. l \in SUBSET Names
        BY DEF PodOK
      <4>2. pod' = [pod EXCEPT !.at = "configured", !.conf = l]
        BY <3>2 DEF RunInitScript
      <4> HIDE DEF l
      <4>3. /\ pod' \in PodsWith(pod.entries) /\ pod'.entries = pod.entries
            /\ pod'.containers = pod.containers /\ pod'.policy = pod.policy
            /\ pod'.count = pod.count /\ pod'.calls = pod.calls
            /\ pod'.installers = pod.installers
            /\ pod'.injected = pod.injected /\ pod'.reinvoked = pod.reinvoked
            /\ pod'.conf = l
        BY <1>0, <4>1, <4>2 DEF PodsWith
      <4>4. QED
        BY <4>3 DEF l
    <3>3. CASE InitScriptFails
      BY <1>0, <3>3 DEF InitScriptFails, PodsWith
    <3>4. CASE StartContainers
      BY <1>0, <3>4 DEF StartContainers, PodsWith, PodOK
    <3>5. QED
      BY <1>5, <3>1, <3>2, <3>3, <3>4
  <2>2. QED
    BY <2>1 DEF PodOK
<1>6. CASE pod' = pod
  BY <1>6
<1>7. QED
  BY <1>1, <1>2, <1>3, <1>4, <1>5, <1>6 DEF Next, Namespace, Webhook, Kubelet,
     NamespaceNotAssigned, ensureSecretDeleted, ReconcileNamespace,
     ReconcileNamespaceFails, CreateOrUpdateSecretIfNotExists,
     CreateOrUpdateSecretFails, NamespaceStep, OperatorRestarts, Sync, Edit

\* Every step keeps the invariant.
LEMMA StepIInv == IInv /\ [Next]_vars => IInv'
<1> SUFFICES ASSUME IInv, [Next]_vars PROVE IInv'
  OBVIOUS
<1>1. RestOK /\ PodOK(pod)
  BY IInvParts
<1>2. CASE Next
  BY <1>1, <1>2, RestStep, PodStep, IInvParts
<1>3. CASE UNCHANGED vars
  <2>1. RestOK' /\ PodOK(pod')
    BY <1>1, <1>3 DEF vars, RestOK
  <2>2. QED
    BY <2>1, IInvParts
<1>4. QED
  BY <1>2, <1>3

-----------------------------------------------------------------------------
(* The theorems.                                                           *)

\* In every reachable state only an injected pod is instrumented, once, and
\* without a reinvocation the containers that are instrumented are those the
\* init script was given.
THEOREM Inductive == Spec => []IInv
BY InitIInv, StepIInv, PTL DEF Spec

\* Every variable keeps its type; above all CONTAINERS_COUNT never counts a
\* position for which the install container was given no name.
THEOREM TypeCorrect == Spec => []TypeOK
<1>1. IInv => TypeOK
  BY DEF IInv
<1>2. QED
  BY <1>1, Inductive, PTL

\* The webhook is idempotent: whatever happens between its two calls for a
\* pod, the pod gets one install container and each container one LD_PRELOAD.
THEOREM Idempotent == Spec => []InjectedOnce
<1>1. IInv => InjectedOnce
  <2> SUFFICES ASSUME IInv PROVE InjectedOnce
    OBVIOUS
  <2>1. /\ pod.installers = IF pod.injected THEN 1 ELSE 0
        /\ \A i \in DOMAIN pod.containers :
              /\ pod.containers[i].preload <= IF pod.injected THEN 1 ELSE 0
              /\ pod.containers[i].preload \in 0..2
    <3>1. pod.containers \in Seq(Container)
      BY DEF IInv, TypeOK, PodsWith
    <3>2. \A i \in DOMAIN pod.containers : pod.containers[i] \in Container
      BY <3>1, ListFacts
    <3>3. QED
      BY <3>2 DEF IInv, PodInv, Container
  <2>2. QED
    BY <2>1 DEF InjectedOnce
<1>2. QED
  BY <1>1, Inductive, PTL

\* Unless containers came after the first injection, a running container that
\* preloads the agent has the file the init script writes for it, if that
\* script went through or was not allowed to fail.
THEOREM ConfiguredWhenRunning == Spec => []InstrumentedIsConfigured
<1>1. IInv => InstrumentedIsConfigured
  BY DEF IInv, PodInv, InstrumentedIsConfigured
<1>2. QED
  BY <1>1, Inductive, PTL
=============================================================================
