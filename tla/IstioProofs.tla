---------------------------- MODULE IstioProofs ----------------------------
(***************************************************************************)
(* Proofs that IInv is an inductive invariant of Istio, that RoutedIsKnown *)
(* follows from it and that no step violates NeededIsKept, for any hosts,  *)
(* lists of hosts, edits and faults.                                       *)
(***************************************************************************)
EXTENDS Istio, FiniteSetTheorems, TLAPS

-----------------------------------------------------------------------------
(* What the helpers of the actions do.                                     *)

\* The elements of a list, of its head and of its tail.
LEMMA ListElements ==
    ASSUME NEW S, NEW s \in Seq(S)
    PROVE  /\ ToSet(s) \subseteq S
           /\ ToSet(<<>>) = {}
           /\ s # <<>> => /\ Head(s) \in ToSet(s) /\ Tail(s) \in Seq(S)
                          /\ ToSet(Tail(s)) \subseteq ToSet(s)
BY DEF ToSet

\* A role needs hosts.
LEMMA NeedsHosts ==
    ASSUME NEW role \in Roles, NEW a \in Hosts, NEW e \in HostLists
    PROVE  /\ comHosts(role, a, e) \in Seq(Hosts)
           /\ ToSet(comHosts(role, a, e)) = Needs(role, a, e)
           /\ Needs(role, a, e) \subseteq Hosts
<1>1. comHosts(role, a, e) \in Seq(Hosts)
  BY IstioAssumption DEF comHosts
<1>2. QED
  BY <1>1, ListElements DEF Needs

\* Who starts to create has the hosts of his role to do.
LEMMA BeginEffect ==
    ASSUME NEW r \in Runs, NEW role \in Roles,
           NEW s, \E failed \in BOOLEAN : s = Begin(r, role, failed)
    PROVE  /\ s \in Runs
           /\ s.at = "create" /\ s.role = role /\ s.kind = "ServiceEntry"
           /\ s.api = r.api /\ s.ends = r.ends
           /\ ToSet(s.todo) \subseteq Needs(role, r.api, r.ends)
<1>1. r.api \in Hosts /\ r.ends \in HostLists
  BY DEF Runs
<1>2. PICK t \in {comHosts(role, r.api, r.ends), <<>>} :
        s = [r EXCEPT !.at = "create", !.role = role,
                      !.kind = "ServiceEntry", !.todo = t, !.upd = FALSE]
  <2>1. PICK failed \in BOOLEAN : s = Begin(r, role, failed)
    OBVIOUS
  <2>2. CASE verifyIstioCrdAvailability(failed)
    BY <2>1, <2>2, Zenon DEF Begin
  <2>3. CASE ~verifyIstioCrdAvailability(failed)
    BY <2>1, <2>3, Zenon DEF Begin
  <2>4. QED
    BY <2>2, <2>3
<1>3. t \in Seq(Hosts) /\ ToSet(t) \subseteq Needs(role, r.api, r.ends)
  <2>1. CASE t = comHosts(role, r.api, r.ends)
    BY <1>1, <2>1, NeedsHosts
  <2>2. CASE t = <<>>
    <3>1. <<>> \in Seq(Hosts)
      OBVIOUS
    <3>2. ToSet(<<>>) = {}
      BY <3>1, ListElements
    <3>3. QED
      BY <2>2, <3>1, <3>2
  <2>3. QED
    BY <2>1, <2>2
<1>4. QED
  BY <1>2, <1>3 DEF Runs, Kinds

\* A run that has not begun.
LEMMA NoRunEffect ==
    ASSUME api \in Hosts, ends \in HostLists
    PROVE  /\ NoRun \in Runs /\ NoRun.at = "idle"
           /\ NoRun.api = api /\ NoRun.ends = ends
BY DEF NoRun, Runs, Roles, Kinds

\* After the ServiceEntry of a host comes its VirtualService, then the next
\* host.
LEMMA NextHostEffect ==
    ASSUME NEW r \in Runs, NEW u \in BOOLEAN, r.todo # <<>>,
           NEW s, s = NextHost([r EXCEPT !.upd = u])
    PROVE  /\ s \in Runs
           /\ s.at = r.at /\ s.role = r.role /\ s.api = r.api /\ s.ends = r.ends
           /\ s.doomed = r.doomed
           /\ \/ /\ r.kind = "ServiceEntry" /\ s.kind = "VirtualService"
                 /\ s.todo = r.todo
              \/ /\ r.kind = "VirtualService" /\ s.kind = "ServiceEntry"
                 /\ s.todo = Tail(r.todo)
<1>1. r.todo \in Seq(Hosts) /\ Tail(r.todo) \in Seq(Hosts)
  BY ListElements DEF Runs
<1>2. QED
  BY <1>1 DEF NextHost, Runs, Kinds

-----------------------------------------------------------------------------
(* Type correctness, and the frame of each action.                         *)

\* What a run, its objects and the history become in a step.
LEMMA TypeStep ==
    ASSUME TypeOK, [Next]_vars
    PROVE  TypeOK'
<1> USE DEF TypeOK, Works, Fails, Quiet
<1>0. MaxEdits \in Nat /\ MaxFaults \in Nat
  BY IstioAssumption
<1>1. CASE ReconcileIstio
  <2>1. run' \in Runs
    BY <1>1, NoRunEffect, BeginEffect DEF ReconcileIstio, Roles
  <2>2. faults' \in 0..MaxFaults
    BY <1>0, <1>1 DEF ReconcileIstio
  <2>3. QED
    BY <1>1, <2>1, <2>2 DEF ReconcileIstio
<1>2. CASE handleIstioConfiguration
  <2>1. run.kind \in Kinds /\ run.role \in Roles /\ run.upd \in BOOLEAN
        /\ Head(run.todo) \in Hosts
    BY <1>2, ListElements DEF handleIstioConfiguration, Runs
  <2>2. run' \in Runs
    <3>1. PICK u \in BOOLEAN : run' = NextHost([run EXCEPT !.upd = u])
      BY <1>2, <2>1 DEF handleIstioConfiguration
    <3>2. QED
      BY <1>2, <3>1, NextHostEffect DEF handleIstioConfiguration
  <2>3. objs' \in [Kinds \X Hosts -> Roles \cup {Absent}]
    BY <1>2, <2>1 DEF handleIstioConfiguration
  <2>4. QED
    BY <1>2, <2>2, <2>3 DEF handleIstioConfiguration
<1>3. CASE ListVirtualServices
  <2>1. run' \in Runs
    BY <1>3 DEF ListVirtualServices, Runs, Kinds, Doomed
  <2>2. QED
    BY <1>3, <2>1 DEF ListVirtualServices
<1>4. CASE ListServiceEntries
  <2>1. run' \in Runs
    BY <1>4 DEF ListServiceEntries, Runs, Kinds, Doomed
  <2>2. QED
    BY <1>4, <2>1 DEF ListServiceEntries
<1>5. ASSUME NEW h \in Hosts, Delete(h) PROVE TypeOK'
  <2>1. run' \in Runs
    BY <1>5 DEF Delete, Runs
  <2>2. objs' \in [Kinds \X Hosts -> Roles \cup {Absent}]
    BY <1>5 DEF Delete
  <2>3. QED
    BY <1>5, <2>1, <2>2 DEF Delete
<1>6. ASSUME NEW h \in Hosts, DeleteFails(h) PROVE TypeOK'
  <2>1. run' \in Runs
    BY <1>6 DEF DeleteFails, Runs
  <2>2. faults' \in 0..MaxFaults
    BY <1>0, <1>6 DEF DeleteFails
  <2>3. QED
    BY <1>6, <2>1, <2>2 DEF DeleteFails
<1>7. CASE RoleDone
  <2>1. run' \in Runs
    BY <1>7, NoRunEffect, BeginEffect DEF RoleDone, Roles
  <2>2. faults' \in 0..MaxFaults
    BY <1>0, <1>7 DEF RoleDone
  <2>3. QED
    BY <1>7, <2>1, <2>2 DEF RoleDone
<1>8. CASE RequestFailsOrCrash
  <2>1. run' \in Runs
    BY <1>8, NoRunEffect DEF RequestFailsOrCrash
  <2>2. faults' \in 0..MaxFaults
    BY <1>0, <1>8 DEF RequestFailsOrCrash
  <2>3. QED
    BY <1>8, <2>1, <2>2 DEF RequestFailsOrCrash
<1>9. CASE EditHosts
  <2>1. wanted' \in [Hosts -> SUBSET Roles]
    BY <1>9 DEF EditHosts, Wanted
  <2>2. edits' \in 0..MaxEdits
    BY <1>0, <1>9 DEF EditHosts
  <2>3. QED
    BY <1>9, <2>1, <2>2 DEF EditHosts
<1>10. CASE EditMesh
  <2>1. edits' \in 0..MaxEdits
    BY <1>0, <1>10 DEF EditMesh
  <2>2. objs' \in [Kinds \X Hosts -> Roles \cup {Absent}]
    BY <1>10 DEF EditMesh
  <2>3. mesh' \subseteq Crds
    BY <1>10 DEF EditMesh
  <2>4. disturbed' \in BOOLEAN
    BY <1>10 DEF EditMesh
  <2>5. QED
    BY <1>10, <2>1, <2>2, <2>3, <2>4 DEF EditMesh
<1>11. CASE UNCHANGED vars
  BY <1>11 DEF vars
<1>12. QED
  BY <1>1, <1>2, <1>3, <1>4, <1>5, <1>6, <1>7, <1>8, <1>9, <1>10, <1>11
     DEF Next, Reconcile

-----------------------------------------------------------------------------
(* The inductive invariant.                                                *)

\* The objects of a type come after the type and go with it.
LEMMA TypedStep ==
    ASSUME TypeOK, TypedInv, [Next]_vars
    PROVE  TypedInv'
<1>0. /\ objs \in [Kinds \X Hosts -> Roles \cup {Absent}]
      /\ run.kind \in Kinds /\ run.todo \in Seq(Hosts)
  BY DEF TypeOK, Runs
<1>1. CASE handleIstioConfiguration
  <2>0. Head(run.todo) \in Hosts
    BY <1>0, <1>1, ListElements DEF handleIstioConfiguration
  <2>1. /\ mesh' = mesh
        /\ \A o \in Kinds \X Hosts :
             \/ objs'[o] = objs[o]
             \/ o = <<run.kind, Head(run.todo)>> /\ run.kind \in mesh
    BY <1>0, <1>1, <2>0 DEF handleIstioConfiguration, Quiet
  <2>2. QED
    BY <2>1 DEF TypedInv
<1>2. CASE \E h \in Hosts : Delete(h)
  <2>1. PICK h \in Hosts : Delete(h)
    BY <1>2
  <2>2. /\ mesh' = mesh
        /\ \A o \in Kinds \X Hosts : objs'[o] \in {objs[o], Absent}
    BY <1>0, <2>1 DEF Delete, Quiet
  <2>3. QED
    BY <2>2 DEF TypedInv
<1>3. CASE EditMesh
  BY <1>3 DEF EditMesh, TypedInv
<1>4. CASE UNCHANGED <<objs, mesh>>
  BY <1>4 DEF TypedInv
<1>5. QED
  BY <1>1, <1>2, <1>3, <1>4 DEF Next, Reconcile, ReconcileIstio,
     ListVirtualServices, ListServiceEntries, DeleteFails, RoleDone,
     RequestFailsOrCrash, EditHosts, Quiet, vars

\* The labels of both kinds of objects.
LEMMA Labels ==
    /\ LabelInv <=> \A h \in Hosts :
          /\ ServiceEntry(h) \in wanted[h] \cup {Absent}
          /\ VirtualService(h) \in wanted[h] \cup {Absent}
    /\ LabelInv' <=> \A h \in Hosts :
          /\ ServiceEntry(h)' \in wanted'[h] \cup {Absent}
          /\ VirtualService(h)' \in wanted'[h] \cup {Absent}
BY DEF LabelInv, Kinds, ServiceEntry, VirtualService

\* The invariant holds before any object exists.
LEMMA InitIInv == Init => IInv
<1> SUFFICES ASSUME Init PROVE IInv
  OBVIOUS
<1>1. /\ api \in Hosts /\ ends \in HostLists
      /\ run \in Runs /\ run.at = "idle" /\ run.api = api /\ run.ends = ends
  BY NoRunEffect DEF Init
<1>2. wanted \in [Hosts -> SUBSET Roles]
  BY DEF Init, Wanted
<1>3. TypeOK
  <2>1. 0 \in 0..MaxEdits /\ 0 \in 0..MaxFaults
    BY IstioAssumption
  <2>2. objs \in [Kinds \X Hosts -> Roles \cup {Absent}]
    BY DEF Init
  <2>3. QED
    BY <1>1, <1>2, <2>1, <2>2 DEF Init, TypeOK
<1>4. HistoryInv /\ LabelInv /\ TypedInv
  BY <1>1 DEF Init, HistoryInv, LabelInv, TypedInv, Wanted
<1>5. WorkInv
  BY <1>1 DEF WorkInv
<1>6. OrderInv
  BY <1>1 DEF Init, OrderInv, VirtualService, Kinds
<1>7. QED
  BY <1>3, <1>4, <1>5, <1>6 DEF IInv

\* Every step keeps the invariant.  Each action is first reduced to what it
\* does to the fields of the run and to the two objects of a host.
LEMMA StepIInv == IInv /\ [Next]_vars => IInv'
<1> SUFFICES ASSUME IInv, [Next]_vars PROVE IInv'
  OBVIOUS
<1>t. TypeOK'
  BY TypeStep DEF IInv
<1>i. TypedInv'
  BY TypedStep DEF IInv
<1>0. /\ TypeOK /\ HistoryInv /\ LabelInv /\ TypedInv /\ WorkInv
      /\ ~disturbed => OrderInv
      /\ run \in Runs /\ run.role \in Roles /\ run.kind \in Kinds
      /\ run.api \in Hosts /\ run.ends \in HostLists
      /\ run.todo \in Seq(Hosts) /\ run.doomed \subseteq Hosts
      /\ api \in Hosts /\ ends \in HostLists
      /\ Absent \notin Roles /\ \A h \in Hosts : wanted[h] \subseteq Roles
  BY IstioAssumption DEF IInv, TypeOK, Runs
<1> SUFFICES HistoryInv' /\ LabelInv' /\ WorkInv' /\ (~disturbed' => OrderInv')
  BY <1>t, <1>i DEF IInv
<1> USE DEF Works, Fails, Quiet
<1>1. CASE ReconcileIstio
  <2>1. /\ UNCHANGED <<api, ends, wanted, disturbed>>
        /\ \A h \in Hosts : UNCHANGED <<ServiceEntry(h), VirtualService(h)>>
        /\ run'.at = "create" /\ run'.kind = "ServiceEntry"
        /\ run'.api = api /\ run'.ends = ends /\ run'.role \in Roles
        /\ ToSet(run'.todo) \subseteq Needs(run'.role, run'.api, run'.ends)
    <3>1. \E failed \in BOOLEAN : run' = Begin(NoRun, "api-url", failed)
      BY <1>1 DEF ReconcileIstio
    <3>2. /\ run'.at = "create" /\ run'.kind = "ServiceEntry"
          /\ run'.api = api /\ run'.ends = ends /\ run'.role = "api-url"
          /\ ToSet(run'.todo) \subseteq Needs("api-url", api, ends)
      BY <1>0, <3>1, NoRunEffect, BeginEffect DEF Roles
    <3>3. QED
      BY <1>1, <3>2 DEF ReconcileIstio, Roles, ServiceEntry, VirtualService
  <2>2. HistoryInv'
    BY <1>0, <2>1 DEF HistoryInv, Wanted
  <2>3. LabelInv'
    BY <1>0, <2>1, Labels DEF HistoryInv, WorkInv, Wanted, InUse
  <2>4. WorkInv'
    BY <1>0, <2>1, Labels DEF HistoryInv, WorkInv, Wanted, InUse
  <2>5. ~disturbed' => OrderInv'
    BY <1>0, <2>1, Labels DEF OrderInv, HistoryInv, WorkInv, Wanted, InUse
  <2>6. QED
    BY <2>2, <2>3, <2>4, <2>5
<1>2. CASE handleIstioConfiguration
  <2>h. PICK h \in Hosts : h = Head(run.todo)
    BY <1>0, <1>2, ListElements DEF handleIstioConfiguration
  <2>0. /\ run.todo # <<>> /\ h \in Hosts /\ h \in ToSet(run.todo)
        /\ ToSet(Tail(run.todo)) \subseteq ToSet(run.todo)
    BY <1>0, <1>2, <2>h, ListElements DEF handleIstioConfiguration
  <2>a. PICK u \in BOOLEAN : run' = NextHost([run EXCEPT !.upd = u])
    BY <1>0, <1>2 DEF handleIstioConfiguration, Runs
  <2>1. /\ UNCHANGED <<api, ends, wanted, disturbed>>
        /\ run.at = "create" /\ run'.at = "create" /\ run'.role = run.role
        /\ run'.api = run.api /\ run'.ends = run.ends
        /\ ToSet(run'.todo) \subseteq ToSet(run.todo) /\ h \in ToSet(run.todo)
        /\ h \in Hosts
        /\ \A x \in Hosts \ {h} : UNCHANGED <<ServiceEntry(x), VirtualService(x)>>
        /\ \/ /\ run.kind = "ServiceEntry" /\ run'.todo = run.todo
              /\ UNCHANGED VirtualService(h)
              /\ ServiceEntry(h)' \in {ServiceEntry(h), run.role}
              /\ ServiceEntry(h)' # Absent
           \/ /\ run.kind = "VirtualService" /\ run'.kind = "ServiceEntry"
              /\ UNCHANGED ServiceEntry(h)
              /\ VirtualService(h)' \in {VirtualService(h), run.role}
    <3>1. UNCHANGED <<api, ends, wanted, disturbed>> /\ run.at = "create"
      BY <1>2 DEF handleIstioConfiguration
    <3>2. /\ run'.at = run.at /\ run'.role = run.role
          /\ run'.api = run.api /\ run'.ends = run.ends
          /\ \/ /\ run.kind = "ServiceEntry" /\ run'.kind = "VirtualService"
                /\ run'.todo = run.todo
             \/ /\ run.kind = "VirtualService" /\ run'.kind = "ServiceEntry"
                /\ run'.todo = Tail(run.todo)
      BY <1>0, <2>0, <2>a, NextHostEffect
    <3>3. /\ \A o \in Kinds \X Hosts : o # <<run.kind, h>> => objs'[o] = objs[o]
          /\ objs'[<<run.kind, h>>] \in {objs[<<run.kind, h>>], run.role}
          /\ run.kind = "ServiceEntry" => objs'[<<run.kind, h>>] # Absent
      BY <1>0, <1>2, <2>h, <2>0
         DEF handleIstioConfiguration, ToCreate, kubernetesObjectProbe, TypeOK
    <3>4. /\ \A x \in Hosts \ {h} : UNCHANGED <<ServiceEntry(x), VirtualService(x)>>
          /\ run.kind = "ServiceEntry" =>
                /\ UNCHANGED VirtualService(h)
                /\ ServiceEntry(h)' \in {ServiceEntry(h), run.role}
                /\ ServiceEntry(h)' # Absent
          /\ run.kind = "VirtualService" =>
                /\ UNCHANGED ServiceEntry(h)
                /\ VirtualService(h)' \in {VirtualService(h), run.role}
      BY <2>0, <3>3 DEF ServiceEntry, VirtualService, Kinds
    <3>5. QED
      BY <2>0, <3>1, <3>2, <3>4
  <2>2. HistoryInv'
    BY <1>0, <2>1 DEF HistoryInv, Wanted
  <2>3. LabelInv'
    BY <1>0, <2>1, Labels DEF HistoryInv, WorkInv, Wanted, InUse
  <2>4. WorkInv'
    BY <1>0, <2>1, Labels DEF HistoryInv, WorkInv, Wanted, InUse
  <2>5. ~disturbed' => OrderInv'
    BY <1>0, <2>h, <2>0, <2>1 DEF OrderInv, ServiceEntry, VirtualService
  <2>6. QED
    BY <2>2, <2>3, <2>4, <2>5
<1>3. CASE ListVirtualServices
  <2>1. /\ UNCHANGED <<api, ends, wanted, disturbed>>
        /\ \A h \in Hosts : UNCHANGED <<ServiceEntry(h), VirtualService(h)>>
        /\ run'.at = "remove" /\ run'.kind = "VirtualService"
        /\ run'.role = run.role /\ run'.api = run.api /\ run'.ends = run.ends
        /\ run'.doomed = {h \in Hosts : VirtualService(h) = run.role /\ ~InUse(h)}
    BY <1>0, <1>3 DEF ListVirtualServices, Runs, Doomed, ServiceEntry,
       VirtualService, InUse
  <2>2. HistoryInv'
    BY <1>0, <2>1 DEF HistoryInv, Wanted
  <2>3. LabelInv'
    BY <1>0, <2>1, Labels DEF HistoryInv, WorkInv, Wanted, InUse
  <2>4. WorkInv'
    BY <1>0, <2>1, Labels DEF HistoryInv, WorkInv, Wanted, InUse
  <2>5. ~disturbed' => OrderInv'
    BY <1>0, <2>1, Labels DEF OrderInv, HistoryInv, WorkInv, Wanted, InUse
  <2>6. QED
    BY <2>2, <2>3, <2>4, <2>5
<1>4. CASE ListServiceEntries
  <2>1. /\ UNCHANGED <<api, ends, wanted, disturbed>>
        /\ \A h \in Hosts : UNCHANGED <<ServiceEntry(h), VirtualService(h)>>
        /\ run.at = "remove" /\ run.kind = "VirtualService" /\ run.doomed = {}
        /\ run'.at = "remove" /\ run'.kind = "ServiceEntry"
        /\ run'.role = run.role /\ run'.api = run.api /\ run'.ends = run.ends
        /\ run'.doomed = {h \in Hosts : ServiceEntry(h) = run.role /\ ~InUse(h)}
    BY <1>0, <1>4 DEF ListServiceEntries, Runs, Doomed, ServiceEntry,
       VirtualService, InUse
  <2>2. HistoryInv'
    BY <1>0, <2>1 DEF HistoryInv, Wanted
  <2>3. LabelInv'
    BY <1>0, <2>1, Labels DEF HistoryInv, WorkInv, Wanted, InUse
  <2>4. WorkInv'
    BY <1>0, <2>1, Labels DEF HistoryInv, WorkInv, Wanted, InUse
  <2>5. ~disturbed' => OrderInv'
    BY <1>0, <2>1, Labels DEF OrderInv, HistoryInv, WorkInv, Wanted, InUse
  <2>6. QED
    BY <2>2, <2>3, <2>4, <2>5
<1>5. CASE \E h \in Hosts : Delete(h)
  <2>0. PICK h \in Hosts : Delete(h)
    BY <1>5
  <2>1. /\ UNCHANGED <<api, ends, wanted, disturbed>>
        /\ run.at = "remove" /\ run'.at = "remove" /\ run'.kind = run.kind
        /\ run'.role = run.role /\ run'.api = run.api /\ run'.ends = run.ends
        /\ h \in run.doomed /\ run'.doomed = run.doomed \ {h}
        /\ \A x \in Hosts \ {h} : UNCHANGED <<ServiceEntry(x), VirtualService(x)>>
        /\ \/ /\ run.kind = "ServiceEntry" /\ ServiceEntry(h)' = Absent
              /\ UNCHANGED VirtualService(h)
           \/ /\ run.kind = "VirtualService" /\ VirtualService(h)' = Absent
              /\ UNCHANGED ServiceEntry(h)
    <3>1. /\ UNCHANGED <<api, ends, wanted, disturbed>>
          /\ run.at = "remove" /\ run'.at = "remove" /\ run'.kind = run.kind
          /\ run'.role = run.role /\ run'.api = run.api /\ run'.ends = run.ends
          /\ h \in run.doomed /\ run'.doomed = run.doomed \ {h}
      BY <1>0, <2>0 DEF Delete, Runs
    <3>2. /\ \A o \in Kinds \X Hosts : o # <<run.kind, h>> => objs'[o] = objs[o]
          /\ objs'[<<run.kind, h>>] = Absent
      BY <1>0, <2>0 DEF Delete, TypeOK
    <3>3. QED
      BY <1>0, <3>1, <3>2 DEF ServiceEntry, VirtualService, Kinds
  <2>2. HistoryInv'
    BY <1>0, <2>1 DEF HistoryInv, Wanted
  <2>3. LabelInv'
    BY <1>0, <2>1, Labels DEF HistoryInv, WorkInv, Wanted, InUse
  <2>4. WorkInv'
    BY <1>0, <2>1, Labels DEF HistoryInv, WorkInv, Wanted, InUse
  <2>5. ~disturbed' => OrderInv'
    BY <1>0, <2>1, Labels DEF OrderInv, HistoryInv, WorkInv, Wanted, InUse
  <2>6. QED
    BY <2>2, <2>3, <2>4, <2>5
<1>6. CASE \E h \in Hosts : DeleteFails(h)
  <2>0. PICK h \in Hosts : DeleteFails(h)
    BY <1>6
  <2>1. /\ UNCHANGED <<api, ends, wanted>> /\ disturbed'
        /\ \A x \in Hosts : UNCHANGED <<ServiceEntry(x), VirtualService(x)>>
        /\ run.at = "remove" /\ run'.at = "remove"
        /\ run'.role = run.role /\ run'.api = run.api /\ run'.ends = run.ends
        /\ run'.doomed \subseteq run.doomed
    BY <1>0, <2>0 DEF DeleteFails, Runs, ServiceEntry, VirtualService
  <2>2. HistoryInv'
    BY <1>0, <2>1 DEF HistoryInv, Wanted
  <2>3. LabelInv'
    BY <1>0, <2>1, Labels DEF HistoryInv, WorkInv, Wanted, InUse
  <2>4. WorkInv'
    BY <1>0, <2>1, Labels DEF HistoryInv, WorkInv, Wanted, InUse
  <2>5. ~disturbed' => OrderInv'
    BY <1>0, <2>1, Labels DEF OrderInv, HistoryInv, WorkInv, Wanted, InUse
  <2>6. QED
    BY <2>2, <2>3, <2>4, <2>5
<1>7. CASE RoleDone
  <2>1. /\ UNCHANGED <<api, ends, wanted, disturbed>>
        /\ \A x \in Hosts : UNCHANGED <<ServiceEntry(x), VirtualService(x)>>
        /\ \/ run'.at = "idle" /\ run'.api = api /\ run'.ends = ends
           \/ /\ run'.at = "create" /\ run'.kind = "ServiceEntry"
              /\ run'.api = run.api /\ run'.ends = run.ends
              /\ ToSet(run'.todo) \subseteq Needs(run'.role, run'.api, run'.ends)
    <3>1. \/ run' = NoRun
          \/ \E failed \in BOOLEAN : run' = Begin(run, "communication-endpoint", failed)
      BY <1>7 DEF RoleDone
    <3>2. ASSUME \E failed \in BOOLEAN :
                    run' = Begin(run, "communication-endpoint", failed)
          PROVE  /\ run'.at = "create" /\ run'.kind = "ServiceEntry"
                 /\ run'.api = run.api /\ run'.ends = run.ends
                 /\ ToSet(run'.todo) \subseteq Needs(run'.role, run'.api, run'.ends)
      BY <1>0, <3>2, BeginEffect DEF Roles
    <3>3. QED
      BY <1>0, <1>7, <3>1, <3>2, NoRunEffect
         DEF RoleDone, ServiceEntry, VirtualService
  <2>2. HistoryInv'
    BY <1>0, <2>1 DEF HistoryInv, Wanted
  <2>3. LabelInv'
    BY <1>0, <2>1, Labels DEF HistoryInv, WorkInv, Wanted, InUse
  <2>4. WorkInv'
    BY <1>0, <2>1, Labels DEF HistoryInv, WorkInv, Wanted, InUse
  <2>5. ~disturbed' => OrderInv'
    BY <1>0, <2>1, Labels DEF OrderInv, HistoryInv, WorkInv, Wanted, InUse
  <2>6. QED
    BY <2>2, <2>3, <2>4, <2>5
<1>8. CASE RequestFailsOrCrash
  <2>1. /\ UNCHANGED <<api, ends, wanted, disturbed>>
        /\ \A x \in Hosts : UNCHANGED <<ServiceEntry(x), VirtualService(x)>>
        /\ run'.at = "idle" /\ run'.api = api /\ run'.ends = ends
    BY <1>0, <1>8, NoRunEffect
       DEF RequestFailsOrCrash, ServiceEntry, VirtualService
  <2>2. HistoryInv'
    BY <1>0, <2>1 DEF HistoryInv, Wanted
  <2>3. LabelInv'
    BY <1>0, <2>1, Labels DEF HistoryInv, WorkInv, Wanted, InUse
  <2>4. WorkInv'
    BY <1>0, <2>1, Labels DEF HistoryInv, WorkInv, Wanted, InUse
  <2>5. ~disturbed' => OrderInv'
    BY <1>0, <2>1, Labels DEF OrderInv, HistoryInv, WorkInv, Wanted, InUse
  <2>6. QED
    BY <2>2, <2>3, <2>4, <2>5
<1>9. CASE EditHosts
  <2>1. /\ UNCHANGED <<run, disturbed>>
        /\ \A x \in Hosts : UNCHANGED <<ServiceEntry(x), VirtualService(x)>>
        /\ api' \in Hosts /\ ends' \in HostLists
        /\ \A x \in Hosts : /\ wanted[x] \subseteq wanted'[x]
                            /\ Wanted(api', ends')[x] \subseteq wanted'[x]
    BY <1>0, <1>9 DEF EditHosts, ServiceEntry, VirtualService
  <2>2. HistoryInv'
    BY <1>0, <2>1 DEF HistoryInv, Wanted
  <2>3. LabelInv'
    BY <1>0, <2>1, Labels DEF HistoryInv, WorkInv, Wanted, InUse
  <2>4. WorkInv'
    BY <1>0, <2>1, Labels DEF HistoryInv, WorkInv, Wanted, InUse
  <2>5. ~disturbed' => OrderInv'
    BY <1>0, <2>1, Labels DEF OrderInv, HistoryInv, WorkInv, Wanted, InUse
  <2>6. QED
    BY <2>2, <2>3, <2>4, <2>5
<1>10. CASE EditMesh
  <2>1. /\ UNCHANGED <<api, ends, run, wanted>>
        /\ disturbed' \/ (~disturbed /\ run.at = "idle")
        /\ \A x \in Hosts : /\ ServiceEntry(x)' \in {ServiceEntry(x), Absent}
                            /\ VirtualService(x)' \in {VirtualService(x), Absent}
        /\ \/ disturbed'
           \/ \A x \in Hosts : \/ UNCHANGED ServiceEntry(x)
                               \/ VirtualService(x)' = Absent
    <3>1. /\ UNCHANGED <<api, ends, run, wanted>>
          /\ disturbed' \/ (~disturbed /\ run.at = "idle")
          /\ \/ disturbed' \/ "ServiceEntry" \in mesh'
             \/ "ServiceEntry" \notin mesh \/ "VirtualService" \notin mesh'
      BY <1>0, <1>10 DEF EditMesh, TypeOK
    <3>2. \A x \in Hosts :
            /\ ServiceEntry(x)' = IF "ServiceEntry" \in mesh' THEN ServiceEntry(x) ELSE Absent
            /\ VirtualService(x)' = IF "VirtualService" \in mesh' THEN VirtualService(x) ELSE Absent
            /\ "ServiceEntry" \notin mesh => ServiceEntry(x) = Absent
      BY <1>0, <1>10 DEF EditMesh, ServiceEntry, VirtualService, Kinds, TypedInv
    <3>3. QED
      BY <3>1, <3>2
  <2>2. HistoryInv'
    BY <1>0, <2>1 DEF HistoryInv, Wanted
  <2>3. LabelInv'
    BY <1>0, <2>1, Labels DEF HistoryInv, WorkInv, Wanted, InUse
  <2>4. WorkInv'
    BY <1>0, <2>1, Labels DEF HistoryInv, WorkInv, Wanted, InUse
  <2>5. ~disturbed' => OrderInv'
    BY <1>0, <2>1, Labels DEF OrderInv, HistoryInv, WorkInv, Wanted, InUse
  <2>6. QED
    BY <2>2, <2>3, <2>4, <2>5
<1>11. CASE UNCHANGED vars
  <2>1. UNCHANGED <<api, ends, run, wanted, disturbed, objs>>
    BY <1>11 DEF vars
  <2>2. QED
    BY <1>0, <2>1 DEF HistoryInv, LabelInv, WorkInv, OrderInv, InUse,
       ServiceEntry, VirtualService
<1>12. QED
  BY <1>1, <1>2, <1>3, <1>4, <1>5, <1>6, <1>7, <1>8, <1>9, <1>10, <1>11
     DEF Next, Reconcile

-----------------------------------------------------------------------------
(* The theorems.                                                           *)

\* In every reachable state the objects bear the label of a role that needed
\* their host, a run deletes only what its role does not need, and, unless a
\* deletion was skipped or Istio was removed or installed in the middle of a
\* run, the ServiceEntry comes first and goes last.
THEOREM Inductive == Spec => []IInv
BY InitIInv, StepIInv, PTL DEF Spec

\* Every variable keeps its type; above all an object never bears a label
\* that is no role, although an address has no VirtualService to create.
THEOREM TypeCorrect == Spec => []TypeOK
<1>1. IInv => TypeOK
  BY DEF IInv
<1>2. QED
  BY <1>1, Inductive, PTL

\* As long as a host was needed by one role only, no deletion was skipped and
\* Istio did not come or go in the middle of a run, its VirtualService is never
\* there without its ServiceEntry, wherever runs end.
THEOREM RoutesAreKnown == Spec => []RoutedIsKnown
<1>1. IInv => RoutedIsKnown
  <2> SUFFICES ASSUME IInv, NEW h \in Hosts, ~disturbed,
                      Cardinality(wanted[h]) = 1,
                      objs[<<"VirtualService", h>>] # Absent
               PROVE  objs[<<"ServiceEntry", h>>] # Absent
    BY DEF RoutedIsKnown
  <2>1. wanted[h] \subseteq Roles
    BY DEF IInv, TypeOK
  <2>2. IsFiniteSet(wanted[h])
    <3>1. Roles = {"api-url"} \cup {"communication-endpoint"}
      BY DEF Roles
    <3>2. IsFiniteSet({"api-url"}) /\ IsFiniteSet({"communication-endpoint"})
      BY FS_Singleton
    <3>3. IsFiniteSet(Roles)
      BY <3>1, <3>2, FS_Union
    <3>4. QED
      BY <2>1, <3>3, FS_Subset
  <2>3. PICK r : wanted[h] = {r}
    BY <2>2, FS_Singleton
  <2>4. r \in Roles /\ wanted[h] \subseteq {r}
    BY <2>1, <2>3
  <2>5. QED
    BY <2>4 DEF IInv, OrderInv, ServiceEntry, VirtualService
<1>2. QED
  BY <1>1, Inductive, PTL

\* No step deletes an object of a host that its role needs while the other
\* role never needed it: a role deletes only what bears its own label.
THEOREM NeededObjectsStay == Spec => NeededIsKept
<1> DEFINE Kept ==
      \A h \in Hosts, k \in Kinds, r \in Roles :
         /\ mesh' = mesh
         /\ wanted[h] = {r} /\ h \in Needs(r, run.api, run.ends)
         /\ objs[<<k, h>>] # Absent
         => objs'[<<k, h>>] # Absent
<1>1. IInv /\ [Next]_vars => [Kept]_vars
  <2> SUFFICES ASSUME IInv, Next, NEW h \in Hosts, NEW k \in Kinds,
                      NEW r \in Roles, mesh' = mesh, wanted[h] = {r},
                      h \in Needs(r, run.api, run.ends),
                      objs[<<k, h>>] # Absent
               PROVE  objs'[<<k, h>>] # Absent
    OBVIOUS
  <2>0. /\ objs \in [Kinds \X Hosts -> Roles \cup {Absent}]
        /\ run.role \in Roles /\ Absent \notin Roles
    BY IstioAssumption DEF IInv, TypeOK, Runs
  <2>1. CASE handleIstioConfiguration
    BY <2>0, <2>1 DEF handleIstioConfiguration
  <2>2. CASE \E x \in Hosts : Delete(x)
    <3>1. PICK x \in Hosts : Delete(x)
      BY <2>2
    <3>2. x # h
      BY <3>1 DEF Delete, IInv, WorkInv, InUse
    <3>3. QED
      BY <2>0, <3>1, <3>2 DEF Delete
  <2>3. CASE UNCHANGED objs
    BY <2>3
  <2>4. UNCHANGED objs \/ handleIstioConfiguration \/ \E x \in Hosts : Delete(x)
    BY DEF Next, Reconcile, ReconcileIstio, ListVirtualServices,
       ListServiceEntries, DeleteFails, RoleDone, RequestFailsOrCrash,
       EditHosts, EditMesh
  <2>5. QED
    BY <2>1, <2>2, <2>3, <2>4
<1>2. QED
  BY <1>1, Inductive, PTL DEF Spec, NeededIsKept
=============================================================================
