------------------------------- MODULE Istio -------------------------------
(***************************************************************************)
(* The Istio controller: for the host of the Dynatrace API and for every   *)
(* host the agents talk to, one ServiceEntry and one VirtualService of the *)
(* same name.  The name is a hash of protocol, host and port, so that two  *)
(* roles that need the same host share one pair of objects; a label says   *)
(* which role created an object, and only that role removes it.            *)
(*                                                                         *)
(* ReconcileIstio is called by each Reconcile of a DynaKube with           *)
(* enableIstio.  One action per request that changes or lists objects: the *)
(* probe for an object and its creation are one action, since nothing else *)
(* writes objects of that name.  The DynaKube, the hosts Dynatrace names   *)
(* and the mesh itself change at any time.                                 *)
(***************************************************************************)
EXTENDS Naturals, Sequences, FiniteSets, SequencesExt

CONSTANTS
  Hosts,       \* protocol, host and port
  IPs,         \* those given by an address
  HostLists,   \* the lists of communication hosts Dynatrace answers with
  Absent,      \* an object that does not exist
  MaxEdits,    \* bound: changes of the hosts and of the mesh
  MaxFaults    \* bound: failing requests and crashes

Roles == {"api-url", "communication-endpoint"}
Kinds == {"ServiceEntry", "VirtualService"}
Crds == Kinds \cup {"Gateway"}   \* the types of Istio's group, one for all others

ASSUME IstioAssumption ==
  /\ Hosts # {} /\ IPs \subseteq Hosts
  /\ HostLists # {} /\ HostLists \subseteq Seq(Hosts)
  /\ Absent \notin Roles
  /\ MaxEdits \in Nat /\ MaxFaults \in Nat

VARIABLES
  api,      \* host of spec.apiUrl
  ends,     \* status.connectionInfo.communicationHosts
  mesh,     \* the types of Istio's group the API server knows
  objs,     \* <<kind, host>> -> the role in its label, or Absent
  run,      \* the ReconcileIstio in progress
  wanted,   \* history: host -> roles that ever needed it
  disturbed,  \* history: a deletion was skipped, the mesh changed during a run,
              \* or it lost the ServiceEntries and kept the VirtualServices
  edits, faults

vars == <<api, ends, mesh, objs, run, wanted, disturbed, edits, faults>>

NoRun ==
  [at |-> "idle", role |-> "api-url", api |-> api, ends |-> ends,
   kind |-> "ServiceEntry", todo |-> <<>>, doomed |-> {}, upd |-> FALSE]

Runs ==
  [at : {"idle", "create", "remove"}, role : Roles, api : Hosts,
   ends : HostLists, kind : Kinds, todo : Seq(Hosts), doomed : SUBSET Hosts,
   upd : BOOLEAN]

TypeOK ==
  /\ api \in Hosts /\ ends \in HostLists
  /\ mesh \subseteq Crds
  /\ objs \in [Kinds \X Hosts -> Roles \cup {Absent}]
  /\ run \in Runs
  /\ wanted \in [Hosts -> SUBSET Roles]
  /\ disturbed \in BOOLEAN
  /\ edits \in 0..MaxEdits /\ faults \in 0..MaxFaults

\* The hosts a role needs objects for.
comHosts(role, a, e) == IF role = "api-url" THEN <<a>> ELSE e
Needs(role, a, e) == ToSet(comHosts(role, a, e))

Wanted(a, e) == [h \in Hosts |-> {r \in Roles : h \in Needs(r, a, e)}]

Init ==
  /\ api \in Hosts /\ ends \in HostLists
  /\ mesh = Crds
  /\ objs = [o \in Kinds \X Hosts |-> Absent]
  /\ run = NoRun
  /\ wanted = Wanted(api, ends)
  /\ disturbed = FALSE
  /\ edits = 0 /\ faults = 0
-----------------------------------------------------------------------------
Works == faults' = faults
Fails == faults < MaxFaults /\ faults' = faults + 1
Quiet == UNCHANGED <<api, ends, mesh, wanted, edits>>

\* The API server lists Istio's group; it knows both kinds of it, or a probe
\* failed, which counts as found.
CheckIstioEnabled == mesh # {}
verifyIstioCrdAvailability(failed) == failed \/ Kinds \subseteq mesh

\* Nothing is built for an address.
buildVirtualService(h) == h \notin IPs
kubernetesObjectProbe(o) == objs[o] # Absent

\* An object of that name is left as it is, whoever created it; an address
\* gets no VirtualService.
ToCreate(o) ==
  /\ ~kubernetesObjectProbe(o)
  /\ o[1] = "VirtualService" => buildVirtualService(o[2])

\* A role starts by creating what is missing, for one host after the other
\* the ServiceEntry and then the VirtualService, unless a kind is unknown.
Begin(r, role, failed) ==
  [r EXCEPT !.at = "create", !.role = role, !.kind = "ServiceEntry",
            !.todo = IF verifyIstioCrdAvailability(failed)
                     THEN comHosts(role, r.api, r.ends) ELSE <<>>,
            !.upd = FALSE]

\* Nothing happens without Istio.
ReconcileIstio ==
  /\ run.at = "idle"
  /\ CheckIstioEnabled
  /\ \E failed \in BOOLEAN :
        /\ run' = Begin(NoRun, "api-url", failed)
        /\ IF failed THEN Fails ELSE Works
  /\ Quiet /\ UNCHANGED <<objs, disturbed>>

NextHost(r) ==
  IF r.kind = "ServiceEntry" THEN [r EXCEPT !.kind = "VirtualService"]
  ELSE [r EXCEPT !.kind = "ServiceEntry", !.todo = Tail(@)]

\* The label is that of the first role whoever creates the object.
handleIstioConfigurationMutant ==
  LET o == <<run.kind, Head(run.todo)>>
      create == ToCreate(o)
  IN  /\ run.at = "create" /\ run.todo # <<>> /\ (create => run.kind \in mesh)
      /\ objs' = IF create THEN [objs EXCEPT ![o] = "api-url"] ELSE objs
      /\ run' = NextHost([run EXCEPT !.upd = @ \/ create])
      /\ Works /\ Quiet /\ UNCHANGED disturbed

handleIstioConfiguration ==
  LET o == <<run.kind, Head(run.todo)>>
      create == ToCreate(o)
  IN  /\ run.at = "create" /\ run.todo # <<>> /\ (create => run.kind \in mesh)
      /\ objs' = IF create THEN [objs EXCEPT ![o] = run.role] ELSE objs
      /\ run' = NextHost([run EXCEPT !.upd = @ \/ create])
      /\ Works /\ Quiet /\ UNCHANGED disturbed

\* The selector leaves out the role.
DoomedMutant(kind) ==
  {h \in Hosts : /\ objs[<<kind, h>>] # Absent
                 /\ h \notin Needs(run.role, run.api, run.ends)}

\* What is listed by the label of the role and not in use is to be deleted.
Doomed(kind) ==
  {h \in Hosts : /\ objs[<<kind, h>>] = run.role
                 /\ h \notin Needs(run.role, run.api, run.ends)}

ListVirtualServicesMutant ==
  /\ run.at = "create" /\ run.todo = <<>> /\ "VirtualService" \in mesh
  /\ run' = [run EXCEPT !.at = "remove", !.kind = "VirtualService", !.doomed = {}]
  /\ Works /\ Quiet /\ UNCHANGED <<objs, disturbed>>

ListVirtualServices ==
  /\ run.at = "create" /\ run.todo = <<>> /\ "VirtualService" \in mesh
  /\ run' = [run EXCEPT !.at = "remove", !.kind = "VirtualService",
                        !.doomed = Doomed("VirtualService")]
  /\ Works /\ Quiet /\ UNCHANGED <<objs, disturbed>>

ListServiceEntries ==
  /\ run.at = "remove" /\ run.kind = "VirtualService" /\ run.doomed = {}
  /\ "ServiceEntry" \in mesh
  /\ run' = [run EXCEPT !.kind = "ServiceEntry", !.doomed = Doomed("ServiceEntry")]
  /\ Works /\ Quiet /\ UNCHANGED <<objs, disturbed>>

DeleteMutant(h) ==
  /\ run.at = "remove" /\ h \in run.doomed
  /\ run' = [run EXCEPT !.doomed = @ \ {h}, !.upd = TRUE]
  /\ Works /\ Quiet /\ UNCHANGED <<objs, disturbed>>

Delete(h) ==
  /\ run.at = "remove" /\ h \in run.doomed /\ objs[<<run.kind, h>>] # Absent
  /\ objs' = [objs EXCEPT ![<<run.kind, h>>] = Absent]
  /\ run' = [run EXCEPT !.doomed = @ \ {h}, !.upd = TRUE]
  /\ Works /\ Quiet /\ UNCHANGED disturbed

\* A deletion that fails is logged, and the loop goes on.  It fails if the
\* object went away with its type.
DeleteFails(h) ==
  /\ run.at = "remove" /\ h \in run.doomed
  /\ run' = [run EXCEPT !.doomed = @ \ {h}]
  /\ disturbed' = TRUE
  /\ IF objs[<<run.kind, h>>] = Absent THEN Works ELSE Fails
  /\ Quiet /\ UNCHANGED objs

\* A role that changed something ends the run, the other role has to wait.
RoleDone ==
  /\ run.at = "remove" /\ run.kind = "ServiceEntry" /\ run.doomed = {}
  /\ \/ /\ run.role = "api-url" /\ ~run.upd
        /\ \E failed \in BOOLEAN :
              /\ run' = Begin(run, "communication-endpoint", failed)
              /\ IF failed THEN Fails ELSE Works
     \/ /\ run.role # "api-url" \/ run.upd
        /\ run' = NoRun /\ Works
  /\ Quiet /\ UNCHANGED <<objs, disturbed>>

\* The request that comes next is for a type the mesh does not have.
NoSuchType ==
  \/ /\ run.at = "create" /\ run.todo # <<>>
     /\ ToCreate(<<run.kind, Head(run.todo)>>) /\ run.kind \notin mesh
  \/ run.at = "create" /\ run.todo = <<>> /\ "VirtualService" \notin mesh
  \/ /\ run.at = "remove" /\ run.kind = "VirtualService" /\ run.doomed = {}
     /\ "ServiceEntry" \notin mesh

\* Any other request that fails ends the run with an error, which the caller
\* logs.  A crash has the same effect on the objects.
RequestFailsOrCrash ==
  /\ run.at # "idle"
  /\ run' = NoRun
  /\ IF NoSuchType THEN Works ELSE Fails
  /\ Quiet /\ UNCHANGED <<objs, disturbed>>
-----------------------------------------------------------------------------
(* The surroundings                                                        *)

EditHosts ==
  /\ edits < MaxEdits /\ edits' = edits + 1
  /\ api' \in Hosts /\ ends' \in HostLists
  /\ wanted' = [h \in Hosts |-> wanted[h] \cup Wanted(api', ends')[h]]
  /\ UNCHANGED <<mesh, objs, run, disturbed, faults>>

\* Without the definition of their type the objects are gone as well.
EditMesh ==
  /\ edits < MaxEdits /\ edits' = edits + 1
  /\ mesh' \in (SUBSET Crds) \ {mesh}
  /\ objs' = [o \in Kinds \X Hosts |-> IF o[1] \in mesh' THEN objs[o] ELSE Absent]
  /\ disturbed' = \/ disturbed \/ run.at # "idle"
                  \/ "ServiceEntry" \in mesh \ mesh' /\ "VirtualService" \in mesh'
  /\ UNCHANGED <<api, ends, run, wanted, faults>>

Reconcile ==
  \/ ReconcileIstio \/ handleIstioConfiguration
  \/ ListVirtualServices \/ ListServiceEntries
  \/ \E h \in Hosts : Delete(h) \/ DeleteFails(h)
  \/ RoleDone \/ RequestFailsOrCrash

Next == Reconcile \/ EditHosts \/ EditMesh

Spec == Init /\ [][Next]_vars

\* Each Reconcile of the DynaKube calls ReconcileIstio, and there is always
\* another Reconcile.
FairSpec == Spec /\ WF_vars(Reconcile)
-----------------------------------------------------------------------------
(* Properties                                                              *)

\* A VirtualService routes to a host that the mesh only knows from the
\* ServiceEntry: as long as a host was needed by one role only, no deletion was
\* skipped and Istio did not lose its ServiceEntries alone or change in the
\* middle of a run, the VirtualService is never there alone, wherever runs end.
RoutedIsKnown ==
  \A h \in Hosts :
    /\ ~disturbed /\ Cardinality(wanted[h]) = 1
    /\ objs[<<"VirtualService", h>>] # Absent
    => objs[<<"ServiceEntry", h>>] # Absent

\* A host that was never needed by another role is not cut off while its role
\* needs it, though the other role cleans up as well.
NeededIsKept ==
  [][\A h \in Hosts, k \in Kinds, r \in Roles :
       /\ mesh' = mesh
       /\ wanted[h] = {r} /\ h \in Needs(r, run.api, run.ends)
       /\ objs[<<k, h>>] # Absent
       => objs'[<<k, h>>] # Absent]_vars

\* When hosts and mesh stay as they are, the objects end up as exactly those
\* of the hosts in use, although a run stops at the first role that changes
\* anything and a role removes what the other one shares with it.
Converges ==
  <>[](Kinds \subseteq mesh) =>
    <>[](\A h \in Hosts :
           LET inUse == h \in Needs("api-url", api, ends) \cup
                              Needs("communication-endpoint", api, ends)
           IN  /\ (objs[<<"ServiceEntry", h>>] # Absent) <=> inUse
               /\ (objs[<<"VirtualService", h>>] # Absent) <=> (inUse /\ h \notin IPs))
-----------------------------------------------------------------------------
(* The inductive invariant                                                 *)

ServiceEntry(h) == objs[<<"ServiceEntry", h>>]
VirtualService(h) == objs[<<"VirtualService", h>>]
InUse(h) == h \in Needs(run.role, run.api, run.ends)

\* The hosts of the DynaKube and those a run works with were all noted.
HistoryInv ==
  \A h \in Hosts : /\ Wanted(api, ends)[h] \subseteq wanted[h]
                   /\ Wanted(run.api, run.ends)[h] \subseteq wanted[h]

\* An object bears the label of a role that needed its host.
LabelInv ==
  \A k \in Kinds, h \in Hosts : objs[<<k, h>>] \in wanted[h] \cup {Absent}

\* There is no object of a type the mesh does not have.
TypedInv ==
  \A k \in Kinds, h \in Hosts : k \notin mesh => objs[<<k, h>>] = Absent

\* A role creates what it needs, and deletes what it once needed and does not
\* need any longer.
WorkInv ==
  /\ run.at = "create" => ToSet(run.todo) \subseteq Needs(run.role, run.api, run.ends)
  /\ run.at = "remove" => \A h \in run.doomed : run.role \in wanted[h] /\ ~InUse(h)

\* The ServiceEntry comes first and goes last: it is there when a run comes
\* to the VirtualService, and when a run comes to delete ServiceEntries the
\* role has no VirtualService left that it does not need.
OrderInv ==
  /\ run.at = "create" /\ run.kind = "VirtualService" /\ run.todo # <<>>
        => ServiceEntry(Head(run.todo)) # Absent
  /\ run.at = "remove" => \A h \in Hosts :
        VirtualService(h) = run.role /\ ~InUse(h)
           => run.kind = "VirtualService" /\ h \in run.doomed
  /\ \A h \in Hosts, r \in Roles :
        wanted[h] \subseteq {r} /\ VirtualService(h) # Absent
           => ServiceEntry(h) # Absent

IInv ==
  /\ TypeOK
  /\ HistoryInv /\ LabelInv /\ TypedInv /\ WorkInv
  /\ ~disturbed => OrderInv
=============================================================================
