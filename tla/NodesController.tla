--------------------------- MODULE NodesController ---------------------------
(***************************************************************************)
(* The nodes controller tells Dynatrace which nodes are about to go away.  *)
(* One goroutine serves three channels: notifications of deleted nodes, of *)
(* updated nodes, and a ticker.  Each handler reads a ConfigMap that       *)
(* remembers the nodes seen on OneAgent instances, sends MARKED_FOR_       *)
(* TERMINATION events as needed and writes the ConfigMap back in the end.  *)
(*                                                                         *)
(* Handlers do not overlap, but the cluster changes while one runs, events *)
(* cannot be taken back when the write fails or the operator dies, and the *)
(* ConfigMap is read from the informer, which lags behind: a write based   *)
(* on an old version is refused.                                           *)
(*                                                                         *)
(* One DynaKube.  An absent ConfigMap is an empty one.                     *)
(***************************************************************************)
EXTENDS Integers

CONSTANTS
    Nodes,          \* names of cluster nodes
    Hour,           \* one hour, in units of the clock
    MaxTime,        \* bound: time explored
    MaxChanges,     \* bound: changes of the cluster
    MaxFaults,      \* bound: requests to the API server that fail, and times
                    \* the informer lags behind a write
    MaxSendFaults,  \* bound: requests to Dynatrace that fail
    MaxCrashes      \* bound: restarts of the operator

ASSUME BoundsAssumption ==
    /\ Hour \in Nat
    /\ MaxTime \in Nat /\ MaxChanges \in Nat /\ MaxFaults \in Nat
    /\ MaxSendFaults \in Nat /\ MaxCrashes \in Nat

VARIABLES
    now,        \* the clock
    cluster,    \* the nodes, as the informer shows them
    dk,         \* does the DynaKube exist?
    instances,  \* its Status.OneAgent.Instances: with or without an IP
    cm,         \* the ConfigMap dynatrace-node-cache
    view,       \* the ConfigMap as the informer shows it
    viewFresh,  \* is that its current version?
    chDels, chUpdates, chAll,   \* the three channels
    run,        \* the handler that is running
    lastSent,   \* history: when the last event of a node was sent
    tooClose,   \* history: nodes with two events within an hour
    tried,      \* history: when it was last tried to send an event
    outcome,    \* history: what became of that
    rejoined,   \* history: nodes re-created under the name of a deleted one
    changes, faults, sendFaults, crashes

clusterVars == <<cluster, dk, instances, rejoined, changes>>
cmVars == <<cm, view, viewFresh>>
channels == <<chDels, chUpdates, chAll>>
history == <<lastSent, tooClose, tried, outcome>>
vars == <<now, clusterVars, cmVars, channels, run, history, faults, sendFaults,
          crashes>>

\* time.Time's zero value: long before the clock starts.
Never == 0 - Hour - 1

Times == {Never} \cup Nat
Entry == [ip : BOOLEAN, seen : Times, marked : Times]
NoEntry == [ip |-> FALSE, seen |-> Never, marked |-> Never]
Caches == [Nodes -> Entry]
NoCache == [n \in Nodes |-> NoEntry]

\* The handler: what it works on, its copy of the cache and whether that was
\* read from the current version, its snapshot of the cluster and of the
\* DynaKube, and the nodes its current loop has not treated yet.
Idle == [pc |-> "idle", kind |-> "none", c |-> NoCache, fresh |-> TRUE,
         nodes |-> {}, insts |-> [n \in Nodes |-> "none"], dk |-> FALSE,
         todo |-> {}]

Init ==
    /\ now = 0
    /\ cluster = [n \in Nodes |-> "ready"]
    /\ dk = TRUE
    /\ instances \in [Nodes -> {"none", "noIP", "ip"}]
    /\ cm = NoCache
    /\ view = NoCache
    /\ viewFresh = TRUE
    /\ chDels = {} /\ chUpdates = {} /\ chAll = TRUE
    /\ run = Idle
    /\ lastSent = [n \in Nodes |-> Never]
    /\ tooClose = {}
    /\ tried = [n \in Nodes |-> Never]
    /\ outcome = [n \in Nodes |-> "none"]
    /\ rejoined = {}
    /\ changes = 0 /\ faults = 0 /\ sendFaults = 0 /\ crashes = 0

Fault == faults < MaxFaults /\ faults' = faults + 1
NoFault == UNCHANGED faults
SendFault == sendFaults < MaxSendFaults /\ sendFaults' = sendFaults + 1
NoSendFault == UNCHANGED sendFaults

Present == {n \in Nodes : cluster[n] # "absent"}

-----------------------------------------------------------------------------
(* Start: the select loop takes a message and the handler reads what it    *)
(* needs.  When a read fails, the message is consumed all the same.        *)

\* reconcileAll lists DynaKubes and nodes and gets the cache.
ReconcileAllStarts ==
    /\ run = Idle /\ chAll
    /\ chAll' = FALSE
    /\ \/ /\ NoFault
          /\ run' = [pc |-> "unsched", kind |-> "all", c |-> view,
                     fresh |-> viewFresh, nodes |-> Present,
                     insts |-> instances, dk |-> dk,
                     todo |-> {n \in Nodes : cluster[n] = "cordoned"}]
       \/ Fault /\ UNCHANGED run
    /\ NoSendFault
    /\ UNCHANGED <<now, clusterVars, cmVars, chDels, chUpdates, history, crashes>>

\* onUpdate: only an unschedulable node is of interest; one that is gone by
\* now is an error.
OnUpdateStarts(n) ==
    /\ run = Idle /\ n \in chUpdates
    /\ chUpdates' = chUpdates \ {n}
    /\ \/ /\ NoFault
          /\ run' = IF cluster[n] = "cordoned"
                    THEN [Idle EXCEPT !.pc = "unsched", !.kind = "update",
                                      !.c = view, !.fresh = viewFresh,
                                      !.todo = {n}]
                    ELSE Idle
       \/ Fault /\ UNCHANGED run
    /\ NoSendFault
    /\ UNCHANGED <<now, clusterVars, cmVars, chDels, chAll, history, crashes>>

\* onDeletion looks the DynaKube up itself, and only if it needs it.
OnDeletionStarts(n) ==
    /\ run = Idle /\ n \in chDels
    /\ chDels' = chDels \ {n}
    /\ \/ /\ NoFault
          /\ run' = [Idle EXCEPT !.pc = "remove", !.kind = "deletion",
                                 !.c = view, !.fresh = viewFresh,
                                 !.dk = dk, !.todo = {n}]
       \/ Fault /\ UNCHANGED run
    /\ NoSendFault
    /\ UNCHANGED <<now, clusterVars, cmVars, chUpdates, chAll, history, crashes>>

-----------------------------------------------------------------------------
(* Marking nodes                                                           *)

\* Mutants of isMarkableForTermination: a node is marked again at the hour
\* already; the time it was last seen is taken for that of the last mark.
isMarkableAtTheHourMutant(e) == e.marked + Hour <= now

isMarkableBySeenMutant(e) == e.seen + Hour < now

\* lastMarked.Add(time.Hour).Before(time.Now())
isMarkableForTermination(e) == e.marked + Hour < now

\* Mutant of sendMarkedForTermination: errors are logged only.
sendMarkedForTerminationMutant(n, ip, err) ==
    /\ ~err
    /\ \/ /\ ip /\ NoSendFault
          /\ lastSent' = [lastSent EXCEPT ![n] = now]
          /\ outcome' = [outcome EXCEPT ![n] = "sent"]
       \/ /\ NoSendFault
          /\ outcome' = [outcome EXCEPT ![n] = "unknown"]
          /\ UNCHANGED lastSent
       \/ /\ SendFault
          /\ outcome' = [outcome EXCEPT ![n] = "failed"]
          /\ UNCHANGED lastSent
    /\ tried' = [tried EXCEPT ![n] = now]
    /\ UNCHANGED tooClose

\* sendMarkedForTermination delivers an event, or gives up without error on
\* an IP that Dynatrace does not know or whose lookup fails, or fails; the
\* answer to an event that was delivered may be lost.
sendMarkedForTermination(n, ip, err) ==
    /\ \/ /\ ip /\ (IF err THEN SendFault ELSE NoSendFault)
          /\ lastSent' = [lastSent EXCEPT ![n] = now]
          /\ tooClose' = tooClose \cup {m \in {n} : now <= lastSent[m] + Hour}
          /\ outcome' = [outcome EXCEPT ![n] = "sent"]
       \/ /\ ~err /\ NoSendFault
          /\ outcome' = [outcome EXCEPT ![n] = "unknown"]
          /\ UNCHANGED <<lastSent, tooClose>>
       \/ /\ ~err /\ SendFault
          /\ outcome' = [outcome EXCEPT ![n] = "lookupFailed"]
          /\ UNCHANGED <<lastSent, tooClose>>
       \/ /\ err /\ SendFault
          /\ outcome' = [outcome EXCEPT ![n] = "failed"]
          /\ UNCHANGED <<lastSent, tooClose>>
    /\ tried' = [tried EXCEPT ![n] = now]

\* The cache entry of n is stamped before the event is sent.
markForTermination(c, n, ip, c1, err) ==
    \/ /\ ~isMarkableForTermination(c[n])
       /\ c1 = c /\ ~err
       /\ NoSendFault
       /\ UNCHANGED history
    \/ /\ isMarkableForTermination(c[n])
       /\ c1 = [c EXCEPT ![n].marked = now]
       /\ sendMarkedForTermination(n, ip, err)

\* What a mark may leave in the handler's copy of the cache.
MarkChoices(c, n) == {c, [c EXCEPT ![n].marked = now]}

\* The address of the OneAgent on n, if it has one.
HasIP(n) == instances[n] = "ip"

\* A node that is not cached yet gets an entry without a mark.
CacheEntry(n) ==
    IF run.c[n] = NoEntry
    THEN [ip |-> HasIP(n), seen |-> now, marked |-> Never]
    ELSE run.c[n]

Cached(n) == [run.c EXCEPT ![n] = CacheEntry(n)]

\* reconcileUnschedulableNode: a node that runs a OneAgent is cached and
\* marked.  An error ends the handler, and nothing is written.
reconcileUnschedulableNode(n) ==
    /\ run.pc = "unsched" /\ n \in run.todo
    /\ \/ /\ NoFault
          /\ instances[n] = "none"
          /\ run' = [run EXCEPT !.todo = @ \ {n}]
          /\ NoSendFault
          /\ UNCHANGED history
       \/ /\ NoFault
          /\ instances[n] # "none"
          /\ \E c1 \in MarkChoices(Cached(n), n), err \in BOOLEAN :
                /\ markForTermination(Cached(n), n, HasIP(n), c1, err)
                /\ run' = IF err THEN Idle
                          ELSE [run EXCEPT !.todo = @ \ {n}, !.c = c1]
       \/ /\ Fault
          /\ run' = Idle
          /\ NoSendFault
          /\ UNCHANGED history
    /\ UNCHANGED <<now, clusterVars, cmVars, channels, crashes>>

\* Mutant of Refreshed: the time of the last mark is not carried over.
RefreshedMutant(c) ==
    [n \in Nodes |->
        IF n \in run.nodes /\ run.insts[n] # "none"
        THEN [ip |-> run.insts[n] = "ip", seen |-> now, marked |-> Never]
        ELSE c[n]]

\* reconcileAll refreshes the entries of the nodes that run a OneAgent, and
\* goes on to those that are cached but not in the cluster.
Refreshed(c) ==
    [n \in Nodes |->
        IF n \in run.nodes /\ run.insts[n] # "none"
        THEN [ip |-> run.insts[n] = "ip", seen |-> now, marked |-> c[n].marked]
        ELSE c[n]]

\* Mutant of RefreshCache: nodes that are gone are left to onDeletion.
RefreshCacheMutant ==
    /\ run.pc = "unsched" /\ run.todo = {} /\ run.kind = "all"
    /\ run' = [Idle EXCEPT !.pc = "remove", !.kind = "all",
                           !.c = Refreshed(run.c),
                           !.fresh = run.fresh, !.dk = run.dk]
    /\ NoFault /\ NoSendFault
    /\ UNCHANGED <<now, clusterVars, cmVars, channels, history, crashes>>

RefreshCache ==
    /\ run.pc = "unsched" /\ run.todo = {} /\ run.kind = "all"
    /\ run' = LET c == Refreshed(run.c) IN
              [Idle EXCEPT !.pc = "remove", !.kind = "all", !.c = c,
                           !.fresh = run.fresh, !.dk = run.dk,
                           !.todo = {n \in Nodes \ run.nodes : c[n] # NoEntry}]
    /\ NoFault /\ NoSendFault
    /\ UNCHANGED <<now, clusterVars, cmVars, channels, history, crashes>>

\* Sub(LastSeen).Hours() > 1
Stale(e) == now > e.seen + Hour

\* removeNode, when there is nobody to notify.
RemoveSilently(n) ==
    LET e == run.c[n] IN
    /\ run.pc = "remove" /\ n \in run.todo
    /\ e = NoEntry \/ Stale(e) \/ ~e.ip \/ ~run.dk
    /\ run' = [run EXCEPT !.todo = @ \ {n}, !.c[n] = NoEntry]
    /\ NoFault /\ NoSendFault
    /\ UNCHANGED <<now, clusterVars, cmVars, channels, history, crashes>>

\* removeNode: the entry is dropped once the node is marked.  An error ends
\* onDeletion; reconcileAll logs it and goes on with the next node.
RemoveMarked(n) ==
    LET e == run.c[n] IN
    /\ run.pc = "remove" /\ n \in run.todo
    /\ e # NoEntry /\ ~Stale(e) /\ e.ip /\ run.dk
    /\ \E c1 \in MarkChoices(run.c, n), err \in BOOLEAN :
          /\ markForTermination(run.c, n, e.ip, c1, err)
          /\ run' = IF err /\ run.kind = "deletion" THEN Idle
                    ELSE [run EXCEPT !.todo = @ \ {n},
                             !.c = IF err THEN c1
                                   ELSE [c1 EXCEPT ![n] = NoEntry]]
    /\ NoFault
    /\ UNCHANGED <<now, clusterVars, cmVars, channels, crashes>>

\* updateCache: the write is refused if the version read is not the current
\* one, and the handler's work is lost.
UpdateCache ==
    /\ run.todo = {}
    /\ run.pc = "remove" \/ run.kind = "update"
    /\ run' = Idle
    /\ \/ /\ run.fresh
          /\ NoFault
          /\ cm' = run.c
          /\ view' = cm' /\ viewFresh' = TRUE
       \/ /\ run.fresh /\ run.c # cm
          /\ Fault
          /\ cm' = run.c
          /\ view' = cm /\ viewFresh' = FALSE
       \/ ~run.fresh /\ NoFault /\ UNCHANGED cmVars
       \/ Fault /\ UNCHANGED cmVars
    /\ NoSendFault
    /\ UNCHANGED <<now, clusterVars, channels, history, crashes>>

-----------------------------------------------------------------------------
(* The environment                                                         *)

Rest == <<now, cmVars, run, history, faults, sendFaults, crashes>>

Change == changes < MaxChanges /\ changes' = changes + 1

NodeDeleted(n) ==
    /\ Change
    /\ cluster[n] # "absent"
    /\ cluster' = [cluster EXCEPT ![n] = "absent"]
    /\ chDels' = chDels \cup {n}
    /\ UNCHANGED <<dk, instances, rejoined, chUpdates, chAll, Rest>>

NodeJoins(n) ==
    /\ Change
    /\ cluster[n] = "absent"
    /\ cluster' = [cluster EXCEPT ![n] = "ready"]
    /\ rejoined' = rejoined \cup {n}
    /\ UNCHANGED <<dk, instances, channels, Rest>>

\* The node is cordoned or tainted by the autoscaler, or released again.
NodeCordoned(n) ==
    /\ Change
    /\ cluster[n] # "absent"
    /\ cluster' = [cluster EXCEPT ![n] = IF @ = "ready" THEN "cordoned" ELSE "ready"]
    /\ chUpdates' = chUpdates \cup {n}
    /\ UNCHANGED <<dk, instances, rejoined, chDels, chAll, Rest>>

\* Nodes report their status all the time.
NodeHeartbeat(n) ==
    /\ cluster[n] # "absent" /\ n \notin chUpdates
    /\ chUpdates' = chUpdates \cup {n}
    /\ UNCHANGED <<clusterVars, chDels, chAll, Rest>>

\* The DynaKube controller records the OneAgent pods it finds.
InstancesChange(n) ==
    /\ Change
    /\ dk
    /\ \E i \in {"none", "noIP", "ip"} \ {instances[n]} :
          instances' = [instances EXCEPT ![n] = i]
    /\ UNCHANGED <<cluster, dk, rejoined, channels, Rest>>

DynaKubeDeleted ==
    /\ Change
    /\ dk
    /\ dk' = FALSE
    /\ instances' = [n \in Nodes |-> "none"]
    /\ UNCHANGED <<cluster, rejoined, channels, Rest>>

\* watchTicks: the channel holds one tick.
TickerFires ==
    /\ ~chAll
    /\ chAll' = TRUE
    /\ UNCHANGED <<clusterVars, chDels, chUpdates, Rest>>

Tick ==
    /\ now < MaxTime
    /\ now' = now + 1
    /\ UNCHANGED <<clusterVars, cmVars, channels, run, history, faults,
                   sendFaults, crashes>>

InformerSyncs ==
    /\ ~viewFresh
    /\ view' = cm /\ viewFresh' = TRUE
    /\ UNCHANGED <<now, clusterVars, cm, channels, run, history, faults,
                   sendFaults, crashes>>

\* The operator restarts: notifications are lost, the first tick comes at
\* once.
Crash ==
    /\ crashes < MaxCrashes
    /\ crashes' = crashes + 1
    /\ chDels' = {} /\ chUpdates' = {} /\ chAll' = TRUE
    /\ run' = Idle
    /\ view' = cm /\ viewFresh' = TRUE
    /\ UNCHANGED <<now, clusterVars, cm, history, faults, sendFaults>>

Handle ==
    \/ ReconcileAllStarts
    \/ \E n \in Nodes : OnUpdateStarts(n)
    \/ \E n \in Nodes : OnDeletionStarts(n)
    \/ \E n \in Nodes : reconcileUnschedulableNode(n)
    \/ RefreshCache
    \/ \E n \in Nodes : RemoveSilently(n)
    \/ \E n \in Nodes : RemoveMarked(n)
    \/ UpdateCache

Next ==
    \/ Handle
    \/ \E n \in Nodes :
          \/ NodeDeleted(n) \/ NodeJoins(n) \/ NodeCordoned(n)
          \/ NodeHeartbeat(n) \/ InstancesChange(n)
    \/ DynaKubeDeleted \/ TickerFires \/ Tick \/ InformerSyncs \/ Crash

Spec == Init /\ [][Next]_vars

\* The goroutine runs and its select loop is fair to the ticker, which fires
\* for ever; the informer catches up.
Fairness ==
    /\ WF_vars(Handle)
    /\ SF_vars(ReconcileAllStarts)
    /\ WF_vars(TickerFires)
    /\ WF_vars(InformerSyncs)

FairSpec == Spec /\ Fairness

-----------------------------------------------------------------------------
(* Properties                                                              *)

Handlers ==
    [pc : {"idle", "unsched", "remove"},
     kind : {"none", "all", "update", "deletion"}, c : Caches, fresh : BOOLEAN,
     nodes : SUBSET Nodes, insts : [Nodes -> {"none", "noIP", "ip"}],
     dk : BOOLEAN, todo : SUBSET Nodes]

\* The variables have their types.
TypeOK ==
    /\ now \in Nat
    /\ cluster \in [Nodes -> {"absent", "ready", "cordoned"}]
    /\ dk \in BOOLEAN
    /\ instances \in [Nodes -> {"none", "noIP", "ip"}]
    /\ cm \in Caches /\ view \in Caches /\ viewFresh \in BOOLEAN
    /\ chDels \in SUBSET Nodes /\ chUpdates \in SUBSET Nodes
    /\ chAll \in BOOLEAN
    /\ run \in Handlers
    /\ lastSent \in [Nodes -> Times]
    /\ tooClose \in SUBSET Nodes
    /\ tried \in [Nodes -> Times]
    /\ outcome \in [Nodes -> {"none", "sent", "unknown", "lookupFailed", "failed"}]
    /\ rejoined \in SUBSET Nodes
    /\ changes \in Nat /\ faults \in Nat /\ sendFaults \in Nat
    /\ crashes \in Nat

\* Two events for the same node are more than an hour apart, whichever of the
\* three handlers sent them (isMarkableForTermination), as long as nothing
\* fails or lags and the node keeps its identity.
HourlyLimit ==
    faults = 0 /\ sendFaults = 0 /\ crashes = 0 => tooClose \subseteq rejoined

\* The running handler drops a node from the cache that has a live DynaKube and
\* a known IP, and was seen within the hour.
Drops(n) ==
    LET e == run.c[n] IN
    /\ run.pc = "remove" /\ n \in run.todo \ run'.todo
    /\ e # NoEntry /\ run'.c[n] = NoEntry /\ run'.pc # "idle"
    /\ ~Stale(e) /\ e.ip /\ run.dk

\* Such a node is dropped only if an event for it was tried within the last
\* hour (removeNode and markForTermination), whichever handler did it, whatever
\* failed or lagged behind and however often the operator was restarted: a
\* stamp in the cache always stands for an attempt.
TriedBeforeRemoval ==
    [][\A n \in Nodes : Drops(n) => now <= tried'[n] + Hour]_vars

\* reconcileAll drops such a node only if the last attempt got through, or
\* Dynatrace answered that it does not know the node: "Notify and remove all
\* nodes on the c that aren't in the cluster." (nodes_controller.go).
NotifiedOnRemoval ==
    [][\A n \in Nodes :
          run.kind = "all" /\ Drops(n) => outcome'[n] \in {"sent", "unknown"}]_vars

\* As long as a node stays cached, the time of its last mark is not lost: no
\* handler writes back an older value, whatever it had read.
MarkIsKept ==
    [][\A n \in Nodes :
          cm[n] # NoEntry /\ cm'[n] # NoEntry => cm[n].marked <= cm'[n].marked]_vars

\* A node that is gone for good leaves the cache, even if the notification
\* was lost and requests fail on the way.
DeletedLeavesCache ==
    \A n \in Nodes :
        <>[](cluster[n] = "absent") => <>[](cm[n] = NoEntry)

\* A cordoned node that runs a OneAgent is marked in the end: an event that
\* was not acknowledged is sent again, for a failed mark is not remembered.  A
\* lookup that fails counts as a mark: it is not repeated within the hour.
CordonedIsMarked ==
    \A n \in Nodes :
        <>[](cluster[n] = "cordoned" /\ instances[n] # "none" /\ n \notin rejoined)
            => <>(outcome[n] \in {"sent", "unknown", "lookupFailed"})

-----------------------------------------------------------------------------
(* The inductive invariant                                                 *)

NoFaults == faults = 0 /\ sendFaults = 0 /\ crashes = 0

\* Nothing is stamped in the future, a fresh view is the ConfigMap, and a
\* handler that is not running works on nothing.
ClockInv ==
    /\ \A n \in Nodes : /\ lastSent[n] <= now /\ tried[n] <= now
                        /\ cm[n].marked <= now
                        /\ view[n].marked <= now /\ run.c[n].marked <= now
    /\ viewFresh => view = cm
    /\ run.pc = "idle" => run.kind = "none"

\* A handler that read the current version knows every mark in it, unless it
\* removed the node.
FreshInv ==
    run.pc # "idle" /\ run.fresh =>
        \A n \in Nodes :
            \/ run.pc = "remove" /\ run.c[n] = NoEntry
            \/ cm[n].marked <= run.c[n].marked

\* A stamp anywhere stands for an attempt to send an event, at that time or
\* later.
TriedInv ==
    \A n \in Nodes : /\ cm[n].marked <= tried[n] /\ view[n].marked <= tried[n]
                     /\ run.c[n].marked <= tried[n]

\* Nodes to be removed are not in the cluster, unless they came back.
AbsentInv ==
    \A n \in Nodes \ rejoined :
        \/ n \in chDels
        \/ run.pc = "remove" /\ n \in run.todo
        \/ run.pc = "unsched" /\ run.kind = "all" /\ n \notin run.nodes
        => cluster[n] = "absent"

\* What the controller knows of the nodes: the copy of the running handler.
Known == IF run.pc = "idle" THEN cm ELSE run.c

\* The last event of a node is remembered, or the node is gone for good and no
\* handler will come across it.
Remembered(n) ==
    \/ lastSent[n] <= Known[n].marked
    \/ /\ Known[n] = NoEntry /\ cluster[n] = "absent"
       /\ run.pc = "unsched" => n \notin run.todo \cup run.nodes

LimitInv ==
    NoFaults =>
        /\ viewFresh /\ run.fresh
        /\ tooClose \subseteq rejoined
        /\ \A n \in Nodes \ rejoined : Remembered(n)

\* Holds initially and is kept by every step.
IInv ==
    TypeOK /\ ClockInv /\ FreshInv /\ TriedInv /\ AbsentInv /\ LimitInv
=============================================================================
