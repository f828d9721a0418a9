----------------------- MODULE NodesControllerProofs -----------------------
(***************************************************************************)
(* Proofs that IInv is an inductive invariant of NodesController and that  *)
(* its safety properties follow, for any number of nodes, any hour, and    *)
(* any number of changes, faults and restarts.                             *)
(***************************************************************************)
EXTENDS NodesController, TLAPS

-----------------------------------------------------------------------------
(* What the helpers of the actions do.                                     *)

\* The zero time is more than an hour before the clock starts.
LEMMA TimeFacts ==
    /\ Never \in Times /\ Times \subseteq Int /\ Nat \subseteq Times
    /\ Hour \in Nat
    /\ \A t \in Nat : Never < t /\ Never + Hour < t
BY BoundsAssumption DEF Never, Times

\* The empty entry, the empty cache and the idle handler.
LEMMA IdleFacts ==
    /\ NoEntry \in Entry /\ NoEntry.marked = Never
    /\ NoCache \in Caches /\ \A n \in Nodes : NoCache[n] = NoEntry
    /\ Idle \in Handlers /\ Idle.pc = "idle" /\ Idle.kind = "none"
    /\ Idle.c = NoCache /\ Idle.fresh /\ Idle.todo = {} /\ Idle.nodes = {}
<1>1. NoEntry \in Entry /\ NoEntry.marked = Never
  BY TimeFacts DEF NoEntry, Entry
<1>2. NoCache \in Caches /\ \A n \in Nodes : NoCache[n] = NoEntry
  BY <1>1 DEF NoCache, Caches
<1>3. QED
  BY <1>1, <1>2 DEF Idle, Handlers

\* Stamping an entry changes its time of the last mark only.
Stamped(c, n) == [c EXCEPT ![n].marked = now]

\* Stamping an entry changes its mark only.
LEMMA StampEffect ==
    ASSUME NEW c \in Caches, NEW n \in Nodes, now \in Nat
    PROVE  /\ Stamped(c, n) \in Caches /\ Stamped(c, n)[n].marked = now
           /\ Stamped(c, n)[n].ip = c[n].ip
           /\ Stamped(c, n)[n].seen = c[n].seen
           /\ \A m \in Nodes \ {n} : Stamped(c, n)[m] = c[m]
<1>1. now \in Times /\ c[n] \in Entry
  BY TimeFacts DEF Caches
<1> DEFINE e == [c[n] EXCEPT !.marked = now]
<1>2. PICK t \in Times : t = now
  BY <1>1
<1>3. e = [c[n] EXCEPT !.marked = t]
  BY <1>2
<1> HIDE DEF e
<1>4. /\ e \in Entry /\ e.marked = t /\ e.ip = c[n].ip /\ e.seen = c[n].seen
  BY <1>1, <1>3 DEF Entry
<1>5. Stamped(c, n) = [c EXCEPT ![n] = e]
  BY DEF e, Stamped
<1>6. QED
  BY <1>2, <1>4, <1>5 DEF Caches

\* What sending an event for n, or not sending it, does to the history.
Sent(n) ==
    /\ lastSent' \in [Nodes -> Times] /\ tooClose' \in SUBSET Nodes
    /\ tried' \in [Nodes -> Times]
    /\ outcome' \in [Nodes -> {"none", "sent", "unknown", "lookupFailed", "failed"}]
    /\ sendFaults' \in Nat /\ (sendFaults' = 0 => sendFaults = 0)
    /\ \A m \in Nodes \ {n} : /\ lastSent'[m] = lastSent[m]
                              /\ tried'[m] = tried[m]
    /\ lastSent'[n] \in {lastSent[n], now} /\ tried'[n] \in {tried[n], now}
    /\ tooClose' \subseteq tooClose \cup {n}
    /\ lastSent[n] + Hour < now => tooClose' = tooClose

\* What markForTermination does: nothing within the hour of the last mark, or
\* a stamp and an attempt to send the event.
LEMMA MarkEffect ==
    ASSUME TypeOK, NEW c \in Caches, NEW n \in Nodes, NEW ip \in BOOLEAN,
           NEW c1, NEW err \in BOOLEAN,
           markForTermination(c, n, ip, c1, err)
    PROVE  /\ c1 \in Caches /\ c1[n].ip = c[n].ip /\ c1[n].seen = c[n].seen
           /\ \A m \in Nodes \ {n} : c1[m] = c[m]
           /\ Sent(n) /\ (err => sendFaults' # 0)
           /\ \/ /\ ~err /\ c1 = c /\ UNCHANGED <<lastSent, tooClose, tried>>
                 /\ ~(c[n].marked + Hour < now)
              \/ /\ c[n].marked + Hour < now /\ c1[n].marked = now
                 /\ tried'[n] = now
<1> USE DEF Sent
<1>0. /\ now \in Nat /\ now \in Times /\ lastSent[n] \in Int /\ Hour \in Nat
      /\ lastSent \in [Nodes -> Times] /\ tried \in [Nodes -> Times]
      /\ outcome \in [Nodes -> {"none", "sent", "unknown", "lookupFailed", "failed"}]
      /\ tooClose \in SUBSET Nodes /\ sendFaults \in Nat
  BY TimeFacts DEF TypeOK
<1>1. CASE /\ ~isMarkableForTermination(c[n])
           /\ c1 = c /\ ~err
           /\ NoSendFault
           /\ UNCHANGED history
  BY <1>0, <1>1 DEF isMarkableForTermination, NoSendFault, history
<1>2. CASE /\ isMarkableForTermination(c[n])
           /\ c1 = [c EXCEPT ![n].marked = now]
           /\ sendMarkedForTermination(n, ip, err)
  <2>1. /\ c1 \in Caches /\ c1[n].ip = c[n].ip /\ c1[n].seen = c[n].seen
        /\ c1[n].marked = now /\ \A m \in Nodes \ {n} : c1[m] = c[m]
        /\ c[n].marked + Hour < now
    <3>1. c1 = Stamped(c, n)
      BY <1>2 DEF Stamped
    <3>2. /\ c1 \in Caches /\ c1[n].ip = c[n].ip /\ c1[n].seen = c[n].seen
          /\ c1[n].marked = now /\ \A m \in Nodes \ {n} : c1[m] = c[m]
      BY <1>0, <3>1, StampEffect
    <3>3. QED
      BY <1>2, <3>2 DEF isMarkableForTermination
  <2>2. /\ tried' \in [Nodes -> Times] /\ tried'[n] = now
        /\ \A m \in Nodes \ {n} : tried'[m] = tried[m]
    BY <1>0, <1>2 DEF sendMarkedForTermination
  <2>3. CASE /\ ip /\ (IF err THEN SendFault ELSE NoSendFault)
             /\ lastSent' = [lastSent EXCEPT ![n] = now]
             /\ tooClose' = tooClose \cup {m \in {n} : now <= lastSent[m] + Hour}
             /\ outcome' = [outcome EXCEPT ![n] = "sent"]
    <3>1. /\ tooClose' \in SUBSET Nodes /\ tooClose' \subseteq tooClose \cup {n}
          /\ lastSent[n] + Hour < now => tooClose' = tooClose
      BY <1>0, <2>3
    <3>2. /\ outcome' \in [Nodes -> {"none", "sent", "unknown", "lookupFailed", "failed"}]
      BY <1>0, <2>3
    <3>3. /\ lastSent' \in [Nodes -> Times] /\ lastSent'[n] = now
          /\ \A m \in Nodes \ {n} : lastSent'[m] = lastSent[m]
      BY <1>0, <2>3
    <3>4. /\ sendFaults' \in Nat /\ (err => sendFaults' # 0)
          /\ sendFaults' = 0 => sendFaults = 0
      BY <1>0, <2>3 DEF SendFault, NoSendFault
    <3>5. QED
      BY <2>1, <2>2, <3>1, <3>2, <3>3, <3>4
  <2>4. CASE /\ ~err /\ NoSendFault
             /\ outcome' = [outcome EXCEPT ![n] = "unknown"]
             /\ UNCHANGED <<lastSent, tooClose>>
    BY <1>0, <2>1, <2>2, <2>4 DEF NoSendFault
  <2>5. CASE /\ ~err /\ SendFault
             /\ outcome' = [outcome EXCEPT ![n] = "lookupFailed"]
             /\ UNCHANGED <<lastSent, tooClose>>
    BY <1>0, <2>1, <2>2, <2>5 DEF SendFault
  <2>6. CASE /\ err /\ SendFault
             /\ outcome' = [outcome EXCEPT ![n] = "failed"]
             /\ UNCHANGED <<lastSent, tooClose>>
    <3>1. sendFaults' \in Nat /\ sendFaults' # 0
      BY <1>0, <2>6 DEF SendFault
    <3>2. /\ outcome' \in [Nodes -> {"none", "sent", "unknown", "lookupFailed", "failed"}]
          /\ UNCHANGED <<lastSent, tooClose>>
      BY <1>0, <2>6
    <3>3. QED
      BY <1>0, <2>1, <2>2, <3>1, <3>2
  <2> HIDE DEF Sent
  <2>7. QED
    BY <1>2, <2>3, <2>4, <2>5, <2>6, Zenon DEF sendMarkedForTermination
<1>3. QED
  BY <1>1, <1>2 DEF markForTermination

-----------------------------------------------------------------------------
(* The steps of the handlers.                                              *)

\* A handler goes on without n, with a cache c1.
LEMMA ContinueEffect ==
    ASSUME run \in Handlers, NEW n \in Nodes, NEW c1 \in Caches,
           run' = [run EXCEPT !.todo = @ \ {n}, !.c = c1]
    PROVE  /\ run' \in Handlers /\ run'.pc = run.pc /\ run'.kind = run.kind
           /\ (run'.fresh <=> run.fresh) /\ run'.nodes = run.nodes
           /\ run'.todo = run.todo \ {n} /\ run'.c = c1
BY DEF Handlers

\* Adding an entry to the cache does not change the time of its last mark.
LEMMA CachedEffect ==
    ASSUME TypeOK, NEW n \in Nodes
    PROVE  /\ Cached(n) \in Caches /\ Cached(n)[n].marked = run.c[n].marked
           /\ \A m \in Nodes \ {n} : Cached(n)[m] = run.c[m]
<1>1. run.c \in Caches /\ run.c[n] \in Entry /\ now \in Times
  BY TimeFacts DEF TypeOK, Handlers, Caches
<1>2. HasIP(n) \in BOOLEAN
  BY DEF HasIP
<1>3. /\ [ip |-> HasIP(n), seen |-> now, marked |-> Never] \in Entry
      /\ [ip |-> HasIP(n), seen |-> now, marked |-> Never].marked = Never
  BY <1>1, <1>2, TimeFacts DEF Entry
<1>4. CacheEntry(n) \in Entry /\ CacheEntry(n).marked = run.c[n].marked
  BY <1>1, <1>3, IdleFacts DEF CacheEntry
<1>5. QED
  BY <1>1, <1>4 DEF Cached, Caches

\* What reconcileUnschedulableNode does.
LEMMA UnschedulableEffect ==
    ASSUME TypeOK, NEW n \in Nodes, reconcileUnschedulableNode(n)
    PROVE  /\ run.pc = "unsched" /\ n \in run.todo
           /\ UNCHANGED <<now, clusterVars, cmVars, channels, crashes>>
           /\ run' \in Handlers /\ Sent(n)
           /\ faults' \in Nat /\ (faults' = 0 => faults = 0)
           /\ \/ /\ run' = Idle /\ (faults' # 0 \/ sendFaults' # 0)
              \/ /\ run'.pc = run.pc /\ run'.kind = run.kind
                 /\ (run'.fresh <=> run.fresh) /\ run'.nodes = run.nodes
                 /\ run'.todo = run.todo \ {n}
                 /\ \A m \in Nodes \ {n} : run'.c[m] = run.c[m]
                 /\ \/ /\ run'.c[n].marked = run.c[n].marked
                       /\ UNCHANGED <<lastSent, tooClose, tried>>
                    \/ /\ run.c[n].marked + Hour < now
                       /\ run'.c[n].marked = now
                       /\ tried'[n] = now
<1>0. /\ run \in Handlers /\ run.c \in Caches /\ now \in Nat /\ now \in Times
      /\ faults \in Nat
  BY TimeFacts DEF TypeOK, Handlers
<1>1. /\ run.pc = "unsched" /\ n \in run.todo
      /\ UNCHANGED <<now, clusterVars, cmVars, channels, crashes>>
  BY DEF reconcileUnschedulableNode
<1>2. ASSUME NoSendFault, UNCHANGED history
      PROVE  Sent(n)
  BY <1>2, <1>0 DEF Sent, history, NoSendFault, TypeOK
<1>3. CASE /\ NoFault
           /\ run' = [run EXCEPT !.todo = @ \ {n}]
           /\ NoSendFault
           /\ UNCHANGED history
  <2>1. /\ run' \in Handlers /\ run'.pc = run.pc /\ run'.kind = run.kind
        /\ (run'.fresh <=> run.fresh) /\ run'.nodes = run.nodes
        /\ run'.todo = run.todo \ {n} /\ run'.c = run.c
    BY <1>0, <1>3 DEF Handlers
  <2>2. QED
    BY <1>0, <1>1, <1>2, <1>3, <2>1 DEF NoFault, history
<1>4. CASE /\ Fault
           /\ run' = Idle
           /\ NoSendFault
           /\ UNCHANGED history
  BY <1>0, <1>1, <1>2, <1>4, IdleFacts DEF Fault, history
<1>5. CASE /\ NoFault
           /\ \E c1 \in MarkChoices(Cached(n), n), err \in BOOLEAN :
                 /\ markForTermination(Cached(n), n, HasIP(n), c1, err)
                 /\ run' = IF err THEN Idle
                           ELSE [run EXCEPT !.todo = @ \ {n}, !.c = c1]
  <2>1. PICK c1 \in MarkChoices(Cached(n), n), err \in BOOLEAN :
           /\ markForTermination(Cached(n), n, HasIP(n), c1, err)
           /\ run' = IF err THEN Idle
                     ELSE [run EXCEPT !.todo = @ \ {n}, !.c = c1]
    BY <1>5
  <2>2. /\ Cached(n) \in Caches /\ Cached(n)[n].marked = run.c[n].marked
        /\ \A m \in Nodes \ {n} : Cached(n)[m] = run.c[m]
    BY CachedEffect
  <2>3. HasIP(n) \in BOOLEAN
    BY DEF HasIP
  <2>4. /\ c1 \in Caches /\ \A m \in Nodes \ {n} : c1[m] = Cached(n)[m]
        /\ Sent(n) /\ (err => sendFaults' # 0)
        /\ \/ /\ ~err /\ c1 = Cached(n)
              /\ UNCHANGED <<lastSent, tooClose, tried>>
           \/ /\ Cached(n)[n].marked + Hour < now /\ c1[n].marked = now
              /\ tried'[n] = now
    <3>1. markForTermination(Cached(n), n, HasIP(n), c1, err)
      BY <2>1
    <3>2. QED
      BY <2>2, <2>3, <3>1, MarkEffect
  <2>5. faults' = faults
    BY <1>5 DEF NoFault
  <2>6. CASE err
    BY <1>0, <1>1, <2>1, <2>4, <2>5, <2>6, IdleFacts
  <2>7. CASE ~err
    <3>1. run' = [run EXCEPT !.todo = @ \ {n}, !.c = c1]
      BY <2>1, <2>7
    <3>2. /\ run' \in Handlers /\ run'.pc = run.pc /\ run'.kind = run.kind
          /\ (run'.fresh <=> run.fresh) /\ run'.nodes = run.nodes
          /\ run'.todo = run.todo \ {n} /\ run'.c = c1
      BY <1>0, <2>4, <3>1, ContinueEffect
    <3>3. QED
      BY <1>0, <1>1, <2>2, <2>4, <2>5, <2>7, <3>2
  <2>8. QED
    BY <2>6, <2>7
<1>6. QED
  BY <1>3, <1>4, <1>5 DEF reconcileUnschedulableNode

\* What removeNode does, whether or not there is somebody to notify: the entry
\* is dropped, unless the event could not be sent.
RemoveOutcome(n) ==
    \/ run' = Idle /\ sendFaults' # 0
    \/ /\ run'.pc = run.pc /\ run'.kind = run.kind
       /\ (run'.fresh <=> run.fresh) /\ run'.nodes = run.nodes
       /\ run'.todo = run.todo \ {n}
       /\ \A m \in Nodes \ {n} : run'.c[m] = run.c[m]
       /\ \/ run'.c[n] = NoEntry /\ UNCHANGED <<lastSent, tooClose, tried>>
          \/ /\ run'.c[n] = NoEntry /\ run.c[n] # NoEntry
             /\ run.c[n].marked + Hour < now
             /\ tried'[n] = now
          \/ /\ sendFaults' # 0 /\ run'.c[n].marked = now
             /\ tried'[n] = now

\* Nobody is notified.
LEMMA RemoveSilentlyEffect ==
    ASSUME TypeOK, NEW n \in Nodes, RemoveSilently(n)
    PROVE  /\ run.pc = "remove" /\ n \in run.todo
           /\ UNCHANGED <<now, clusterVars, cmVars, channels, crashes, faults>>
           /\ run' \in Handlers /\ Sent(n) /\ RemoveOutcome(n)
<1>1. /\ run.pc = "remove" /\ n \in run.todo
      /\ UNCHANGED <<now, clusterVars, cmVars, channels, crashes, faults,
                     sendFaults, lastSent, tooClose, tried, outcome>>
  BY DEF RemoveSilently, NoFault, NoSendFault, history
<1>2. Sent(n)
  BY <1>1 DEF Sent, TypeOK
<1> DEFINE d == [run.c EXCEPT ![n] = NoEntry]
<1>3. run \in Handlers /\ run.c \in Caches
  BY DEF TypeOK, Handlers
<1>4. /\ d \in Caches /\ d[n] = NoEntry
      /\ \A m \in Nodes \ {n} : d[m] = run.c[m]
  BY <1>3, IdleFacts DEF Caches
<1>5. run' = [run EXCEPT !.todo = @ \ {n}, !.c = d]
  BY <1>3 DEF RemoveSilently, Handlers
<1> HIDE DEF d
<1>6. /\ run' \in Handlers /\ run'.pc = run.pc /\ run'.kind = run.kind
      /\ (run'.fresh <=> run.fresh) /\ run'.nodes = run.nodes
      /\ run'.todo = run.todo \ {n} /\ run'.c = d
  BY <1>3, <1>4, <1>5, ContinueEffect
<1>7. QED
  BY <1>1, <1>2, <1>4, <1>6 DEF RemoveOutcome

\* The node is marked first.  When the last mark is less than an hour old,
\* there was one.
LEMMA RemoveMarkedEffect ==
    ASSUME TypeOK, NEW n \in Nodes, RemoveMarked(n)
    PROVE  /\ run.pc = "remove" /\ n \in run.todo
           /\ UNCHANGED <<now, clusterVars, cmVars, channels, crashes, faults>>
           /\ run' \in Handlers /\ Sent(n) /\ RemoveOutcome(n)
           /\ tried'[n] = now \/ (tried' = tried /\ ~(run.c[n].marked + Hour < now))
<1>1. /\ run.pc = "remove" /\ n \in run.todo /\ run.c[n] # NoEntry
      /\ UNCHANGED <<now, clusterVars, cmVars, channels, crashes, faults>>
  BY DEF RemoveMarked, NoFault
<1>2. /\ run \in Handlers /\ run.c \in Caches /\ now \in Nat
      /\ run.c[n].ip \in BOOLEAN
  BY DEF TypeOK, Handlers, Caches, Entry
<1>3. PICK c1 \in MarkChoices(run.c, n), err \in BOOLEAN :
         /\ markForTermination(run.c, n, run.c[n].ip, c1, err)
         /\ run' = IF err /\ run.kind = "deletion" THEN Idle
                   ELSE [run EXCEPT !.todo = @ \ {n},
                            !.c = IF err THEN c1
                                  ELSE [c1 EXCEPT ![n] = NoEntry]]
  BY DEF RemoveMarked
<1>4. /\ c1 \in Caches /\ \A m \in Nodes \ {n} : c1[m] = run.c[m]
      /\ Sent(n) /\ (err => sendFaults' # 0)
      /\ \/ /\ ~err /\ c1 = run.c /\ UNCHANGED <<lastSent, tooClose, tried>>
            /\ ~(run.c[n].marked + Hour < now)
         \/ /\ run.c[n].marked + Hour < now /\ c1[n].marked = now
            /\ tried'[n] = now
  <2>1. markForTermination(run.c, n, run.c[n].ip, c1, err)
    BY <1>3
  <2>2. QED
    BY <1>2, <2>1, MarkEffect
<1>5. CASE err /\ run.kind = "deletion"
  BY <1>1, <1>3, <1>4, <1>5, IdleFacts DEF RemoveOutcome
<1>6. CASE ~(err /\ run.kind = "deletion")
  <2> DEFINE d == IF err THEN c1 ELSE [c1 EXCEPT ![n] = NoEntry]
  <2>1. /\ d \in Caches /\ (err => d = c1) /\ (~err => d[n] = NoEntry)
        /\ \A m \in Nodes \ {n} : d[m] = run.c[m]
    BY <1>4, IdleFacts DEF Caches
  <2>2. run' = [run EXCEPT !.todo = @ \ {n}, !.c = d]
    BY <1>3, <1>6
  <2> HIDE DEF d
  <2>3. /\ run' \in Handlers /\ run'.pc = run.pc /\ run'.kind = run.kind
        /\ (run'.fresh <=> run.fresh) /\ run'.nodes = run.nodes
        /\ run'.todo = run.todo \ {n} /\ run'.c = d
    BY <1>2, <2>1, <2>2, ContinueEffect
  <2>4. RemoveOutcome(n)
    <3>1. CASE err
      BY <1>4, <2>1, <2>3, <3>1 DEF RemoveOutcome
    <3>2. CASE ~err
      BY <1>1, <1>4, <2>1, <2>3, <3>2 DEF RemoveOutcome
    <3>3. QED
      BY <3>1, <3>2
  <2>6. QED
    BY <1>1, <1>4, <2>3, <2>4
<1>7. QED
  BY <1>5, <1>6

\* A handler starts with the view's cache, or ends at once.
Started ==
    /\ run' \in Handlers
    /\ \/ run' = Idle
       \/ run'.c = view /\ (run'.fresh <=> viewFresh)

\* The periodic run reads the cache and lists the nodes.
LEMMA ReconcileAllEffect ==
    ASSUME TypeOK, ReconcileAllStarts
    PROVE  /\ run = Idle /\ Started /\ chAll' \in BOOLEAN
           /\ faults' \in Nat /\ (faults' = 0 => faults = 0)
           /\ UNCHANGED <<now, clusterVars, cmVars, chDels, chUpdates, history,
                          crashes, sendFaults>>
           /\ \/ run' = Idle
              \/ /\ run'.pc = "unsched"
                 /\ \A m \in Nodes : /\ m \in run'.nodes <=> cluster[m] # "absent"
                                     /\ m \in run'.todo => cluster[m] = "cordoned"
<1>1. /\ run = Idle /\ chAll' \in BOOLEAN
      /\ UNCHANGED <<now, clusterVars, cmVars, chDels, chUpdates, history,
                     crashes, sendFaults>>
  BY DEF ReconcileAllStarts, NoSendFault
<1>2. CASE /\ NoFault
           /\ run' = [pc |-> "unsched", kind |-> "all", c |-> view,
                      fresh |-> viewFresh, nodes |-> Present,
                      insts |-> instances, dk |-> dk,
                      todo |-> {n \in Nodes : cluster[n] = "cordoned"}]
  <2>1. /\ Present \in SUBSET Nodes
        /\ \A m \in Nodes : m \in Present <=> cluster[m] # "absent"
    BY DEF Present
  <2> DEFINE T == {n \in Nodes : cluster[n] = "cordoned"}
  <2>2. /\ T \in SUBSET Nodes
        /\ \A m \in Nodes : m \in T => cluster[m] = "cordoned"
    OBVIOUS
  <2>3. run' = [pc |-> "unsched", kind |-> "all", c |-> view,
                fresh |-> viewFresh, nodes |-> Present,
                insts |-> instances, dk |-> dk, todo |-> T]
    BY <1>2
  <2> HIDE DEF T
  <2>4. view \in Caches /\ viewFresh \in BOOLEAN /\ dk \in BOOLEAN
        /\ instances \in [Nodes -> {"none", "noIP", "ip"}]
    BY DEF TypeOK
  <2>5. /\ run' \in Handlers /\ run'.c = view /\ (run'.fresh <=> viewFresh)
        /\ run'.pc = "unsched" /\ run'.nodes = Present /\ run'.todo = T
    BY <2>1, <2>2, <2>3, <2>4 DEF Handlers
  <2>6. faults' \in Nat /\ (faults' = 0 => faults = 0)
    BY <1>2 DEF NoFault, TypeOK
  <2>7. \A m \in Nodes : /\ m \in run'.nodes <=> cluster[m] # "absent"
                         /\ m \in run'.todo => cluster[m] = "cordoned"
    BY <2>1, <2>2, <2>5
  <2>8. Started
    BY <2>5 DEF Started
  <2>9. QED
    BY <1>1, <2>5, <2>6, <2>7, <2>8
<1>3. CASE Fault /\ UNCHANGED run
  BY <1>1, <1>3, IdleFacts DEF Started, Fault, TypeOK
<1>4. QED
  BY <1>2, <1>3 DEF ReconcileAllStarts

\* The update handler looks at one node.
LEMMA OnUpdateEffect ==
    ASSUME TypeOK, NEW n \in Nodes, OnUpdateStarts(n)
    PROVE  /\ run = Idle /\ Started /\ chUpdates' \in SUBSET Nodes
           /\ faults' \in Nat /\ (faults' = 0 => faults = 0)
           /\ UNCHANGED <<now, clusterVars, cmVars, chDels, chAll, history,
                          crashes, sendFaults>>
           /\ \/ run' = Idle
              \/ /\ run'.pc = "unsched" /\ run'.kind = "update"
                 /\ run'.nodes = {} /\ run'.todo = {n} /\ cluster[n] = "cordoned"
<1>1. /\ run = Idle /\ chUpdates' \in SUBSET Nodes
      /\ UNCHANGED <<now, clusterVars, cmVars, chDels, chAll, history,
                     crashes, sendFaults>>
  BY DEF OnUpdateStarts, NoSendFault, TypeOK
<1>2. CASE /\ NoFault /\ cluster[n] = "cordoned"
           /\ run' = [Idle EXCEPT !.pc = "unsched", !.kind = "update",
                                  !.c = view, !.fresh = viewFresh, !.todo = {n}]
  <2>1. /\ run' \in Handlers /\ run'.c = view /\ (run'.fresh <=> viewFresh)
        /\ run'.pc = "unsched" /\ run'.kind = "update"
        /\ run'.nodes = {} /\ run'.todo = {n}
    <3>1. view \in Caches /\ viewFresh \in BOOLEAN /\ Idle \in Handlers
      BY IdleFacts DEF TypeOK
    <3>2. /\ Idle.nodes = {}
          /\ run' = [Idle EXCEPT !.pc = "unsched", !.kind = "update",
                                 !.c = view, !.fresh = viewFresh, !.todo = {n}]
      BY <1>2, IdleFacts
    <3>3. QED
      BY <3>1, <3>2 DEF Handlers
  <2>2. QED
    BY <1>1, <1>2, <2>1 DEF Started, NoFault, TypeOK
<1>3. CASE run' = Idle /\ (NoFault \/ Fault)
  BY <1>1, <1>3, IdleFacts DEF Started, Fault, NoFault, TypeOK
<1>4. QED
  BY <1>1, <1>2, <1>3 DEF OnUpdateStarts

\* The deletion handler takes a name from its channel and reads the cache.
LEMMA OnDeletionEffect ==
    ASSUME TypeOK, NEW n \in Nodes, OnDeletionStarts(n)
    PROVE  /\ run = Idle /\ Started
           /\ n \in chDels /\ chDels' = chDels \ {n}
           /\ faults' \in Nat /\ (faults' = 0 => faults = 0)
           /\ UNCHANGED <<now, clusterVars, cmVars, chUpdates, chAll, history,
                          crashes, sendFaults>>
           /\ \/ run' = Idle
              \/ run'.pc = "remove" /\ run'.todo = {n}
<1>1. /\ run = Idle /\ n \in chDels /\ chDels' = chDels \ {n}
      /\ UNCHANGED <<now, clusterVars, cmVars, chUpdates, chAll, history,
                     crashes, sendFaults>>
  BY DEF OnDeletionStarts, NoSendFault
<1>2. CASE /\ NoFault
           /\ run' = [Idle EXCEPT !.pc = "remove", !.kind = "deletion",
                                  !.c = view, !.fresh = viewFresh,
                                  !.dk = dk, !.todo = {n}]
  <2>1. /\ run' \in Handlers /\ run'.c = view /\ (run'.fresh <=> viewFresh)
        /\ run'.pc = "remove" /\ run'.todo = {n}
    <3>1. /\ view \in Caches /\ viewFresh \in BOOLEAN /\ dk \in BOOLEAN
          /\ Idle \in Handlers
      BY IdleFacts DEF TypeOK
    <3>2. run' = [Idle EXCEPT !.pc = "remove", !.kind = "deletion",
                              !.c = view, !.fresh = viewFresh,
                              !.dk = dk, !.todo = {n}]
      BY <1>2
    <3>3. QED
      BY <3>1, <3>2 DEF Handlers
  <2>2. QED
    BY <1>1, <1>2, <2>1 DEF Started, NoFault, TypeOK
<1>3. CASE Fault /\ UNCHANGED run
  BY <1>1, <1>3, IdleFacts DEF Started, Fault, TypeOK
<1>4. QED
  BY <1>2, <1>3 DEF OnDeletionStarts

\* Refreshing the cache keeps the marks, and the entries of the nodes that are
\* not in the cluster.
LEMMA RefreshEffect ==
    ASSUME TypeOK, RefreshCache
    PROVE  /\ run.pc = "unsched" /\ run.kind = "all"
           /\ UNCHANGED <<now, clusterVars, cmVars, channels, history, faults,
                          sendFaults, crashes>>
           /\ run' \in Handlers /\ run'.pc = "remove"
           /\ (run'.fresh <=> run.fresh)
           /\ \A n \in Nodes : /\ run'.c[n].marked = run.c[n].marked
                               /\ n \notin run.nodes => run'.c[n] = run.c[n]
                               /\ n \in run'.todo => n \notin run.nodes
<1>1. /\ run.pc = "unsched" /\ run.kind = "all"
      /\ UNCHANGED <<now, clusterVars, cmVars, channels, history, faults,
                     sendFaults, crashes>>
  BY DEF RefreshCache, NoFault, NoSendFault
<1>2. /\ run \in Handlers /\ run.c \in Caches /\ now \in Times
      /\ run.fresh \in BOOLEAN /\ run.dk \in BOOLEAN
      /\ \A n \in Nodes : run.c[n] \in Entry
  BY TimeFacts DEF TypeOK, Handlers, Caches
<1> DEFINE b(n) == run.insts[n] = "ip"
           d == Refreshed(run.c)
           T == {n \in Nodes \ run.nodes : d[n] # NoEntry}
<1>3. \A n \in Nodes : b(n) \in BOOLEAN
  OBVIOUS
<1>4. d = [n \in Nodes |->
             IF n \in run.nodes /\ run.insts[n] # "none"
             THEN [ip |-> b(n), seen |-> now, marked |-> run.c[n].marked]
             ELSE run.c[n]]
  BY DEF Refreshed
<1>5. run' = [Idle EXCEPT !.pc = "remove", !.kind = "all", !.c = d,
                          !.fresh = run.fresh, !.dk = run.dk, !.todo = T]
  BY DEF RefreshCache
<1>6. T \in SUBSET Nodes /\ \A n \in Nodes : n \in T => n \notin run.nodes
  OBVIOUS
<1> HIDE DEF b, T, d
<1>7. ASSUME NEW n \in Nodes
      PROVE  /\ [ip |-> b(n), seen |-> now, marked |-> run.c[n].marked] \in Entry
             /\ [ip |-> b(n), seen |-> now, marked |-> run.c[n].marked].marked
                  = run.c[n].marked
  BY <1>2, <1>3 DEF Entry
<1>8. ASSUME NEW n \in Nodes
      PROVE  /\ d[n] \in Entry /\ d[n].marked = run.c[n].marked
             /\ n \notin run.nodes => d[n] = run.c[n]
  BY <1>2, <1>4, <1>7
<1>9. d \in Caches
  BY <1>4, <1>8 DEF Caches
<1>10. /\ run' \in Handlers /\ run'.pc = "remove" /\ run'.c = d
       /\ (run'.fresh <=> run.fresh) /\ run'.todo = T
  BY <1>2, <1>5, <1>6, <1>9, IdleFacts DEF Handlers
<1>11. QED
  BY <1>1, <1>6, <1>8, <1>10

\* The write puts the handler's copy in place, or does nothing.
LEMMA UpdateCacheEffect ==
    ASSUME TypeOK, ClockInv, UpdateCache
    PROVE  /\ run.pc # "idle" /\ run' = Idle
           /\ UNCHANGED <<now, clusterVars, channels, history, sendFaults, crashes>>
           /\ faults' \in Nat /\ (faults' = 0 => faults = 0)
           /\ viewFresh' \in BOOLEAN
           /\ \/ /\ run.fresh /\ cm' = run.c
                 /\ \/ view' = cm' /\ viewFresh'
                    \/ view' = cm /\ ~viewFresh' /\ faults' # 0
              \/ (~run.fresh \/ faults' # 0) /\ UNCHANGED cmVars
<1>1. /\ run.pc # "idle" /\ run' = Idle
      /\ UNCHANGED <<now, clusterVars, channels, history, sendFaults, crashes>>
  BY DEF UpdateCache, NoSendFault, ClockInv
<1>2. /\ faults' \in Nat /\ (faults' = 0 => faults = 0)
      /\ (Fault => faults' # 0)
  BY DEF UpdateCache, Fault, NoFault, TypeOK
<1>3. viewFresh' \in BOOLEAN
  BY DEF UpdateCache, TypeOK, cmVars
<1>4. QED
  BY <1>1, <1>2, <1>3 DEF UpdateCache

-----------------------------------------------------------------------------
(* Every step keeps the inductive invariant.                               *)

\* The times that ClockInv compares.
LEMMA MarkTypes ==
    ASSUME TypeOK
    PROVE  /\ now \in Nat /\ now \in Int
           /\ \A n \in Nodes : /\ lastSent[n] \in Int /\ tried[n] \in Int
                               /\ cm[n].marked \in Int /\ Never <= tried[n]
                               /\ view[n].marked \in Int /\ run.c[n].marked \in Int
<1>1. /\ \A n \in Nodes : /\ lastSent[n] \in Times /\ cm[n] \in Entry
                          /\ tried[n] \in Times
      /\ \A n \in Nodes : view[n] \in Entry /\ run.c[n] \in Entry
  BY DEF TypeOK, Handlers, Caches
<1>2. \A e \in Entry : e.marked \in Int
  BY TimeFacts DEF Entry
<1>3. \A t \in Times : t \in Int /\ Never <= t
  BY BoundsAssumption DEF Times, Never
<1>4. QED
  BY <1>1, <1>2, <1>3, TimeFacts DEF TypeOK

\* Every handler starts with what is in the ConfigMap, when nothing fails.
LEMMA StartStep ==
    ASSUME IInv,
           \/ ReconcileAllStarts
           \/ \E n \in Nodes : OnUpdateStarts(n)
           \/ \E n \in Nodes : OnDeletionStarts(n)
    PROVE  IInv'
<1> USE DEF IInv
<1>1. /\ run = Idle /\ Started
      /\ faults' \in Nat /\ (faults' = 0 => faults = 0)
      /\ UNCHANGED <<now, clusterVars, cmVars, history, crashes, sendFaults>>
      /\ chDels' \subseteq chDels /\ chDels' \in SUBSET Nodes
      /\ chUpdates' \in SUBSET Nodes /\ chAll' \in BOOLEAN
      /\ \/ run' = Idle
         \/ /\ run'.pc = "unsched"
            /\ \A m \in Nodes :
                  m \in run'.nodes \cup run'.todo => cluster[m] # "absent"
            /\ \A m \in Nodes : run'.kind = "all" /\ m \notin run'.nodes
                                    => cluster[m] = "absent"
         \/ /\ run'.pc = "remove"
            /\ \A m \in run'.todo : m \in chDels
  <2>1. chDels \in SUBSET Nodes /\ chUpdates \in SUBSET Nodes /\ chAll \in BOOLEAN
    BY DEF TypeOK
  <2>2. CASE ReconcileAllStarts
    BY <2>1, <2>2, ReconcileAllEffect
  <2>3. CASE \E n \in Nodes : OnUpdateStarts(n)
    BY <2>1, <2>3, OnUpdateEffect
  <2>4. CASE \E n \in Nodes : OnDeletionStarts(n)
    BY <2>1, <2>4, OnDeletionEffect
  <2>5. QED
    BY <2>2, <2>3, <2>4
<1>2. TypeOK'
  BY <1>1 DEF TypeOK, Started, clusterVars, cmVars, history
<1>3. /\ UNCHANGED <<now, cluster, rejoined, cm, view, viewFresh, lastSent, tooClose,
                     tried, crashes, sendFaults>>
      /\ \/ run' = Idle
         \/ run'.c = view /\ (run'.fresh <=> viewFresh)
  BY <1>1 DEF Started, clusterVars, cmVars, history
<1>4. \A n \in Nodes : NoCache[n].marked = Never
  BY IdleFacts
<1>5. ClockInv'
  <2>1. run'.pc = "idle" => run'.kind = "none"
    BY <1>1, IdleFacts
  <2>2. \A n \in Nodes : run'.c[n].marked <= now
    BY <1>1, <1>3, <1>4, MarkTypes, TimeFacts, IdleFacts DEF ClockInv
  <2>3. QED
    BY <1>3, <2>1, <2>2 DEF ClockInv
<1>6. FreshInv'
  BY <1>1, <1>3, MarkTypes, IdleFacts DEF FreshInv, ClockInv
<1>7. TriedInv'
  BY <1>3, <1>4, MarkTypes, IdleFacts DEF TriedInv
<1>8. AbsentInv'
  BY <1>1, <1>3, IdleFacts DEF AbsentInv
<1>9. LimitInv'
  <2> SUFFICES ASSUME NoFaults'
               PROVE  /\ viewFresh' /\ run'.fresh /\ tooClose' \subseteq rejoined'
                      /\ \A m \in Nodes \ rejoined' : Remembered(m)'
    BY DEF LimitInv
  <2>1. NoFaults
    BY <1>1, <1>3 DEF NoFaults
  <2>2. viewFresh' /\ run'.fresh /\ tooClose' \subseteq rejoined'
    BY <1>3, <2>1, IdleFacts DEF LimitInv
  <2>3. Known' = Known
    BY <1>1, <1>3, <2>1, IdleFacts DEF Known, ClockInv, LimitInv
  <2>4. ASSUME NEW n \in Nodes \ rejoined' PROVE Remembered(n)'
    <3>1. Remembered(n)
      BY <1>3, <2>1, <2>4 DEF LimitInv
    <3>2. run'.pc = "unsched" /\ cluster[n] = "absent" => n \notin run'.todo \cup run'.nodes
      BY <1>1, <2>4, IdleFacts
    <3>3. QED
      BY <1>3, <2>3, <3>1, <3>2 DEF Remembered
  <2>5. QED
    BY <2>2, <2>4 DEF LimitInv
<1>10. QED
  BY <1>2, <1>5, <1>6, <1>7, <1>8, <1>9

\* A node is marked only if its last event is known and an hour old.
LEMMA UnschedulableStep ==
    ASSUME IInv, NEW n \in Nodes, reconcileUnschedulableNode(n)
    PROVE  IInv'
<1> USE DEF IInv
<1>1. /\ run.pc = "unsched" /\ n \in run.todo
      /\ UNCHANGED <<now, clusterVars, cmVars, channels, crashes>>
      /\ run' \in Handlers /\ Sent(n)
      /\ faults' \in Nat /\ (faults' = 0 => faults = 0)
      /\ \/ /\ run' = Idle /\ (faults' # 0 \/ sendFaults' # 0)
         \/ /\ run'.pc = run.pc /\ run'.kind = run.kind
            /\ (run'.fresh <=> run.fresh) /\ run'.nodes = run.nodes
            /\ run'.todo = run.todo \ {n}
            /\ \A m \in Nodes \ {n} : run'.c[m] = run.c[m]
            /\ \/ /\ run'.c[n].marked = run.c[n].marked
                  /\ UNCHANGED <<lastSent, tooClose, tried>>
               \/ /\ run.c[n].marked + Hour < now
                  /\ run'.c[n].marked = now
                  /\ tried'[n] = now
  BY UnschedulableEffect
<1>2. TypeOK'
  BY <1>1 DEF TypeOK, Sent, clusterVars, cmVars, channels
<1>3. /\ UNCHANGED <<now, cluster, rejoined, cm, view, viewFresh, chDels, crashes>>
      /\ (sendFaults' = 0 => sendFaults = 0)
      /\ \A m \in Nodes \ {n} : lastSent'[m] = lastSent[m] /\ tried'[m] = tried[m]
      /\ lastSent'[n] \in {lastSent[n], now} /\ tried'[n] \in {tried[n], now}
      /\ tooClose' \subseteq tooClose \cup {n}
      /\ lastSent[n] + Hour < now => tooClose' = tooClose
  BY <1>1 DEF clusterVars, cmVars, channels, Sent
<1>4. \A m \in Nodes : NoCache[m].marked = Never
  BY IdleFacts
<1>5. ClockInv'
  <2>1. run'.pc = "idle" => run'.kind = "none"
    BY <1>1, IdleFacts
  <2>2. \A m \in Nodes : run'.c[m].marked <= now
    BY <1>1, <1>4, MarkTypes, TimeFacts, IdleFacts DEF ClockInv
  <2>3. \A m \in Nodes : lastSent'[m] <= now /\ tried'[m] <= now
    BY <1>3, MarkTypes DEF ClockInv
  <2>4. QED
    BY <1>3, <2>1, <2>2, <2>3 DEF ClockInv
<1>6. FreshInv'
  BY <1>1, <1>3, MarkTypes, IdleFacts DEF FreshInv, ClockInv
<1>7. TriedInv'
  <2>1. \A m \in Nodes : tried[m] <= tried'[m] /\ tried'[m] \in Int
    BY <1>3, MarkTypes DEF ClockInv
  <2>2. \A m \in Nodes : cm'[m].marked <= tried'[m] /\ view'[m].marked <= tried'[m]
    BY <1>3, <2>1, MarkTypes DEF TriedInv
  <2>3. ASSUME NEW m \in Nodes PROVE run'.c[m].marked <= tried'[m]
    <3>1. CASE run' = Idle
      BY <1>4, <2>1, <3>1, MarkTypes, TimeFacts, IdleFacts
    <3>2. CASE run'.c[m].marked = run.c[m].marked
      BY <2>1, <3>2, MarkTypes DEF TriedInv
    <3>3. CASE m = n /\ run'.c[n].marked = now /\ tried'[n] = now
      BY <3>3, MarkTypes
    <3>4. QED
      BY <1>1, <3>1, <3>2, <3>3
  <2>4. QED
    BY <2>2, <2>3 DEF TriedInv
<1>8. AbsentInv'
  BY <1>1, <1>3, IdleFacts DEF AbsentInv
<1>9. LimitInv'
  <2> SUFFICES ASSUME NoFaults'
               PROVE  /\ viewFresh' /\ run'.fresh /\ tooClose' \subseteq rejoined'
                      /\ \A m \in Nodes \ rejoined' : Remembered(m)'
    BY DEF LimitInv
  <2>1. NoFaults /\ sendFaults' = 0 /\ faults' = 0
    BY <1>1, <1>3 DEF NoFaults
  <2>2. /\ run'.pc = run.pc /\ run'.todo = run.todo \ {n} /\ run'.nodes = run.nodes
        /\ (run'.fresh <=> run.fresh)
        /\ \A m \in Nodes \ {n} : run'.c[m] = run.c[m]
        /\ Known = run.c /\ Known' = run'.c
        /\ \/ /\ run'.c[n].marked = run.c[n].marked
              /\ UNCHANGED <<lastSent, tooClose, tried>>
           \/ /\ run.c[n].marked + Hour < now
              /\ run'.c[n].marked = now
    BY <1>1, <2>1 DEF Known
  <2>3. n \notin rejoined => lastSent[n] <= run.c[n].marked
    BY <1>1, <2>1, <2>2 DEF LimitInv, Remembered
  <2>4. tooClose' \subseteq rejoined
    <3>1. n \notin rejoined => tooClose' = tooClose
      BY <1>3, <2>2, <2>3, MarkTypes, TimeFacts
    <3>2. QED
      BY <1>3, <2>1, <3>1 DEF LimitInv
  <2>5. ASSUME NEW m \in Nodes \ rejoined PROVE Remembered(m)'
    <3>1. CASE m = n
      <4>1. lastSent'[n] <= run'.c[n].marked
        BY <1>3, <2>2, <2>3, <2>5, <3>1, MarkTypes DEF ClockInv
      <4>2. QED
        BY <2>2, <3>1, <4>1 DEF Remembered
    <3>2. CASE m # n
      <4>1. Remembered(m)
        BY <2>1, <2>5 DEF LimitInv
      <4>2. QED
        BY <1>3, <2>2, <2>5, <3>2, <4>1 DEF Remembered
    <3>3. QED
      BY <3>1, <3>2
  <2>6. QED
    BY <1>3, <2>1, <2>2, <2>4, <2>5 DEF LimitInv
<1>10. QED
  BY <1>2, <1>5, <1>6, <1>7, <1>8, <1>9

\* Refreshing the cache forgets no mark.
LEMMA RefreshStep ==
    ASSUME IInv, RefreshCache
    PROVE  IInv'
<1> USE DEF IInv
<1>1. /\ run.pc = "unsched" /\ run.kind = "all"
      /\ UNCHANGED <<now, clusterVars, cmVars, channels, history, faults,
                     sendFaults, crashes>>
      /\ run' \in Handlers /\ run'.pc = "remove"
      /\ (run'.fresh <=> run.fresh)
      /\ \A n \in Nodes : /\ run'.c[n].marked = run.c[n].marked
                          /\ n \notin run.nodes => run'.c[n] = run.c[n]
                          /\ n \in run'.todo => n \notin run.nodes
  BY RefreshEffect
<1>2. TypeOK'
  BY <1>1 DEF TypeOK, clusterVars, cmVars, channels, history
<1>3. UNCHANGED <<now, cluster, rejoined, cm, view, viewFresh, chDels, lastSent,
                  tooClose, tried, faults, sendFaults, crashes>>
  BY <1>1 DEF clusterVars, cmVars, channels, history
<1>4. ClockInv'
  BY <1>1, <1>3 DEF ClockInv
<1>5. FreshInv'
  BY <1>1, <1>3 DEF FreshInv
<1>6. TriedInv'
  BY <1>1, <1>3 DEF TriedInv
<1>7. AbsentInv'
  BY <1>1, <1>3 DEF AbsentInv
<1>8. LimitInv'
  <2> SUFFICES ASSUME NoFaults'
               PROVE  /\ viewFresh' /\ run'.fresh /\ tooClose' \subseteq rejoined'
                      /\ \A m \in Nodes \ rejoined' : Remembered(m)'
    BY DEF LimitInv
  <2>1. NoFaults /\ Known = run.c /\ Known' = run'.c
    BY <1>1, <1>3 DEF NoFaults, Known
  <2>2. ASSUME NEW m \in Nodes \ rejoined PROVE Remembered(m)'
    <3>1. Remembered(m)
      BY <2>1, <2>2 DEF LimitInv
    <3>2. QED
      BY <1>1, <1>3, <2>1, <2>2, <3>1 DEF Remembered
  <2>3. QED
    BY <1>1, <1>3, <2>1, <2>2 DEF LimitInv
<1>9. QED
  BY <1>2, <1>4, <1>5, <1>6, <1>7, <1>8

\* A node that is removed is gone: nothing has to be known of it any more.
LEMMA RemoveStep ==
    ASSUME IInv, NEW n \in Nodes, RemoveSilently(n) \/ RemoveMarked(n)
    PROVE  IInv'
<1> USE DEF IInv
<1>1. /\ run.pc = "remove" /\ n \in run.todo
      /\ UNCHANGED <<now, clusterVars, cmVars, channels, crashes, faults>>
      /\ run' \in Handlers /\ Sent(n) /\ RemoveOutcome(n)
  BY RemoveSilentlyEffect, RemoveMarkedEffect
<1>2. TypeOK'
  BY <1>1 DEF TypeOK, Sent, clusterVars, cmVars, channels
<1>3. /\ UNCHANGED <<now, cluster, rejoined, cm, view, viewFresh, chDels, crashes,
                     faults>>
      /\ (sendFaults' = 0 => sendFaults = 0)
      /\ \A m \in Nodes \ {n} : lastSent'[m] = lastSent[m] /\ tried'[m] = tried[m]
      /\ lastSent'[n] \in {lastSent[n], now} /\ tried'[n] \in {tried[n], now}
      /\ tooClose' \subseteq tooClose \cup {n}
      /\ lastSent[n] + Hour < now => tooClose' = tooClose
  BY <1>1 DEF clusterVars, cmVars, channels, Sent
<1>4. \A m \in Nodes : NoCache[m].marked = Never
  BY IdleFacts
<1>5. \/ run' = Idle /\ sendFaults' # 0
      \/ /\ run'.pc = run.pc /\ run'.kind = run.kind
         /\ (run'.fresh <=> run.fresh) /\ run'.nodes = run.nodes
         /\ run'.todo = run.todo \ {n}
         /\ \A m \in Nodes \ {n} : run'.c[m] = run.c[m]
         /\ \/ run'.c[n] = NoEntry /\ UNCHANGED <<lastSent, tooClose, tried>>
            \/ /\ run'.c[n] = NoEntry /\ run.c[n] # NoEntry
               /\ run.c[n].marked + Hour < now
               /\ tried'[n] = now
            \/ /\ sendFaults' # 0 /\ run'.c[n].marked = now
               /\ tried'[n] = now
  BY <1>1 DEF RemoveOutcome
<1>6. ClockInv'
  <2>1. run'.pc = "idle" => run'.kind = "none"
    BY <1>1, <1>5, IdleFacts
  <2>2. \A m \in Nodes : run'.c[m].marked <= now
    BY <1>4, <1>5, MarkTypes, TimeFacts, IdleFacts DEF ClockInv
  <2>3. \A m \in Nodes : lastSent'[m] <= now /\ tried'[m] <= now
    BY <1>3, MarkTypes DEF ClockInv
  <2>4. QED
    BY <1>3, <2>1, <2>2, <2>3 DEF ClockInv
<1>7. FreshInv'
  BY <1>1, <1>3, <1>5, MarkTypes, IdleFacts DEF FreshInv, ClockInv
<1>8. TriedInv'
  <2>1. \A m \in Nodes : tried[m] <= tried'[m] /\ tried'[m] \in Int
    BY <1>3, MarkTypes DEF ClockInv
  <2>2. \A m \in Nodes : cm'[m].marked <= tried'[m] /\ view'[m].marked <= tried'[m]
    BY <1>3, <2>1, MarkTypes DEF TriedInv
  <2>3. ASSUME NEW m \in Nodes PROVE run'.c[m].marked <= tried'[m]
    <3>1. CASE run' = Idle \/ run'.c[m] = NoEntry
      BY <1>4, <2>1, <3>1, MarkTypes, TimeFacts, IdleFacts
    <3>2. CASE run'.c[m] = run.c[m]
      BY <2>1, <3>2, MarkTypes DEF TriedInv
    <3>3. CASE m = n /\ run'.c[n].marked = now /\ tried'[n] = now
      BY <3>3, MarkTypes
    <3>4. QED
      BY <1>5, <3>1, <3>2, <3>3
  <2>4. QED
    BY <2>2, <2>3 DEF TriedInv
<1>9. AbsentInv'
  BY <1>1, <1>3, <1>5, IdleFacts DEF AbsentInv
<1>10. LimitInv'
  <2> SUFFICES ASSUME NoFaults'
               PROVE  /\ viewFresh' /\ run'.fresh /\ tooClose' \subseteq rejoined'
                      /\ \A m \in Nodes \ rejoined' : Remembered(m)'
    BY DEF LimitInv
  <2>1. NoFaults /\ sendFaults' = 0
    BY <1>3 DEF NoFaults
  <2>2. /\ run'.pc = run.pc /\ (run'.fresh <=> run.fresh)
        /\ \A m \in Nodes \ {n} : run'.c[m] = run.c[m]
        /\ Known = run.c /\ Known' = run'.c /\ run'.c[n] = NoEntry
        /\ \/ UNCHANGED <<lastSent, tooClose>>
           \/ run.c[n] # NoEntry /\ run.c[n].marked + Hour < now
    BY <1>1, <1>5, <2>1 DEF Known
  <2>3. n \notin rejoined => cluster[n] = "absent"
    BY <1>1 DEF AbsentInv
  <2>4. tooClose' \subseteq rejoined
    <3>1. n \notin rejoined /\ run.c[n] # NoEntry => lastSent[n] <= run.c[n].marked
      BY <2>1, <2>2 DEF LimitInv, Remembered
    <3>2. n \notin rejoined => tooClose' = tooClose
      BY <1>3, <2>2, <3>1, MarkTypes, TimeFacts
    <3>3. QED
      BY <1>3, <2>1, <3>2 DEF LimitInv
  <2>5. ASSUME NEW m \in Nodes \ rejoined PROVE Remembered(m)'
    <3>1. CASE m = n
      BY <1>1, <1>3, <2>2, <2>3, <2>5, <3>1 DEF Remembered
    <3>2. CASE m # n
      <4>1. Remembered(m)
        BY <2>1, <2>5 DEF LimitInv
      <4>2. QED
        BY <1>1, <1>3, <2>2, <2>5, <3>2, <4>1 DEF Remembered
    <3>3. QED
      BY <3>1, <3>2
  <2>6. QED
    BY <1>3, <2>1, <2>2, <2>4, <2>5 DEF LimitInv
<1>11. QED
  BY <1>2, <1>6, <1>7, <1>8, <1>9, <1>10

\* What the handler knows is what the ConfigMap holds after the write.
LEMMA UpdateCacheStep ==
    ASSUME IInv, UpdateCache
    PROVE  IInv'
<1> USE DEF IInv
<1>1. /\ run.pc # "idle" /\ run' = Idle
      /\ UNCHANGED <<now, clusterVars, channels, history, sendFaults, crashes>>
      /\ faults' \in Nat /\ (faults' = 0 => faults = 0)
      /\ viewFresh' \in BOOLEAN
      /\ \/ /\ run.fresh /\ cm' = run.c
            /\ \/ view' = cm' /\ viewFresh'
               \/ view' = cm /\ ~viewFresh' /\ faults' # 0
         \/ (~run.fresh \/ faults' # 0) /\ UNCHANGED cmVars
  BY UpdateCacheEffect
<1>2. /\ UNCHANGED <<now, cluster, rejoined, chDels, lastSent, tooClose, tried,
                     sendFaults, crashes>>
      /\ run'.c = NoCache /\ run'.pc = "idle" /\ run'.kind = "none" /\ run'.fresh
      /\ \/ /\ run.fresh /\ cm' = run.c
            /\ \/ view' = cm' /\ viewFresh'
               \/ view' = cm /\ ~viewFresh' /\ faults' # 0
         \/ /\ ~run.fresh \/ faults' # 0
            /\ UNCHANGED <<cm, view, viewFresh>>
  BY <1>1, IdleFacts DEF clusterVars, channels, history, cmVars
<1>3. run.c \in Caches
  BY DEF TypeOK, Handlers
<1>4. TypeOK'
  BY <1>1, <1>2, <1>3, IdleFacts DEF TypeOK, clusterVars, channels, history
<1>5. \A m \in Nodes : NoCache[m].marked = Never
  BY IdleFacts
<1>6. ClockInv'
  <2>1. \A m \in Nodes : Never <= now
    BY MarkTypes, TimeFacts
  <2>2. \A m \in Nodes : cm'[m].marked <= now /\ view'[m].marked <= now
    BY <1>2 DEF ClockInv
  <2>3. QED
    BY <1>2, <1>5, <2>1, <2>2 DEF ClockInv
<1>7. FreshInv' /\ AbsentInv'
  BY <1>2 DEF FreshInv, AbsentInv
<1>8. TriedInv'
  BY <1>2, <1>5, MarkTypes DEF TriedInv
<1>9. LimitInv'
  <2> SUFFICES ASSUME NoFaults'
               PROVE  /\ viewFresh' /\ run'.fresh /\ tooClose' \subseteq rejoined'
                      /\ \A m \in Nodes \ rejoined' : Remembered(m)'
    BY DEF LimitInv
  <2>1. NoFaults /\ faults' = 0
    BY <1>1, <1>2 DEF NoFaults
  <2>2. viewFresh' /\ cm' = run.c
    BY <1>2, <2>1 DEF LimitInv
  <2>3. Known' = Known
    BY <1>1, <1>2, <2>2 DEF Known
  <2>4. QED
    BY <1>2, <2>1, <2>2, <2>3 DEF LimitInv, Remembered
<1>10. QED
  BY <1>4, <1>6, <1>7, <1>8, <1>9

\* Changes of the cluster: a node that is gone stays gone, or it is counted
\* among those that came back.
LEMMA ClusterStep ==
    ASSUME IInv,
           \/ \E n \in Nodes :
                 \/ NodeDeleted(n) \/ NodeJoins(n) \/ NodeCordoned(n)
                 \/ NodeHeartbeat(n) \/ InstancesChange(n)
           \/ DynaKubeDeleted \/ TickerFires
    PROVE  IInv'
<1> USE DEF IInv
<1>1. /\ cluster' \in [Nodes -> {"absent", "ready", "cordoned"}]
      /\ dk' \in BOOLEAN /\ instances' \in [Nodes -> {"none", "noIP", "ip"}]
      /\ chDels' \in SUBSET Nodes /\ chUpdates' \in SUBSET Nodes
      /\ chAll' \in BOOLEAN /\ rejoined' \in SUBSET Nodes /\ changes' \in Nat
      /\ UNCHANGED Rest /\ rejoined \subseteq rejoined'
      /\ \A m \in Nodes : /\ cluster[m] = "absent" =>
                               cluster'[m] = "absent" \/ m \in rejoined'
                          /\ m \in chDels' =>
                               m \in chDels \/ cluster'[m] = "absent"
  <2>1. /\ cluster \in [Nodes -> {"absent", "ready", "cordoned"}]
        /\ dk \in BOOLEAN /\ instances \in [Nodes -> {"none", "noIP", "ip"}]
        /\ chDels \in SUBSET Nodes /\ chUpdates \in SUBSET Nodes
        /\ chAll \in BOOLEAN /\ rejoined \in SUBSET Nodes /\ changes \in Nat
    BY DEF TypeOK
  <2> USE DEF Change
  <2>2. ASSUME NEW n \in Nodes, NodeDeleted(n) PROVE <1>1!:
    BY <2>1, <2>2 DEF NodeDeleted
  <2>3. ASSUME NEW n \in Nodes, NodeJoins(n) PROVE <1>1!:
    BY <2>1, <2>3 DEF NodeJoins, channels
  <2>4. ASSUME NEW n \in Nodes, NodeCordoned(n) PROVE <1>1!:
    BY <2>1, <2>4 DEF NodeCordoned
  <2>5. ASSUME NEW n \in Nodes, NodeHeartbeat(n) PROVE <1>1!:
    BY <2>1, <2>5 DEF NodeHeartbeat, clusterVars
  <2>6. ASSUME NEW n \in Nodes, InstancesChange(n) PROVE <1>1!:
    BY <2>1, <2>6 DEF InstancesChange, channels
  <2>7. CASE DynaKubeDeleted
    <3>1. /\ changes' = changes + 1 /\ dk' = FALSE
          /\ instances' = [n \in Nodes |-> "none"]
          /\ UNCHANGED <<cluster, rejoined, chDels, chUpdates, chAll, Rest>>
      BY <2>7 DEF DynaKubeDeleted, channels
    <3>2. instances' \in [Nodes -> {"none", "noIP", "ip"}]
      BY <3>1
    <3>3. changes' \in Nat
      BY <2>1, <3>1
    <3>4. /\ UNCHANGED <<cluster, rejoined, chDels, chUpdates, chAll>>
          /\ UNCHANGED Rest /\ dk' \in BOOLEAN
      BY <3>1
    <3>5. QED
      BY <2>1, <3>2, <3>3, <3>4
  <2>8. CASE TickerFires
    BY <2>1, <2>8 DEF TickerFires, clusterVars
  <2>9. QED
    BY <2>2, <2>3, <2>4, <2>5, <2>6, <2>7, <2>8
<1>2. UNCHANGED <<now, cm, view, viewFresh, run, lastSent, tooClose, tried, outcome, faults,
                  sendFaults, crashes>>
  BY <1>1 DEF Rest, cmVars, history
<1>3. TypeOK'
  BY <1>1, <1>2 DEF TypeOK
<1>4. ClockInv' /\ FreshInv' /\ TriedInv'
  BY <1>2 DEF ClockInv, FreshInv, TriedInv
<1>5. AbsentInv'
  BY <1>1, <1>2 DEF AbsentInv
<1>6. LimitInv'
  BY <1>1, <1>2 DEF LimitInv, Remembered, Known, NoFaults
<1>7. QED
  BY <1>3, <1>4, <1>5, <1>6

\* The clock, the informer and the restart of the operator.
LEMMA ClockStep ==
    ASSUME IInv, Tick \/ InformerSyncs \/ Crash
    PROVE  IInv'
<1> USE DEF IInv
<1>1. CASE Tick
  <2>1. /\ now' = now + 1 /\ now \in Nat
        /\ UNCHANGED <<clusterVars, cmVars, channels, run, history, faults,
                       sendFaults, crashes>>
    BY <1>1 DEF Tick, TypeOK
  <2>2. TypeOK'
    BY <2>1 DEF TypeOK, clusterVars, cmVars, channels, history
  <2>3. UNCHANGED <<cluster, rejoined, cm, view, viewFresh, chDels, run, lastSent,
                    tooClose, tried, faults, sendFaults, crashes>>
    BY <2>1 DEF clusterVars, cmVars, channels, history
  <2>4. ClockInv'
    BY <2>1, <2>3, MarkTypes DEF ClockInv
  <2>5. QED
    BY <2>2, <2>3, <2>4 DEF FreshInv, TriedInv, AbsentInv, LimitInv, NoFaults,
                            Remembered, Known
<1>2. CASE InformerSyncs
  <2>1. /\ view' = cm /\ viewFresh' = TRUE
        /\ UNCHANGED <<now, clusterVars, cm, channels, run, history, faults,
                       sendFaults, crashes>>
    BY <1>2 DEF InformerSyncs
  <2>2. TypeOK'
    BY <2>1 DEF TypeOK, clusterVars, channels, history
  <2>3. UNCHANGED <<now, cluster, rejoined, cm, chDels, run, lastSent,
                    tooClose, tried, faults, sendFaults, crashes>>
    BY <2>1 DEF clusterVars, channels, history
  <2>4. ClockInv'
    BY <2>1, <2>3 DEF ClockInv
  <2>5. QED
    BY <2>1, <2>2, <2>3, <2>4 DEF FreshInv, TriedInv, AbsentInv, LimitInv,
                                  NoFaults, Remembered, Known
<1>3. CASE Crash
  <2>1. /\ crashes' \in Nat /\ crashes' # 0 /\ run' = Idle
        /\ chDels' = {} /\ chUpdates' = {} /\ chAll' = TRUE
        /\ view' = cm /\ viewFresh' = TRUE
        /\ UNCHANGED <<now, clusterVars, cm, history, faults, sendFaults>>
    BY <1>3 DEF Crash, TypeOK
  <2>2. TypeOK'
    BY <2>1, IdleFacts DEF TypeOK, clusterVars, history
  <2>3. UNCHANGED <<now, cluster, rejoined, cm, lastSent, tooClose, tried>>
    BY <2>1 DEF clusterVars, history
  <2>4. \A m \in Nodes : NoCache[m].marked = Never /\ Never <= now
    BY MarkTypes, TimeFacts, IdleFacts
  <2>5. /\ run'.c = NoCache /\ run'.pc = "idle" /\ run'.kind = "none"
    BY <2>1, IdleFacts
  <2>6. ClockInv'
    BY <2>1, <2>3, <2>4, <2>5 DEF ClockInv
  <2>7. FreshInv' /\ AbsentInv' /\ LimitInv'
    BY <2>1, <2>5 DEF FreshInv, AbsentInv, LimitInv, NoFaults
  <2>8. TriedInv'
    BY <2>1, <2>3, <2>4, <2>5, MarkTypes DEF TriedInv
  <2>9. QED
    BY <2>2, <2>6, <2>7, <2>8
<1>4. QED
  BY <1>1, <1>2, <1>3

-----------------------------------------------------------------------------
(* The theorems.                                                           *)

\* The invariant holds when the operator starts for the first time.
LEMMA InitIInv == Init => IInv
<1> SUFFICES ASSUME Init PROVE IInv
  OBVIOUS
<1>1. TypeOK
  BY TimeFacts, IdleFacts DEF Init, TypeOK
<1>2. /\ now = 0 /\ cm = NoCache /\ view = NoCache /\ run.c = NoCache
      /\ run.pc = "idle" /\ run.kind = "none" /\ run.fresh /\ viewFresh
      /\ chDels = {} /\ tooClose = {}
      /\ \A n \in Nodes : lastSent[n] = Never /\ tried[n] = Never
      /\ \A n \in Nodes : NoCache[n].marked = Never
  BY IdleFacts DEF Init
<1>3. Never <= 0 /\ Never <= Never
  BY TimeFacts
<1>4. ClockInv /\ FreshInv /\ TriedInv /\ AbsentInv
  BY <1>2, <1>3 DEF ClockInv, FreshInv, TriedInv, AbsentInv
<1>5. LimitInv
  BY <1>2, <1>3 DEF LimitInv, Remembered, Known
<1>6. QED
  BY <1>1, <1>4, <1>5 DEF IInv

\* Every step keeps the invariant.
LEMMA NextIInv == IInv /\ [Next]_vars => IInv'
<1> SUFFICES ASSUME IInv, [Next]_vars PROVE IInv'
  OBVIOUS
<1>1. CASE Handle
  BY <1>1, StartStep, UnschedulableStep, RefreshStep, RemoveStep,
     UpdateCacheStep DEF Handle
<1>2. CASE \/ \E n \in Nodes :
                 \/ NodeDeleted(n) \/ NodeJoins(n) \/ NodeCordoned(n)
                 \/ NodeHeartbeat(n) \/ InstancesChange(n)
           \/ DynaKubeDeleted \/ TickerFires
  BY <1>2, ClusterStep
<1>3. CASE Tick \/ InformerSyncs \/ Crash
  BY <1>3, ClockStep
<1>4. CASE UNCHANGED vars
  <2>1. UNCHANGED <<now, cluster, dk, instances, rejoined, changes, cm, view,
                    viewFresh, chDels, chUpdates, chAll, run, lastSent, tooClose,
                    tried, outcome, faults, sendFaults, crashes>>
    BY <1>4 DEF vars, clusterVars, cmVars, channels, history
  <2>2. TypeOK' /\ ClockInv' /\ FreshInv' /\ TriedInv'
    BY <2>1 DEF IInv, TypeOK, ClockInv, FreshInv, TriedInv
  <2>3. AbsentInv' /\ LimitInv'
    BY <2>1 DEF IInv, AbsentInv, LimitInv, NoFaults, Remembered, Known
  <2>4. QED
    BY <2>2, <2>3 DEF IInv
<1>5. QED
  BY <1>1, <1>2, <1>3, <1>4 DEF Next

\* Every reachable state of the controller satisfies IInv: no time stamp lies
\* in the future, a handler based on the current version knows every mark, and
\* unless something failed the last event of a node is remembered.
THEOREM Inductive == Spec => []IInv
BY InitIInv, NextIInv, PTL DEF Spec

\* Cache entries, notifications and the handler's work keep their types, also
\* when the operator is restarted in the middle of a handler.
THEOREM TypeCorrect == Spec => []TypeOK
<1>1. IInv => TypeOK
  BY DEF IInv
<1>2. QED
  BY <1>1, Inductive, PTL

\* isMarkableForTermination does limit the events to one an hour, over all
\* three handlers: two of them never both mark a node within the hour, as long
\* as no request fails, the operator is not restarted and the name of the node
\* is not used again.
THEOREM OneEventPerHour == Spec => []HourlyLimit
<1>1. IInv => HourlyLimit
  BY DEF IInv, LimitInv, HourlyLimit, NoFaults
<1>2. QED
  BY <1>1, Inductive, PTL

\* No write of the ConfigMap takes back a mark of a node that stays cached,
\* with any faults, lags of the informer and restarts: the write is refused
\* unless it is based on the current version.
THEOREM MarksStay == Spec => MarkIsKept
<1> DEFINE Kept ==
      \A n \in Nodes :
          cm[n] # NoEntry /\ cm'[n] # NoEntry => cm[n].marked <= cm'[n].marked
<1>1. IInv /\ [Next]_vars => [Kept]_vars
  <2> SUFFICES ASSUME IInv, Next PROVE Kept
    OBVIOUS
  <2>1. \A n \in Nodes : cm[n].marked <= cm[n].marked
    <3>1. \A n \in Nodes : cm[n].marked \in Int
      BY MarkTypes DEF IInv
    <3>2. \A i \in Int : i <= i
      OBVIOUS
    <3>3. QED
      BY <3>1, <3>2
  <2>2. CASE UNCHANGED cm
    BY <2>1, <2>2
  <2>3. CASE UpdateCache
    <3>1. /\ run.pc # "idle"
          /\ cm' = cm \/ (run.fresh /\ cm' = run.c)
      BY <2>3, UpdateCacheEffect DEF IInv, cmVars
    <3>2. CASE cm' = cm
      BY <2>1, <3>2
    <3>3. CASE run.fresh /\ cm' = run.c
      BY <3>1, <3>3 DEF IInv, FreshInv
    <3>4. QED
      BY <3>1, <3>2, <3>3
  <2>4. Handle => UpdateCache \/ UNCHANGED cm
    <3> USE DEF IInv, cmVars
    <3>1. ReconcileAllStarts => UNCHANGED cm
      BY ReconcileAllEffect
    <3>2. \A n \in Nodes : OnUpdateStarts(n) => UNCHANGED cm
      BY OnUpdateEffect
    <3>3. \A n \in Nodes : OnDeletionStarts(n) => UNCHANGED cm
      BY OnDeletionEffect
    <3>4. \A n \in Nodes : reconcileUnschedulableNode(n) => UNCHANGED cm
      BY UnschedulableEffect
    <3>5. RefreshCache => UNCHANGED cm
      BY RefreshEffect
    <3>6. \A n \in Nodes : RemoveSilently(n) => UNCHANGED cm
      BY RemoveSilentlyEffect
    <3>7. \A n \in Nodes : RemoveMarked(n) => UNCHANGED cm
      BY RemoveMarkedEffect
    <3>8. QED
      BY <3>1, <3>2, <3>3, <3>4, <3>5, <3>6, <3>7 DEF Handle
  <2>5. Handle \/ UNCHANGED cm
    BY DEF Next, NodeDeleted, NodeJoins, NodeCordoned, NodeHeartbeat,
           InstancesChange, DynaKubeDeleted, TickerFires, Tick, InformerSyncs,
           Crash, Rest, cmVars
  <2>6. QED
    BY <2>2, <2>3, <2>4, <2>5
<1>2. QED
  BY <1>1, Inductive, PTL DEF Spec, MarkIsKept

\* A node whose address is known leaves the cache only within the hour of an
\* attempt to send its event, with any faults, lags of the informer and restarts:
\* a stamp that removeNode finds stands for an attempt, whoever made it.
THEOREM RemovedIsTried == Spec => TriedBeforeRemoval
<1> DEFINE Tried == \A n \in Nodes : Drops(n) => now <= tried'[n] + Hour
<1>1. IInv /\ [Next]_vars => [Tried]_vars
  <2> SUFFICES ASSUME IInv, Next, NEW n \in Nodes,
                      run.pc = "remove", n \in run.todo, n \notin run'.todo,
                      run.c[n] # NoEntry, run'.c[n] = NoEntry, run'.pc # "idle",
                      ~Stale(run.c[n]), run.c[n].ip, run.dk
               PROVE  now <= tried'[n] + Hour
    BY DEF Drops
  <2> USE DEF IInv
  <2>1. run # Idle /\ run' # Idle /\ run' # run
    BY IdleFacts
  <2>2. \E m \in Nodes : RemoveSilently(m) \/ RemoveMarked(m)
    <3>1. ~ReconcileAllStarts
      BY <2>1 DEF ReconcileAllStarts
    <3>2. \A m \in Nodes : ~OnUpdateStarts(m) /\ ~OnDeletionStarts(m)
      BY <2>1 DEF OnUpdateStarts, OnDeletionStarts
    <3>3. \A m \in Nodes : ~reconcileUnschedulableNode(m)
      BY DEF reconcileUnschedulableNode
    <3>4. ~RefreshCache /\ ~UpdateCache
      BY <2>1 DEF RefreshCache, UpdateCache
    <3>5. Handle
      BY <2>1 DEF Next, NodeDeleted, NodeJoins, NodeCordoned, NodeHeartbeat,
                  InstancesChange, DynaKubeDeleted, TickerFires, Tick,
                  InformerSyncs, Crash, Rest
    <3>6. QED
      BY <3>1, <3>2, <3>3, <3>4, <3>5 DEF Handle
  <2>3. PICK m \in Nodes : RemoveSilently(m) \/ RemoveMarked(m)
    BY <2>2
  <2>4. m = n
    <3>1. RemoveOutcome(m)
      BY <2>3, RemoveSilentlyEffect, RemoveMarkedEffect
    <3>2. run'.todo = run.todo \ {m}
      BY <2>1, <3>1 DEF RemoveOutcome
    <3>3. QED
      BY <3>2
  <2>5. ~RemoveSilently(n)
    BY DEF RemoveSilently
  <2>6. RemoveMarked(n)
    BY <2>3, <2>4, <2>5
  <2>7. tried'[n] = now \/ (tried' = tried /\ ~(run.c[n].marked + Hour < now))
    BY <2>6, RemoveMarkedEffect
  <2>8. QED
    BY <2>7, MarkTypes, TimeFacts DEF TriedInv
<1>2. QED
  BY <1>1, Inductive, PTL DEF Spec, TriedBeforeRemoval
=============================================================================
