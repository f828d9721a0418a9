--------------------------- MODULE DynaKubeProofs ---------------------------
(***************************************************************************)
(* Proofs that IInv is an inductive invariant of DynaKube, that its safety *)
(* properties follow, and that the controller implements LevelTriggered,   *)
(* for any specs, externals and tokens, any waiting times, and any number  *)
(* of edits, failing requests and crashes.                                 *)
(***************************************************************************)
EXTENDS DynaKube, TLAPS

-----------------------------------------------------------------------------
(* Constants, units and statuses.                                          *)

\* The assumptions on the constants, in the form the proofs need.
LEMMA ConstFacts ==
  /\ TokenWait \in Nat /\ TokenWait # 0 /\ OldEnough \in Nat /\ OldEnough > 0
  /\ ProbeWait \in Nat /\ RequeueWait \in Nat /\ QuickRetries \in Nat
  /\ MaxEdits \in Nat /\ MaxFaults \in Nat
  /\ 0 \in Versions /\ Versions \subseteq Nat
  /\ \A e \in Externals : e.latest \in Versions /\ \A i \in Images : e.image[i] \in Versions
BY ConstantsAssumption DEF OldEnough, Versions

\* The capabilities come first, then the OneAgent features.
LEMMA OrderFacts ==
  /\ Len(Order) = 5
  /\ \A i \in 1..3 : Order[i] \in Caps /\ Order[i] \notin Features
  /\ \A i \in 4..5 : Order[i] \in Features /\ Order[i] \notin Caps
BY DEF Order, Caps, Features

\* The fields of a status.
LEMMA StatusFacts ==
  ASSUME NEW st \in Status
  PROVE  /\ st.probe \in [Tokens -> 0..TokenWait]
         /\ st.cond \in [Tokens -> {"None", "Error"} \cup TokenStates]
         /\ st.phase \in {"None", "Running", "Deploying", "Error"}
         /\ st.ag \in [version : Versions, age : 0..OldEnough]
         /\ st.oa \in [version : Versions, age : 0..OldEnough]
         /\ st.hosts \in 0..OldEnough /\ st.immutable \in BOOLEAN
         /\ st.latest \in Versions
         /\ st.tokens \in {Absent} \cup {s.tokens : s \in Specs}
         /\ st.oa.version \in Nat /\ \A t \in Tokens : st.probe[t] \in Nat
<1>1. /\ st.probe \in [Tokens -> 0..TokenWait]
      /\ st.cond \in [Tokens -> {"None", "Error"} \cup TokenStates]
      /\ st.phase \in {"None", "Running", "Deploying", "Error"}
      /\ st.ag \in [version : Versions, age : 0..OldEnough]
      /\ st.oa \in [version : Versions, age : 0..OldEnough]
      /\ st.hosts \in 0..OldEnough /\ st.immutable \in BOOLEAN
      /\ st.latest \in Versions
      /\ st.tokens \in {Absent} \cup {s.tokens : s \in Specs}
  BY DEF Status
<1>2. st.oa.version \in Nat
  BY <1>1, ConstFacts
<1>3. \A t \in Tokens : st.probe[t] \in Nat
  BY <1>1, ConstFacts
<1>4. QED
  BY <1>1, <1>2, <1>3

\* A version record.
LEMMA VersionRecord ==
  ASSUME NEW v \in Versions
  PROVE  [version |-> v, age |-> 0] \in [version : Versions, age : 0..OldEnough]
<1>1. PICK z : z = 0
  OBVIOUS
<1>2. z \in 0..OldEnough
  BY <1>1, ConstFacts
<1>3. [version |-> v, age |-> z] \in [version : Versions, age : 0..OldEnough]
  BY <1>2
<1>4. QED
  BY <1>1, <1>3

\* A new DynaKube has a status.
LEMMA NewStatusType == NewStatus \in Status
<1>1. PICK o : o = OldEnough
  OBVIOUS
<1>2. o \in 0..OldEnough
  BY <1>1, ConstFacts
<1>3. PICK v \in Versions : v = 0
  BY ConstFacts
<1>4. [version |-> v, age |-> o] \in [version : Versions, age : 0..OldEnough]
  BY <1>2
<1>5. [t \in Tokens |-> TokenWait] \in [Tokens -> 0..TokenWait]
  BY ConstFacts
<1>6. [t \in Tokens |-> "None"] \in [Tokens -> {"None", "Error"} \cup TokenStates]
  OBVIOUS
<1>7. PICK p \in [Tokens -> 0..TokenWait] : p = [t \in Tokens |-> TokenWait]
  BY <1>5
<1>8. PICK c \in [Tokens -> {"None", "Error"} \cup TokenStates] :
         c = [t \in Tokens |-> "None"]
  BY <1>6
<1>9. PICK w \in [version : Versions, age : 0..OldEnough] :
         w = [version |-> v, age |-> o]
  BY <1>4
<1>10. NewStatus = [probe |-> p, cond |-> c, phase |-> "None", ag |-> w, oa |-> w,
                    hosts |-> o, immutable |-> FALSE, latest |-> v, tokens |-> Absent]
  BY <1>1, <1>3, <1>7, <1>8, <1>9 DEF NewStatus
<1>11. QED
  BY <1>2, <1>10 DEF Status

\* Time passes.
LEMMA OlderEffect ==
  ASSUME NEW max \in Nat, NEW n \in 0..max
  PROVE  /\ Older(n, max) \in 0..max
         /\ \A m \in 0..max : n <= m => Older(n, max) <= Older(m, max)
BY DEF Older

\* When time passes a status keeps its versions and its probes get older.
LEMMA AgedEffect ==
  ASSUME NEW st \in Status
  PROVE  /\ Aged(st) \in Status /\ Aged(st).oa.version = st.oa.version
         /\ \A t \in Tokens : Aged(st).probe[t] = Older(st.probe[t], TokenWait)
<1> DEFINE p == [t \in Tokens |-> Older(st.probe[t], TokenWait)]
           g == [st.ag EXCEPT !.age = Older(st.ag.age, OldEnough)]
           w == [st.oa EXCEPT !.age = Older(st.oa.age, OldEnough)]
           h == Older(st.hosts, OldEnough)
<1>1. /\ p \in [Tokens -> 0..TokenWait]
      /\ \A t \in Tokens : p[t] = Older(st.probe[t], TokenWait)
  BY StatusFacts, OlderEffect, ConstFacts
<1>2. /\ Older(st.ag.age, OldEnough) \in 0..OldEnough
      /\ Older(st.oa.age, OldEnough) \in 0..OldEnough
      /\ h \in 0..OldEnough
  BY StatusFacts, OlderEffect, ConstFacts
<1>3. PICK a1, a2 \in 0..OldEnough : /\ a1 = Older(st.ag.age, OldEnough)
                                     /\ a2 = Older(st.oa.age, OldEnough)
  BY <1>2
<1>4. g = [st.ag EXCEPT !.age = a1] /\ w = [st.oa EXCEPT !.age = a2]
  BY <1>3
<1>5. Aged(st) = [st EXCEPT !.probe = p, !.ag = g, !.oa = w, !.hosts = h]
  BY DEF Aged, Status
<1> HIDE DEF p, g, w, h
<1>6. /\ g \in [version : Versions, age : 0..OldEnough]
      /\ w \in [version : Versions, age : 0..OldEnough]
      /\ w.version = st.oa.version
  BY <1>3, <1>4, StatusFacts
<1>7. QED
  BY <1>1, <1>2, <1>5, <1>6 DEF Status

-----------------------------------------------------------------------------
(* The building blocks of a run.                                           *)

Stages == {"idle", "tokens", "status", "istio", "pull", "versions", "cap", "agent",
           "persist"}

\* The fields of a run.
LEMMA RunFacts ==
  ASSUME NEW r \in Runs
  PROVE  /\ r.at \in Stages /\ r.unit \in 1..5 /\ r.part \in 1..3
         /\ r.spec \in Specs /\ r.status \in Status
         /\ r.fresh \in BOOLEAN /\ r.updated \in BOOLEAN
         /\ r.next \in {0, 1, RequeueWait} /\ r.failed \in {"no", "error", "throttled"}
BY OrderFacts DEF Runs, Stages

\* Between two runs.
LEMMA IdleEffect ==
  ASSUME NEW s \in Specs
  PROVE  /\ Idle(s) \in Runs /\ Idle(s).at = "idle" /\ Idle(s).spec = s
         /\ Idle(s).unit = 1 /\ Idle(s).part = 1 /\ ~Idle(s).updated
<1>1. PICK i, n : i = 1 /\ n = RequeueWait
  OBVIOUS
<1>2. i \in 1..Len(Order) /\ i \in 1..3 /\ n \in {0, 1, RequeueWait}
  BY <1>1, OrderFacts
<1>3. Idle(s) = [at |-> "idle", unit |-> i, part |-> i, spec |-> s,
                 status |-> NewStatus, fresh |-> TRUE, updated |-> FALSE, next |-> n,
                 failed |-> "no"]
  BY <1>1 DEF Idle
<1>4. Idle(s) \in Runs
  BY <1>2, <1>3, NewStatusType DEF Runs
<1>5. QED
  BY <1>1, <1>3, <1>4

\* Two runs at the same place with the same spec.
Same(r, q) ==
  /\ q.unit = r.unit /\ q.part = r.part /\ q.spec = r.spec
  /\ (q.fresh <=> r.fresh)

\* A run goes on to stage a with status st and outcome f.
LEMMA MoveEffect ==
  ASSUME NEW r \in Runs, NEW st \in Status, NEW a \in Stages,
         NEW f \in {"no", "error", "throttled"},
         NEW q, q = [r EXCEPT !.status = st, !.at = a, !.failed = f]
  PROVE  /\ q \in Runs /\ Same(r, q) /\ q.at = a /\ q.status = st /\ q.failed = f
         /\ (q.updated <=> r.updated)
BY DEF Runs, Stages, Same

\* rec.Update only marks the status for storing and sets the next run.
LEMMA UpdateEffect ==
  ASSUME NEW r \in Runs, NEW upd \in BOOLEAN, NEW d \in {0, 1, RequeueWait}
  PROVE  /\ Update(r, upd, d) \in Runs /\ Same(r, Update(r, upd, d))
         /\ Update(r, upd, d).at = r.at /\ Update(r, upd, d).status = r.status
         /\ Update(r, upd, d).failed = r.failed
         /\ (Update(r, upd, d).updated <=> (r.updated \/ upd))
<1>1. CASE upd
  <2>1. Update(r, upd, d) = [r EXCEPT !.updated = TRUE, !.next = d]
    BY <1>1 DEF Update
  <2>2. QED
    BY <1>1, <2>1 DEF Runs, Same
<1>2. CASE ~upd
  BY <1>2, RunFacts DEF Update, Same
<1>3. QED
  BY <1>1, <1>2

\* rec.Error ends the run with the status it has.
LEMMA AbortEffect ==
  ASSUME NEW r \in Runs, NEW why \in {"error", "throttled"}
  PROVE  /\ Abort(r, why) \in Runs /\ Same(r, Abort(r, why))
         /\ Abort(r, why).at = "persist" /\ Abort(r, why).status = r.status
         /\ (Abort(r, why).updated <=> r.updated)
BY DEF Abort, Runs, Same

\* An early return stores the status.
LEMMA YieldEffect ==
  ASSUME NEW r \in Runs
  PROVE  /\ Yield(r) \in Runs /\ Same(r, Yield(r))
         /\ Yield(r).at = "persist" /\ Yield(r).status = r.status /\ Yield(r).updated
<1>1. PICK d : d = 1
  OBVIOUS
<1>2. PICK u \in BOOLEAN : u
  OBVIOUS
<1>3. PICK q : q = Update(r, u, d)
  OBVIOUS
<1>4. q \in Runs /\ Same(r, q) /\ q.at = r.at /\ q.status = r.status /\ q.updated
  BY <1>1, <1>2, <1>3, UpdateEffect
<1>5. Yield(r) = [q EXCEPT !.at = "persist"]
  BY <1>1, <1>2, <1>3 DEF Yield, Update
<1>6. QED
  BY <1>4, <1>5 DEF Runs, Same

\* The next unit is begun at its first part.
LEMMA NextUnitEffect ==
  ASSUME NEW r \in Runs, r.unit \in 1..5
  PROVE  LET q == NextUnit(r) IN
         /\ q \in Runs /\ q.spec = r.spec /\ q.status = r.status
         /\ (q.updated <=> r.updated) /\ (q.fresh <=> r.fresh)
         /\ \/ q.at = "persist"
            \/ q.part = 1 /\ q.at = "cap" /\ q.unit \in 1..3
            \/ q.part = 1 /\ q.at = "agent" /\ q.unit \in 4..5
<1>1. CASE r.unit = 5
  <2>1. NextUnit(r) = [r EXCEPT !.at = "persist"]
    BY <1>1, OrderFacts DEF NextUnit
  <2>2. QED
    BY <2>1 DEF Runs
<1>2. CASE r.unit # 5
  <2>1. PICK u, p : u = r.unit + 1 /\ p = 1
    OBVIOUS
  <2>2. u \in 1..5 /\ u \in 1..Len(Order) /\ p \in 1..3
    BY <1>2, <2>1, OrderFacts
  <2>3. PICK a \in {"cap", "agent"} : a = IF Order[u] \in Caps THEN "cap" ELSE "agent"
    OBVIOUS
  <2>4. NextUnit(r) = [r EXCEPT !.unit = u, !.part = p, !.at = a]
    BY <1>2, <2>1, <2>3, OrderFacts DEF NextUnit
  <2>5. NextUnit(r) \in Runs /\ NextUnit(r).spec = r.spec
        /\ NextUnit(r).status = r.status /\ (NextUnit(r).updated <=> r.updated)
        /\ (NextUnit(r).fresh <=> r.fresh)
        /\ NextUnit(r).at = a /\ NextUnit(r).unit = u /\ NextUnit(r).part = p
    BY <2>2, <2>4 DEF Runs
  <2>6. (a = "cap" => u \in 1..3) /\ (a = "agent" => u \in 4..5)
    <3>1. u \in 1..3 \/ u \in 4..5
      BY <2>2
    <3>2. QED
      BY <2>3, <3>1, OrderFacts
  <2>7. QED
    BY <2>1, <2>5, <2>6
<1>3. QED
  BY <1>1, <1>2

\* The next request of the same capability.
LEMMA NextPartEffect ==
  ASSUME NEW r \in Runs, r.part \in 1..2
  PROVE  LET q == NextPart(r) IN
         /\ q \in Runs /\ q.spec = r.spec /\ q.status = r.status /\ q.at = r.at
         /\ q.unit = r.unit /\ (q.updated <=> r.updated) /\ (q.fresh <=> r.fresh)
         /\ q.part = r.part + 1
<1>1. PICK p : p = r.part + 1
  OBVIOUS
<1>2. p \in 1..3
  BY <1>1
<1>3. NextPart(r) = [r EXCEPT !.part = p]
  BY <1>1 DEF NextPart
<1>4. /\ NextPart(r) \in Runs /\ NextPart(r).spec = r.spec
      /\ NextPart(r).status = r.status /\ NextPart(r).at = r.at
      /\ NextPart(r).unit = r.unit /\ (NextPart(r).updated <=> r.updated)
      /\ (NextPart(r).fresh <=> r.fresh)
      /\ NextPart(r).part = p
  BY <1>2, <1>3 DEF Runs
<1>5. QED
  BY <1>1, <1>4

\* A run gets another status.
LEMMA StatusEffect ==
  ASSUME NEW r \in Runs, NEW st \in Status, NEW q, q = [r EXCEPT !.status = st]
  PROVE  /\ q \in Runs /\ Same(r, q) /\ q.at = r.at /\ q.status = st
         /\ (q.updated <=> r.updated)
BY DEF Runs, Same

-----------------------------------------------------------------------------
(* The steps from the first read to the first object.                      *)

\* The stages before the first object of a capability or a feature.
Early == {"tokens", "status", "istio", "pull", "versions"}

\* What every step in the middle of a run has in common: a version is not
\* lowered, and only raised at its stage, a probe is not forgotten, and when one
\* of them changes, the status is going to be stored.
Proceeds ==
  /\ run' \in Runs /\ run'.spec = run.spec
  /\ run.at # "idle" /\ run'.at # "idle" /\ UnitInv'
  /\ UNCHANGED <<cr, cache, synced, ext, lost, unstored, wait, failures, edits>>
  /\ faults' \in 0..MaxFaults
  /\ run.updated => run'.updated
  /\ run'.fresh <=> run.fresh
  /\ run'.at \in Early => run.at \in Early
  /\ run.at # "versions" \/ run'.at \in Early =>
       run'.status.oa.version = run.status.oa.version
  /\ run.status.oa.version <= run'.status.oa.version
  /\ ~run'.updated => run'.status.oa.version = run.status.oa.version
  /\ asked' \in [Tokens -> 0..TokenWait]
  /\ \A t \in Tokens :
       /\ run.status.probe[t] <= asked[t] => run'.status.probe[t] <= asked'[t]
       /\ ~run'.updated => run'.status.probe[t] = run.status.probe[t]

\* A request fails within the bound.
LEMMA FaultTypes ==
  ASSUME TypeOK, Works \/ Fails
  PROVE  faults' \in 0..MaxFaults
BY ConstFacts DEF TypeOK, Works, Fails

\* Most steps leave versions and probes alone.
LEMMA PlainProceeds ==
  ASSUME TypeOK, Quiet, Works \/ Fails, UNCHANGED asked,
         run' \in Runs, run'.spec = run.spec,
         run.at # "idle", run'.at # "idle", UnitInv',
         run.updated => run'.updated, run'.fresh <=> run.fresh,
         run'.at \in Early => run.at \in Early,
         run'.status.oa = run.status.oa, run'.status.probe = run.status.probe
  PROVE  Proceeds
<1>1. run \in Runs /\ asked \in [Tokens -> 0..TokenWait]
  BY DEF TypeOK
<1>2. run.status \in Status
  BY <1>1, RunFacts
<1>3. run.status.oa.version \in Nat
  BY <1>2, StatusFacts
<1>4. faults' \in 0..MaxFaults
  BY FaultTypes
<1>5. run.status.oa.version <= run'.status.oa.version
  BY <1>3
<1>6. QED
  BY <1>1, <1>4, <1>5 DEF Proceeds, Quiet, losses

\* The conditions change and the run fails.
LEMMA TokenProblemEffect ==
  ASSUME TypeOK, NEW ts, NEW reason \in {"absent", "missing", "Error"},
         run.at = "tokens", TokenProblem(ts, reason)
  PROVE  Proceeds /\ UNCHANGED objects /\ run'.at = "persist"
<1> DEFINE c == [t \in Tokens |-> IF t \in ts THEN reason ELSE run.status.cond[t]]
           st == [run.status EXCEPT !.cond = c]
           b == st # run.status
<1>1. run \in Runs /\ run.status \in Status
  BY RunFacts DEF TypeOK
<1>2. c \in [Tokens -> {"None", "Error"} \cup TokenStates]
  BY <1>1, StatusFacts DEF TokenStates
<1>3. b \in BOOLEAN
  OBVIOUS
<1>4. /\ run' = [Abort(Update(run, b, 1), "error") EXCEPT !.status = st]
      /\ Quiet /\ Works /\ UNCHANGED <<objects, asked>>
  BY DEF TokenProblem
<1> HIDE DEF b, c
<1>5. st \in Status /\ st.oa = run.status.oa /\ st.probe = run.status.probe
  BY <1>1, <1>2 DEF Status
<1> HIDE DEF st
<1>6. PICK d : d = 1
  OBVIOUS
<1>7. PICK r : r = Update(run, b, d)
  OBVIOUS
<1>8. r \in Runs /\ Same(run, r) /\ (r.updated <=> (run.updated \/ b))
  BY <1>1, <1>3, <1>6, <1>7, UpdateEffect
<1>9. PICK q : q = Abort(r, "error")
  OBVIOUS
<1>10. q \in Runs /\ Same(r, q) /\ (q.updated <=> r.updated) /\ q.at = "persist"
  BY <1>8, <1>9, AbortEffect
<1>11. run' = [q EXCEPT !.status = st]
  BY <1>4, <1>6, <1>7, <1>9
<1>12. /\ run' \in Runs /\ Same(q, run') /\ run'.at = "persist"
       /\ run'.status = st /\ (run'.updated <=> q.updated)
  BY <1>5, <1>10, <1>11, StatusEffect
<1>13. UnitInv'
  BY <1>12 DEF UnitInv
<1>14. QED
  BY <1>4, <1>5, <1>8, <1>10, <1>12, <1>13, PlainProceeds DEF Same, Early

\* A token that is probed counts as asked about, and the status says so.
LEMMA ProbeEffect ==
  ASSUME TypeOK, UnitInv, NEW down \in SUBSET Tokens, ProbeTokens(down)
  PROVE  Proceeds /\ UNCHANGED objects /\ run'.at = "status"
<1> DEFINE D == Due(run.status)
           st == Probed(run.status, down)
           b == st # run.status
           p == [t \in Tokens |-> IF t \in D THEN 0 ELSE run.status.probe[t]]
           c == [t \in Tokens |->
                   IF t \in D /\ t \in down THEN "Error"
                   ELSE IF t \in D \/ ext.tok[t] = "spaces" THEN ext.tok[t]
                   ELSE run.status.cond[t]]
<1>1. /\ run \in Runs /\ run.status \in Status /\ ext \in Externals
      /\ asked \in [Tokens -> 0..TokenWait]
  BY RunFacts DEF TypeOK
<1>2. ext.tok \in [Tokens -> TokenStates]
  BY <1>1, ConstantsAssumption
<1>3. /\ p \in [Tokens -> 0..TokenWait]
      /\ \A t \in Tokens : p[t] = IF t \in D THEN 0 ELSE run.status.probe[t]
  BY <1>1, StatusFacts, ConstFacts
<1>4. c \in [Tokens -> {"None", "Error"} \cup TokenStates]
  BY <1>1, <1>2, StatusFacts
<1>5. st = [run.status EXCEPT !.probe = p, !.cond = c]
  BY DEF Probed, Status
<1>6. b \in BOOLEAN /\ (~b => st = run.status)
  OBVIOUS
<1>7. /\ run.at = "tokens" /\ Quiet /\ UNCHANGED objects /\ (Works \/ Fails)
      /\ run' = [Update(run, b, 1) EXCEPT !.status = st, !.at = "status"]
      /\ asked' = [t \in Tokens |-> IF t \in D THEN 0 ELSE asked[t]]
  BY DEF ProbeTokens
<1> HIDE DEF b, p, c, st, D
<1>8. st \in Status /\ st.oa = run.status.oa /\ st.probe = p
  BY <1>1, <1>3, <1>4, <1>5 DEF Status
<1>9. PICK d : d = 1
  OBVIOUS
<1>10. PICK r : r = Update(run, b, d)
  OBVIOUS
<1>11. r \in Runs /\ Same(run, r) /\ (r.updated <=> (run.updated \/ b))
  BY <1>1, <1>6, <1>9, <1>10, UpdateEffect
<1>12. run' = [r EXCEPT !.status = st, !.at = "status"]
  BY <1>7, <1>9, <1>10
<1>13. /\ run' \in Runs /\ Same(r, run') /\ run'.at = "status"
       /\ run'.status = st /\ (run'.updated <=> r.updated)
  BY <1>8, <1>11, <1>12 DEF Runs, Same
<1>14. UnitInv'
  BY <1>7, <1>11, <1>13 DEF UnitInv, Same
<1>15. run.status.oa.version \in Nat
  BY <1>1, StatusFacts
<1>16. /\ asked' \in [Tokens -> 0..TokenWait]
       /\ \A t \in Tokens : run.status.probe[t] <= asked[t] => st.probe[t] <= asked'[t]
  <2>1. asked' \in [Tokens -> 0..TokenWait]
    BY <1>1, <1>7, ConstFacts
  <2>2. ASSUME NEW t \in Tokens, run.status.probe[t] <= asked[t]
        PROVE  st.probe[t] <= asked'[t]
    <3>1. CASE t \in D
      BY <1>3, <1>7, <1>8, <3>1
    <3>2. CASE t \notin D
      BY <1>3, <1>7, <1>8, <2>2, <3>2
    <3>3. QED
      BY <3>1, <3>2
  <2>3. QED
    BY <2>1, <2>2
<1>17. ~run'.updated => st = run.status
  BY <1>6, <1>11, <1>13
<1>18. faults' \in 0..MaxFaults
  BY <1>7, FaultTypes
<1>19. QED
  BY <1>7, <1>8, <1>11, <1>13, <1>14, <1>15, <1>16, <1>17, <1>18
     DEF Proceeds, Quiet, losses, Early, Same

\* The steps before the versions that neither probe nor touch an object.
LEMMA StatusStepEffect ==
  ASSUME TypeOK, UnitInv,
         \/ SetDynakubeStatus
         \/ \E why \in {"error", "throttled"} : SetDynakubeStatusFails(why)
         \/ \E updated \in BOOLEAN : Istio(updated)
         \/ getTokenSecretFails
         \/ ReconcilePullSecretFails
  PROVE  Proceeds /\ UNCHANGED objects /\ run'.at # "cap"
<1>1. run \in Runs /\ run.status \in Status
  BY RunFacts DEF TypeOK
<1>2. CASE SetDynakubeStatus
  <2>1. PICK v \in Versions : v = ext.latest
    BY ConstFacts DEF TypeOK
  <2>2. PICK st : st = [run.status EXCEPT !.latest = v]
    OBVIOUS
  <2>3. st \in Status /\ st.oa = run.status.oa /\ st.probe = run.status.probe
    BY <1>1, <2>2 DEF Status
  <2>4. /\ run.at = "status" /\ Quiet /\ Works /\ UNCHANGED <<objects, asked>>
        /\ run' = [run EXCEPT !.status = st, !.at = "istio"]
    BY <1>1, <1>2, <2>1, <2>2 DEF SetDynakubeStatus, Runs
  <2>5. /\ run' \in Runs /\ Same(run, run') /\ run'.at = "istio"
        /\ run'.status = st /\ (run'.updated <=> run.updated)
    BY <1>1, <2>3, <2>4 DEF Runs, Same
  <2>6. UnitInv'
    BY <2>4, <2>5 DEF UnitInv, Same
  <2>7. QED
    BY <2>3, <2>4, <2>5, <2>6, PlainProceeds DEF Same, Early
<1>3. ASSUME NEW why \in {"error", "throttled"}, run.at # "idle", Quiet,
             Works \/ Fails, UNCHANGED <<objects, asked>>, run' = Abort(run, why)
      PROVE  Proceeds /\ UNCHANGED objects /\ run'.at # "cap"
  <2>1. /\ run' \in Runs /\ Same(run, run') /\ run'.at = "persist"
        /\ run'.status = run.status /\ (run'.updated <=> run.updated)
    BY <1>1, <1>3, AbortEffect
  <2>2. UnitInv'
    BY <2>1 DEF UnitInv
  <2>3. QED
    BY <1>3, <2>1, <2>2, PlainProceeds DEF Same, Early
<1>4. CASE \E why \in {"error", "throttled"} : SetDynakubeStatusFails(why)
  BY <1>3, <1>4 DEF SetDynakubeStatusFails
<1>5. CASE ReconcilePullSecretFails
  BY <1>3, <1>5 DEF ReconcilePullSecretFails
<1>6. ASSUME run.at = "istio", Quiet, Works \/ Fails, UNCHANGED <<objects, asked>>,
             run' = [run EXCEPT !.at = "persist"]
      PROVE  Proceeds /\ UNCHANGED objects /\ run'.at # "cap"
  <2>1. /\ run' \in Runs /\ Same(run, run') /\ run'.at = "persist"
        /\ run'.status = run.status /\ (run'.updated <=> run.updated)
    BY <1>1, <1>6 DEF Runs, Same
  <2>2. UnitInv'
    BY <2>1 DEF UnitInv
  <2>3. QED
    BY <1>6, <2>1, <2>2, PlainProceeds DEF Same, Early
<1>7. CASE getTokenSecretFails
  BY <1>6, <1>7 DEF getTokenSecretFails
<1>8. CASE \E updated \in BOOLEAN : Istio(updated)
  <2>1. PICK updated \in BOOLEAN : Istio(updated)
    BY <1>8
  <2>2. /\ run.at = "istio" /\ Quiet /\ (Works \/ Fails) /\ UNCHANGED <<objects, asked>>
        /\ \/ run' = [run EXCEPT !.at = "persist"]
           \/ run' = [Update(run, updated, 0) EXCEPT !.at = "pull"]
    BY <2>1 DEF Istio
  <2>3. CASE run' = [run EXCEPT !.at = "persist"]
    BY <1>6, <2>2, <2>3
  <2>4. CASE run' = [Update(run, updated, 0) EXCEPT !.at = "pull"]
    <3>1. PICK d : d = 0
      OBVIOUS
    <3>2. PICK r : r = Update(run, updated, d)
      OBVIOUS
    <3>3. /\ r \in Runs /\ Same(run, r) /\ r.status = run.status
          /\ (run.updated => r.updated)
      BY <1>1, <3>1, <3>2, UpdateEffect
    <3>4. run' = [r EXCEPT !.at = "pull"]
      BY <2>4, <3>1, <3>2
    <3>5. /\ run' \in Runs /\ Same(r, run') /\ run'.at = "pull"
          /\ run'.status = r.status /\ (run'.updated <=> r.updated)
      BY <3>3, <3>4 DEF Runs, Same
    <3>6. UnitInv'
      BY <2>2, <3>3, <3>5 DEF UnitInv, Same
    <3>7. QED
      BY <2>2, <3>3, <3>5, <3>6, PlainProceeds DEF Same, Early
  <2>5. QED
    BY <2>2, <2>3, <2>4
<1>9. QED
  BY <1>2, <1>4, <1>5, <1>7, <1>8

\* The pull secret changes neither status nor probes.
LEMMA PullSecretEffect ==
  ASSUME TypeOK, UnitInv, ReconcilePullSecret
  PROVE  /\ Proceeds /\ run'.at = "versions" /\ UNCHANGED misled
         /\ \/ UNCHANGED <<objs, view>>
            \/ /\ ~run.spec.ownPull
               /\ objs' = [objs EXCEPT ![Pull] = GenerateData]
               /\ view' = [view EXCEPT ![Pull] = GenerateData]
<1>1. run \in Runs
  BY DEF TypeOK
<1>2. /\ run.at = "pull" /\ Quiet /\ Works /\ UNCHANGED <<misled, asked>>
      /\ run' = [run EXCEPT !.at = "versions"]
      /\ \/ UNCHANGED <<objs, view>>
         \/ /\ ~run.spec.ownPull
            /\ objs' = [objs EXCEPT ![Pull] = GenerateData]
            /\ view' = [view EXCEPT ![Pull] = GenerateData]
  BY DEF ReconcilePullSecret
<1>3. /\ run' \in Runs /\ Same(run, run') /\ run'.at = "versions"
      /\ run'.status = run.status /\ (run'.updated <=> run.updated)
  BY <1>1, <1>2 DEF Runs, Same
<1>4. UnitInv'
  BY <1>2, <1>3 DEF UnitInv, Same
<1>5. Proceeds
  BY <1>2, <1>3, <1>4, PlainProceeds DEF Same, Early
<1>6. QED
  BY <1>2, <1>3, <1>5

\* A version is only raised.
LEMMA UpgradedEffect ==
  ASSUME NEW old \in Versions, NEW new \in Versions
  PROVE  Upgraded(old, new) \in Versions /\ old <= Upgraded(old, new)
BY ConstFacts DEF Upgraded

\* The installer's version: the OneAgent's version is raised, or nothing changes.
LEMMA InstallerEffect ==
  ASSUME NEW st \in Status
  PROVE  LET new == updateOneAgentInstallerVersion(st) IN
         /\ new \in Status /\ new.probe = st.probe /\ new.ag = st.ag
         /\ st.oa.version <= new.oa.version
<1> DEFINE w == [version |-> Upgraded(st.oa.version, st.latest), age |-> 0]
<1>1. /\ st.oa.version \in Versions /\ st.latest \in Versions
      /\ st.oa.version \in Nat
  BY StatusFacts
<1>2. PICK v \in Versions : v = Upgraded(st.oa.version, st.latest)
  BY <1>1, UpgradedEffect
<1>3. /\ w \in [version : Versions, age : 0..OldEnough]
      /\ w.version = v /\ st.oa.version <= v
  BY <1>1, <1>2, VersionRecord, UpgradedEffect
<1>4. CASE updateOneAgentInstallerVersion(st) = [st EXCEPT !.oa = w]
  <2> HIDE DEF w
  <2>1. QED
    BY <1>3, <1>4 DEF Status
<1>5. CASE updateOneAgentInstallerVersion(st) = st
  BY <1>1, <1>5
<1>6. QED
  BY <1>4, <1>5 DEF updateOneAgentInstallerVersion

\* A look at the registry.
LEMMA ImageEffect ==
  ASSUME TypeOK, NEW target \in [version : Versions, age : 0..OldEnough],
         NEW i \in Images, NEW allowDowngrades \in BOOLEAN, NEW down
  PROVE  /\ updateImageVersion(target, i, allowDowngrades, down)
              \in [version : Versions, age : 0..OldEnough]
         /\ ~allowDowngrades =>
              target.version
                <= updateImageVersion(target, i, allowDowngrades, down).version
<1> DEFINE v == IF i \in down THEN target.version
                ELSE IF allowDowngrades THEN GetImageVersion(i)
                ELSE Upgraded(target.version, GetImageVersion(i))
<1>1. target.version \in Versions /\ GetImageVersion(i) \in Versions
  BY ConstFacts DEF GetImageVersion, TypeOK
<1>2. v \in Versions /\ (~allowDowngrades => target.version <= v)
  <2>1. PICK u \in Versions : /\ u = Upgraded(target.version, GetImageVersion(i))
                              /\ target.version <= u
    BY <1>1, UpgradedEffect
  <2>2. target.version <= target.version
    <3>1. \A n \in Versions : n \in Nat /\ n <= n
      BY ConstFacts
    <3>2. QED
      BY <1>1, <3>1
  <2>3. QED
    BY <1>1, <2>1, <2>2
<1>3. updateImageVersion(target, i, allowDowngrades, down) = [version |-> v, age |-> 0]
  BY DEF updateImageVersion
<1> HIDE DEF v
<1>4. QED
  BY <1>2, <1>3, VersionRecord

\* Both looks together.
LEMMA VersionsEffect ==
  ASSUME TypeOK, UnitInv, NEW down \in SUBSET Images, ReconcileVersions(down)
  PROVE  Proceeds /\ UNCHANGED objects /\ run'.at = "cap" /\ run'.part = 1
<1> DEFINE st == updateOneAgentInstallerVersion(run.status)
           ag == IF "ag" \in Outdated
                 THEN updateImageVersion(st.ag, "ag", TRUE, down) ELSE st.ag
           oa == IF "oa" \in Outdated
                 THEN updateImageVersion(st.oa, "oa", FALSE, down) ELSE st.oa
           b == Outdated # {} \/ st # run.status
           new == [st EXCEPT !.ag = ag, !.oa = oa]
<1>1. run \in Runs /\ run.status \in Status
  BY RunFacts DEF TypeOK
<1>2. /\ st \in Status /\ st.probe = run.status.probe
      /\ run.status.oa.version <= st.oa.version
  BY <1>1, InstallerEffect
<1>3. /\ run.at = "versions" /\ Quiet /\ (Works \/ Fails) /\ UNCHANGED <<objects, asked>>
      /\ run' = [Update(run, b, 1) EXCEPT !.status = new, !.at = "cap"]
  BY DEF ReconcileVersions
<1>4. b \in BOOLEAN /\ (~b => st = run.status /\ oa = st.oa)
  OBVIOUS
<1> HIDE DEF st, b
<1>5. /\ st.ag \in [version : Versions, age : 0..OldEnough]
      /\ st.oa \in [version : Versions, age : 0..OldEnough]
      /\ st.oa.version \in Nat /\ run.status.oa.version \in Nat
  BY <1>1, <1>2, StatusFacts
<1>6. ag \in [version : Versions, age : 0..OldEnough]
  BY <1>5, ImageEffect DEF Images
<1>7. /\ oa \in [version : Versions, age : 0..OldEnough]
      /\ st.oa.version <= oa.version
  <2>1. PICK q \in [version : Versions, age : 0..OldEnough] :
           q = updateImageVersion(st.oa, "oa", FALSE, down) /\ st.oa.version <= q.version
    BY <1>5, ImageEffect DEF Images
  <2>2. st.oa.version <= st.oa.version
    BY <1>5
  <2>3. QED
    BY <1>5, <2>1, <2>2
<1> HIDE DEF ag, oa
<1>8. new \in Status /\ new.oa = oa /\ new.probe = st.probe
  BY <1>2, <1>6, <1>7 DEF Status
<1>9. oa.version \in Nat
  BY <1>8, StatusFacts
<1> HIDE DEF new
<1>10. PICK d : d = 1
  OBVIOUS
<1>11. PICK r : r = Update(run, b, d)
  OBVIOUS
<1>12. r \in Runs /\ Same(run, r) /\ (r.updated <=> (run.updated \/ b))
  BY <1>1, <1>4, <1>10, <1>11, UpdateEffect
<1>13. run' = [r EXCEPT !.status = new, !.at = "cap"]
  BY <1>3, <1>10, <1>11
<1>14. /\ run' \in Runs /\ Same(r, run') /\ run'.at = "cap"
       /\ run'.status = new /\ (run'.updated <=> r.updated)
  BY <1>8, <1>12, <1>13 DEF Runs, Same
<1>15. UnitInv' /\ run'.part = 1
  BY <1>3, <1>12, <1>14 DEF UnitInv, Same
<1>16. faults' \in 0..MaxFaults /\ asked' \in [Tokens -> 0..TokenWait]
  BY <1>3, FaultTypes DEF TypeOK
<1>17. run.status.oa.version <= oa.version
  BY <1>2, <1>5, <1>7, <1>9
<1>18. QED
  BY <1>2, <1>3, <1>4, <1>8, <1>12, <1>14, <1>15, <1>16, <1>17
     DEF Proceeds, Quiet, losses, Early, Same

\* Without a look at the registry at most the installer version changes.
LEMMA VersionsFailEffect ==
  ASSUME TypeOK, UnitInv, ReconcileVersionsFails
  PROVE  Proceeds /\ UNCHANGED objects /\ run'.at = "cap" /\ run'.part = 1
<1> DEFINE st == updateOneAgentInstallerVersion(run.status)
           b == st # run.status
<1>1. run \in Runs /\ run.status \in Status
  BY RunFacts DEF TypeOK
<1>2. /\ st \in Status /\ st.probe = run.status.probe
      /\ run.status.oa.version <= st.oa.version
  BY <1>1, InstallerEffect
<1>3. /\ run.at = "versions" /\ Quiet /\ (Works \/ Fails) /\ UNCHANGED <<objects, asked>>
      /\ run' = [Update(run, b, 1) EXCEPT !.status = st, !.failed = "error", !.at = "cap"]
  BY DEF ReconcileVersionsFails
<1>4. b \in BOOLEAN /\ (~b => st = run.status)
  OBVIOUS
<1> HIDE DEF st, b
<1>5. PICK d : d = 1
  OBVIOUS
<1>6. PICK r : r = Update(run, b, d)
  OBVIOUS
<1>7. r \in Runs /\ Same(run, r) /\ (r.updated <=> (run.updated \/ b))
  BY <1>1, <1>4, <1>5, <1>6, UpdateEffect
<1>8. run' = [r EXCEPT !.status = st, !.failed = "error", !.at = "cap"]
  BY <1>3, <1>5, <1>6
<1>9. /\ run' \in Runs /\ Same(r, run') /\ run'.at = "cap"
      /\ run'.status = st /\ (run'.updated <=> r.updated)
  BY <1>2, <1>7, <1>8 DEF Runs, Same
<1>10. UnitInv' /\ run'.part = 1
  BY <1>3, <1>7, <1>9 DEF UnitInv, Same
<1>11. faults' \in 0..MaxFaults /\ asked' \in [Tokens -> 0..TokenWait]
  BY <1>3, FaultTypes DEF TypeOK
<1>12. QED
  BY <1>2, <1>3, <1>4, <1>7, <1>9, <1>10, <1>11 DEF Proceeds, Quiet, losses, Early, Same

-----------------------------------------------------------------------------
(* The steps that write objects.                                           *)

\* The objects of each kind.
LEMMA ObjectFacts ==
  /\ \A c \in Caps : <<"sts", c>> \in Objects /\ <<"props", c>> \in Objects
  /\ \A c \in Exposed : c \in Caps /\ <<"svc", c>> \in Objects
  /\ \A f \in Features : <<"ds", f>> \in Objects
  /\ Pull \in Objects
BY DEF Objects, Pull, Caps, Exposed, Features

\* The DaemonSets are none of the objects of a capability.
LEMMA DaemonSetsApart ==
  ASSUME NEW u, NEW o, o = <<"sts", u>> \/ o = <<"svc", u>>, NEW f \in Features
  PROVE  <<"ds", f>> \in Objects /\ <<"ds", f>> # o
<1>1. <<"ds", f>> # o
  OBVIOUS
<1>2. <<"ds", f>> \in Objects
  BY ObjectFacts
<1>3. QED
  BY <1>1, <1>2

\* What an object of each kind may be.
LEMMA ContentFacts ==
  /\ \A c \in Caps : /\ Contents(<<"sts", c>>) = {Absent} \cup StatefulSets
                     /\ Contents(<<"props", c>>) = {Absent} \cup PropsValues
  /\ \A c \in Exposed : Contents(<<"svc", c>>) = {Absent, "service"}
  /\ \A f \in Features : Contents(<<"ds", f>>) = {Absent} \cup DaemonSets
  /\ Contents(Pull) = {Absent} \cup TokenStates
BY DEF Contents, Pull

\* What the spec allows, kind by kind.
PropsAllowed(s) ==
  IF s.props.kind = "from" THEN PropsValues \ {Absent}
  ELSE IF s.props.kind = "value" THEN {s.props.value} ELSE {0}

\* What a spec allows of ActiveGate objects and the pull secret.
LEMMA AllowedFacts ==
  ASSUME NEW s
  PROVE  /\ \A c : Allowed(s, <<"sts", c>>) =
                     IF c \in s.enabled
                     THEN [tmpl : {s.tmpl}, labels : {s.labels}, version : Versions,
                           props : PropsAllowed(s)]
                     ELSE {Absent}
         /\ \A c : Allowed(s, <<"svc", c>>) =
                     IF c \in s.enabled THEN {"service"} ELSE {Absent}
         /\ \A c : c \in s.enabled /\ s.props.kind = "value" =>
                     Allowed(s, <<"props", c>>) = {s.props.value}
         /\ ~s.ownPull => Allowed(s, Pull) = TokenStates
<1>1. \A c : Allowed(s, <<"sts", c>>) =
              IF c \in s.enabled
              THEN [tmpl : {s.tmpl}, labels : {s.labels}, version : Versions,
                    props : PropsAllowed(s)]
              ELSE {Absent}
  BY DEF Allowed, PropsAllowed
<1>2. \A c : Allowed(s, <<"svc", c>>) = IF c \in s.enabled THEN {"service"} ELSE {Absent}
  BY DEF Allowed
<1>3. \A c : c \in s.enabled /\ s.props.kind = "value" =>
              Allowed(s, <<"props", c>>) = {s.props.value}
  BY DEF Allowed
<1>4. ~s.ownPull => Allowed(s, Pull) = TokenStates
  BY DEF Allowed, Pull
<1>5. QED
  BY <1>1, <1>2, <1>3, <1>4

\* The pods of a OneAgent under a spec.
AgentPods(s, f) == [tmpl |-> s.tmpl, immutable |-> f \in s.immutable]

\* What a spec allows of a DaemonSet.
LEMMA AllowedDaemonSet ==
  ASSUME NEW s, NEW f
  PROVE  Allowed(s, <<"ds", f>>) =
           IF f \in s.enabled THEN [pod : {AgentPods(s, f)}, version : Versions]
           ELSE {Absent}
BY DEF Allowed, AgentPods

\* One object changes, and what an informer shows is what it did before, or what
\* was there, or what is there now.
Change(o, c) == objs' = [objs EXCEPT ![o] = c]

Viewed ==
  /\ DOMAIN view' = Objects
  /\ \A p \in Objects : view'[p] \in {view[p], objs[p], objs'[p]}

\* A write changes one object.
LEMMA WriteEffect ==
  ASSUME TypeOK, NEW o \in Objects, NEW c \in Contents(o), Change(o, c)
  PROVE  /\ DOMAIN objs' = Objects /\ objs'[o] = c
         /\ \A p \in Objects : objs'[p] \in Contents(p)
         /\ \A p \in Objects \ {o} : objs'[p] = objs[p]
BY DEF TypeOK, Change

\* A write and a read only show what is or was there.
LEMMA WriteViewed ==
  ASSUME TypeOK, NEW o \in Objects, NEW s \in Shown(o), NEW c, Write(o, s, c)
  PROVE  Change(o, c) /\ Viewed
<1>1. PICK v \in {s, objs[o]} : view' = [view EXCEPT ![o] = v]
  BY DEF Write
<1>2. v \in {view[o], objs[o]}
  BY <1>1 DEF Shown
<1>3. QED
  BY <1>1, <1>2 DEF TypeOK, Write, Change, Viewed

LEMMA SawViewed ==
  ASSUME TypeOK, NEW o \in Objects, NEW s \in Shown(o), Saw(o, s)
  PROVE  UNCHANGED objs /\ Viewed
BY DEF TypeOK, Saw, Shown, Viewed

\* Every step in the middle of a run changes at most one object, in a way that
\* the spec it works from allows.
Lawful ==
  \/ UNCHANGED objs
  \/ \E o \in Objects :
       \/ \E c \in Allowed(run.spec, o) : Change(o, c)
       \/ /\ Allowed(run.spec, o) # {}
          /\ ~({objs[o], view[o]} \subseteq Allowed(run.spec, o))
          /\ Change(o, Absent)

Sound ==
  /\ Proceeds /\ Lawful /\ Viewed
  /\ DOMAIN objs' = Objects /\ \A o \in Objects : objs'[o] \in Contents(o)
  /\ misled' \in SUBSET Exposed
  /\ ServiceBeforeStatefulSet' /\ ServiceInv'
  /\ \A f \in Features :
       \/ objs'[<<"ds", f>>] \in {Absent, objs[<<"ds", f>>]}
       \/ objs'[<<"ds", f>>].version = run.status.oa.version

\* Steps that leave the objects alone.
LEMMA QuietSound ==
  ASSUME IInv, Proceeds, UNCHANGED <<objs, misled>>, Viewed,
         run'.at # "cap" \/ run'.part = 1
  PROVE  Sound
<1>1. ServiceInv'
  BY DEF ServiceInv
<1>2. /\ DOMAIN objs' = Objects /\ \A o \in Objects : objs'[o] \in Contents(o)
      /\ misled' \in SUBSET Exposed
  BY DEF IInv, TypeOK
<1>3. ServiceBeforeStatefulSet'
  BY DEF IInv, ServiceBeforeStatefulSet
<1>4. QED
  BY <1>1, <1>2, <1>3 DEF Sound, Lawful

\* The informers keep still, too.
LEMMA CalmSound ==
  ASSUME IInv, Proceeds, UNCHANGED objects, run'.at # "cap" \/ run'.part = 1
  PROVE  Sound
<1>1. UNCHANGED <<objs, misled>> /\ view' = view
  BY DEF objects
<1>2. Viewed
  BY <1>1 DEF Viewed, IInv, TypeOK
<1>3. QED
  BY <1>1, <1>2, QuietSound

\* Steps that write something else than a Service or a StatefulSet, and leave
\* the capability they are at.
LEMMA OtherSound ==
  ASSUME IInv, Proceeds, Viewed, UNCHANGED misled, run'.at # "cap" \/ run'.part = 1,
         NEW o \in Objects, NEW c \in Contents(o), Change(o, c), c \in Allowed(run.spec, o),
         \A u : o # <<"svc", u>> /\ o # <<"sts", u>>,
         \A f \in Features : o = <<"ds", f>> => c = Absent \/ c.version = run.status.oa.version
  PROVE  Sound
<1>1. TypeOK
  BY DEF IInv
<1>2. /\ DOMAIN objs' = Objects /\ objs'[o] = c
      /\ \A p \in Objects : objs'[p] \in Contents(p)
      /\ \A p \in Objects \ {o} : objs'[p] = objs[p]
  BY <1>1, WriteEffect
<1>3. ServiceInv'
  BY DEF ServiceInv
<1>4. ServiceBeforeStatefulSet'
  <2> SUFFICES ASSUME NEW u \in Exposed, objs'[<<"sts", u>>] # Absent,
                      objs'[<<"svc", u>>] = Absent
               PROVE  u \in misled'
    BY DEF ServiceBeforeStatefulSet
  <2>1. /\ objs'[<<"sts", u>>] = objs[<<"sts", u>>]
        /\ objs'[<<"svc", u>>] = objs[<<"svc", u>>]
    BY <1>2, ObjectFacts
  <2>2. QED
    BY <2>1 DEF IInv, ServiceBeforeStatefulSet
<1>5. ASSUME NEW f \in Features
      PROVE  \/ objs'[<<"ds", f>>] \in {Absent, objs[<<"ds", f>>]}
             \/ objs'[<<"ds", f>>].version = run.status.oa.version
  BY <1>2, ObjectFacts
<1>6. Lawful
  BY DEF Lawful
<1>7. misled' \in SUBSET Exposed
  BY <1>1 DEF TypeOK
<1>8. QED
  BY <1>2, <1>3, <1>4, <1>5, <1>6, <1>7 DEF Sound

\* A capability is dealt with.
LEMMA CapUnit ==
  ASSUME IInv, run.at = "cap"
  PROVE  /\ TypeOK /\ UnitInv /\ run \in Runs /\ run.spec \in Specs
         /\ run.status \in Status
         /\ run.unit \in 1..3 /\ run.unit \in 1..5 /\ unit \in Caps
<1>1. TypeOK /\ UnitInv /\ run \in Runs
  BY DEF IInv, TypeOK
<1>2. run.spec \in Specs /\ run.status \in Status
  BY <1>1, RunFacts
<1>3. run.unit \in 1..3
  BY <1>1 DEF UnitInv
<1>4. QED
  BY <1>1, <1>2, <1>3, OrderFacts DEF unit

\* A feature of the OneAgent is dealt with.
LEMMA AgentUnit ==
  ASSUME IInv, run.at = "agent"
  PROVE  /\ TypeOK /\ UnitInv /\ run \in Runs /\ run.spec \in Specs
         /\ run.status \in Status
         /\ run.unit \in 4..5 /\ run.unit \in 1..5 /\ unit \in Features
<1>1. TypeOK /\ UnitInv /\ run \in Runs
  BY DEF IInv, TypeOK
<1>2. run.spec \in Specs /\ run.status \in Status
  BY <1>1, RunFacts
<1>3. run.unit \in 4..5
  BY <1>1 DEF UnitInv
<1>4. QED
  BY <1>1, <1>2, <1>3, OrderFacts DEF unit

\* A unit yields, or the next one is begun.
LEMMA LeaveUnit ==
  ASSUME TypeOK, Quiet, Works \/ Fails, UNCHANGED asked,
         run.at # "idle", run.unit \in 1..5,
         run' = Yield(run) \/ run' = NextUnit(run)
  PROVE  Proceeds /\ (run'.at # "cap" \/ run'.part = 1)
<1>1. run \in Runs
  BY DEF TypeOK
<1>2. CASE run' = Yield(run)
  <2>1. /\ run' \in Runs /\ Same(run, run') /\ run'.at = "persist"
        /\ run'.status = run.status /\ run'.updated
    BY <1>1, <1>2, YieldEffect
  <2>2. UnitInv'
    BY <2>1 DEF UnitInv
  <2>3. QED
    BY <2>1, <2>2, PlainProceeds DEF Same, Early
<1>3. CASE run' = NextUnit(run)
  <2>1. /\ run' \in Runs /\ run'.spec = run.spec /\ run'.status = run.status
        /\ (run'.updated <=> run.updated) /\ (run'.fresh <=> run.fresh)
        /\ \/ run'.at = "persist"
           \/ run'.part = 1 /\ run'.at = "cap" /\ run'.unit \in 1..3
           \/ run'.part = 1 /\ run'.at = "agent" /\ run'.unit \in 4..5
    BY <1>1, <1>3, NextUnitEffect
  <2>2. UnitInv'
    BY <2>1 DEF UnitInv
  <2>3. run'.at # "idle" /\ (run'.at # "cap" \/ run'.part = 1)
    BY <2>1
  <2>4. QED
    BY <2>1, <2>2, <2>3, PlainProceeds DEF Early
<1>4. QED
  BY <1>2, <1>3

\* The next part of the same unit.
LEMMA NextPartProceeds ==
  ASSUME TypeOK, UnitInv, Quiet, Works \/ Fails, UNCHANGED asked,
         run.at = "cap", run.part \in 1..2, run' = NextPart(run)
  PROVE  /\ Proceeds /\ run'.at = "cap" /\ run'.spec = run.spec
         /\ run'.unit = run.unit /\ unit' = unit /\ (enabled' <=> enabled)
<1>1. run \in Runs
  BY DEF TypeOK
<1>2. /\ run' \in Runs /\ run'.spec = run.spec /\ run'.status = run.status
      /\ run'.at = "cap" /\ run'.unit = run.unit /\ (run'.updated <=> run.updated)
      /\ (run'.fresh <=> run.fresh)
  BY <1>1, NextPartEffect
<1>3. UnitInv'
  BY <1>2 DEF UnitInv
<1>4. unit' = unit /\ (enabled' <=> enabled)
  BY <1>2 DEF unit, enabled
<1>5. QED
  BY <1>2, <1>3, <1>4, PlainProceeds DEF Early

\* The Service is there, or was taken to be, when the next part is begun.
LEMMA ServiceSound ==
  ASSUME IInv, createServiceIfNotExists
  PROVE  Sound
<1> DEFINE s == <<"svc", unit>>
<1>1. /\ run.at = "cap" /\ run.part = 1 /\ enabled
      /\ Quiet /\ (Works \/ Fails) /\ UNCHANGED asked
      /\ \/ unit \notin Exposed /\ UNCHANGED objects /\ run' = NextPart(run)
         \/ /\ unit \in Exposed
            /\ \E c \in Shown(s) : Write(s, c, "service")
            /\ run' = Yield(run) /\ misled' = misled \ {unit}
         \/ /\ unit \in Exposed
            /\ \E c \in Shown(s) : Saw(s, c)
            /\ run' = NextPart(run)
            /\ misled' = misled \cup {d \in {unit} : objs[s] = Absent}
  BY DEF createServiceIfNotExists, createService, CapOn, CapStep, Reads
<1>2. /\ TypeOK /\ UnitInv /\ run \in Runs /\ run.unit \in 1..5 /\ unit \in Caps
      /\ misled \in SUBSET Exposed
  BY <1>1, CapUnit DEF TypeOK
<1>3. CASE /\ unit \in Exposed
           /\ \E c \in Shown(s) : Write(s, c, "service")
           /\ run' = Yield(run) /\ misled' = misled \ {unit}
  <2>1. Proceeds /\ (run'.at # "cap" \/ run'.part = 1)
    BY <1>1, <1>2, <1>3, LeaveUnit
  <2>2. PICK o \in Objects : o = s
    BY <1>3, ObjectFacts
  <2>3. "service" \in Contents(o) /\ "service" \in Allowed(run.spec, o)
    BY <1>1, <1>3, <2>2, ContentFacts, AllowedFacts DEF enabled
  <2>4. Change(o, "service") /\ Viewed
    BY <1>2, <1>3, <2>2, WriteViewed
  <2>5. /\ DOMAIN objs' = Objects /\ objs'[o] = "service"
        /\ \A p \in Objects : objs'[p] \in Contents(p)
        /\ \A p \in Objects \ {o} : objs'[p] = objs[p]
    BY <1>2, <2>3, <2>4, WriteEffect
  <2>6. ServiceInv'
    BY <2>1 DEF ServiceInv
  <2>7. ServiceBeforeStatefulSet'
    <3> SUFFICES ASSUME NEW u \in Exposed, objs'[<<"sts", u>>] # Absent,
                        objs'[<<"svc", u>>] = Absent
                 PROVE  u \in misled'
      BY DEF ServiceBeforeStatefulSet
    <3>1. objs'[<<"sts", u>>] = objs[<<"sts", u>>]
      BY <2>2, <2>5, ObjectFacts
    <3>2. u # unit
      BY <2>2, <2>5, ConstantsAssumption
    <3>3. objs'[<<"svc", u>>] = objs[<<"svc", u>>]
      BY <2>2, <2>5, <3>2, ObjectFacts
    <3>4. u \in misled
      BY <3>1, <3>3 DEF IInv, ServiceBeforeStatefulSet
    <3>5. QED
      BY <1>3, <3>2, <3>4
  <2>8. ASSUME NEW f \in Features PROVE objs'[<<"ds", f>>] = objs[<<"ds", f>>]
    <3>1. <<"ds", f>> \in Objects /\ <<"ds", f>> # o
      BY <2>2, DaemonSetsApart
    <3>2. QED
      BY <2>5, <3>1
  <2>9. Lawful
    BY <2>3, <2>4 DEF Lawful
  <2>10. misled' \in SUBSET Exposed
    BY <1>2, <1>3
  <2>11. QED
    BY <2>1, <2>4, <2>5, <2>6, <2>7, <2>8, <2>9, <2>10 DEF Sound
<1>4. ASSUME UNCHANGED objs, Viewed, run' = NextPart(run),
             misled \subseteq misled', misled' \subseteq Exposed,
             unit \in Exposed => objs[s] # Absent \/ unit \in misled'
      PROVE  Sound
  <2>1. Proceeds /\ unit' = unit /\ (enabled' <=> enabled)
    BY <1>1, <1>2, <1>4, NextPartProceeds
  <2>2. ServiceInv'
    BY <1>1, <1>4, <2>1 DEF ServiceInv
  <2>3. DOMAIN objs' = Objects /\ \A o \in Objects : objs'[o] \in Contents(o)
    BY <1>2, <1>4 DEF TypeOK
  <2>4. ServiceBeforeStatefulSet'
    <3>1. \A c \in Exposed : c \in misled => c \in misled'
      BY <1>4
    <3>2. QED
      BY <1>4, <3>1 DEF IInv, ServiceBeforeStatefulSet
  <2>5. QED
    BY <1>4, <2>1, <2>2, <2>3, <2>4 DEF Sound, Lawful
<1>5. CASE unit \notin Exposed /\ UNCHANGED objects /\ run' = NextPart(run)
  <2>1. UNCHANGED objs /\ Viewed /\ misled' = misled
    BY <1>2, <1>5 DEF objects, Viewed, TypeOK
  <2>2. QED
    BY <1>2, <1>4, <1>5, <2>1
<1>6. CASE /\ unit \in Exposed
           /\ \E c \in Shown(s) : Saw(s, c)
           /\ run' = NextPart(run)
           /\ misled' = misled \cup {d \in {unit} : objs[s] = Absent}
  <2>1. s \in Objects
    BY <1>6, ObjectFacts
  <2>2. UNCHANGED objs /\ Viewed
    BY <1>2, <1>6, <2>1, SawViewed
  <2>3. /\ misled \subseteq misled' /\ misled' \subseteq Exposed
        /\ objs[s] = Absent => unit \in misled'
    BY <1>2, <1>6
  <2>4. QED
    BY <1>4, <1>6, <2>2, <2>3
<1>7. QED
  BY <1>1, <1>3, <1>5, <1>6

\* The custom properties are written under the eyes of a Service.
LEMMA PropertiesSound ==
  ASSUME IInv, ReconcileCustomProperties
  PROVE  Sound
<1> DEFINE s == <<"props", unit>>
<1>1. /\ run.at = "cap" /\ run.part = 2 /\ enabled
      /\ Quiet /\ (Works \/ Fails) /\ UNCHANGED <<misled, asked>> /\ run' = NextPart(run)
      /\ \/ UNCHANGED <<objs, view>>
         \/ \E c \in Shown(s) : Saw(s, c)
         \/ /\ run.spec.props.kind = "value"
            /\ \E c \in Shown(s) : Write(s, c, run.spec.props.value)
  BY DEF ReconcileCustomProperties, CapOn, CapStep, Reads
<1>2. /\ TypeOK /\ UnitInv /\ run \in Runs /\ run.spec \in Specs /\ unit \in Caps
      /\ misled' \in SUBSET Exposed
  BY <1>1, CapUnit DEF TypeOK
<1>3. Proceeds /\ unit' = unit /\ (enabled' <=> enabled)
  BY <1>1, <1>2, NextPartProceeds
<1>4. unit \in Exposed => objs[<<"svc", unit>>] # Absent \/ unit \in misled
  BY <1>1 DEF IInv, ServiceInv
<1>5. s \in Objects
  BY <1>2, ObjectFacts
<1>6. CASE UNCHANGED <<objs, view>> \/ \E c \in Shown(s) : Saw(s, c)
  <2>1. UNCHANGED objs /\ Viewed
    <3>1. CASE UNCHANGED <<objs, view>>
      BY <1>2, <3>1 DEF Viewed, TypeOK
    <3>2. CASE \E c \in Shown(s) : Saw(s, c)
      BY <1>2, <1>5, <3>2, SawViewed
    <3>3. QED
      BY <1>6, <3>1, <3>2
  <2>2. ServiceInv'
    BY <1>1, <1>3, <1>4, <2>1 DEF ServiceInv
  <2>3. DOMAIN objs' = Objects /\ \A o \in Objects : objs'[o] \in Contents(o)
    BY <1>2, <2>1 DEF TypeOK
  <2>4. ServiceBeforeStatefulSet'
    BY <1>1, <2>1 DEF IInv, ServiceBeforeStatefulSet
  <2>5. QED
    BY <1>2, <1>3, <2>1, <2>2, <2>3, <2>4 DEF Sound, Lawful
<1>7. CASE /\ run.spec.props.kind = "value"
           /\ \E c \in Shown(s) : Write(s, c, run.spec.props.value)
  <2>1. PICK o \in Objects : o = s
    BY <1>5
  <2>2. PICK c : c = run.spec.props.value
    OBVIOUS
  <2>3. c \in Contents(o) /\ c \in Allowed(run.spec, o)
    <3>1. c \in PropsValues
      BY <1>2, <2>2 DEF PropsValues
    <3>2. QED
      BY <1>1, <1>2, <1>7, <2>1, <2>2, <3>1, ContentFacts, AllowedFacts DEF enabled
  <2>4. Change(o, c) /\ Viewed
    BY <1>2, <1>7, <2>1, <2>2, WriteViewed
  <2>5. /\ DOMAIN objs' = Objects
        /\ \A p \in Objects : objs'[p] \in Contents(p)
        /\ \A p \in Objects \ {o} : objs'[p] = objs[p]
    BY <1>2, <2>3, <2>4, WriteEffect
  <2>6. /\ \A u \in Exposed : /\ objs'[<<"sts", u>>] = objs[<<"sts", u>>]
                              /\ objs'[<<"svc", u>>] = objs[<<"svc", u>>]
        /\ \A f \in Features : objs'[<<"ds", f>>] = objs[<<"ds", f>>]
    BY <2>1, <2>5, ObjectFacts
  <2>7. ServiceBeforeStatefulSet'
    BY <1>1, <2>6 DEF IInv, ServiceBeforeStatefulSet
  <2>8. ServiceInv'
    BY <1>1, <1>3, <1>4, <2>6 DEF ServiceInv
  <2>9. Lawful
    BY <2>3, <2>4 DEF Lawful
  <2>10. QED
    BY <1>2, <1>3, <2>4, <2>5, <2>6, <2>7, <2>8, <2>9 DEF Sound
<1>8. QED
  BY <1>1, <1>6, <1>7

\* The StatefulSet that manageStatefulSet wants is one that the spec allows.
LEMMA DesiredFacts ==
  ASSUME IInv, run.at = "cap", enabled, ~PropsUnreadable
  PROVE  /\ buildDesiredStatefulSet \in StatefulSets
         /\ buildDesiredStatefulSet \in Allowed(run.spec, <<"sts", unit>>)
         /\ buildDesiredStatefulSet.labels = run.spec.labels
<1>1. /\ TypeOK /\ run.spec \in Specs /\ run.status \in Status /\ unit \in Caps
  BY CapUnit
<1>2. PICK v \in Versions : v = run.status.ag.version
  BY <1>1, StatusFacts
<1>3. calculateCustomPropertyHash \in PropsValues \cap PropsAllowed(run.spec)
  <2>1. ext \in Externals /\ run.spec.props.kind \in {"none", "value", "from"}
    BY <1>1, ConstantsAssumption DEF TypeOK, DynaKubeSpec
  <2>2. ext.props \in PropsValues /\ run.spec.props.value \in PropsValues
        /\ 0 \in PropsValues
    BY <1>1, <2>1 DEF PropsValues
  <2>3. QED
    BY <2>1, <2>2 DEF calculateCustomPropertyHash, PropsAllowed, PropsUnreadable
<1>4. PICK h \in PropsValues \cap PropsAllowed(run.spec) : h = calculateCustomPropertyHash
  BY <1>3
<1>5. buildDesiredStatefulSet = [tmpl |-> run.spec.tmpl, labels |-> run.spec.labels,
                                 version |-> v, props |-> h]
  BY <1>2, <1>4 DEF buildDesiredStatefulSet, CreateStatefulSet, buildTemplateSpec
<1>6. run.spec.tmpl \in Templates /\ run.spec.labels \in Labels
  BY <1>1 DEF Templates, Labels
<1>7. buildDesiredStatefulSet \in StatefulSets
  BY <1>5, <1>6 DEF StatefulSets
<1>8. buildDesiredStatefulSet \in
        [tmpl : {run.spec.tmpl}, labels : {run.spec.labels}, version : Versions,
         props : PropsAllowed(run.spec)]
  BY <1>5
<1>9. Allowed(run.spec, <<"sts", unit>>) =
        [tmpl : {run.spec.tmpl}, labels : {run.spec.labels}, version : Versions,
         props : PropsAllowed(run.spec)]
  BY AllowedFacts DEF enabled
<1>10. QED
  BY <1>5, <1>7, <1>8, <1>9

\* Writing the StatefulSet of the capability at hand keeps the order, if its
\* Service is there or taken to be, or the StatefulSet is deleted.
LEMMA StatefulSetWrite ==
  ASSUME IInv, run.at = "cap", NEW c \in Contents(<<"sts", unit>>),
         Change(<<"sts", unit>>, c),
         \/ c = Absent
         \/ unit \in Exposed => objs[<<"svc", unit>>] # Absent \/ unit \in misled',
         misled \ {unit} \subseteq misled'
  PROVE  /\ DOMAIN objs' = Objects /\ \A o \in Objects : objs'[o] \in Contents(o)
         /\ objs'[<<"sts", unit>>] = c
         /\ ServiceBeforeStatefulSet'
         /\ \A f \in Features : objs'[<<"ds", f>>] = objs[<<"ds", f>>]
<1>1. TypeOK /\ unit \in Caps
  BY CapUnit
<1>2. PICK o \in Objects : o = <<"sts", unit>>
  BY <1>1, ObjectFacts
<1>3. /\ DOMAIN objs' = Objects /\ objs'[o] = c
      /\ \A p \in Objects : objs'[p] \in Contents(p)
      /\ \A p \in Objects \ {o} : objs'[p] = objs[p]
  BY <1>1, <1>2, WriteEffect
<1>4. ServiceBeforeStatefulSet'
  <2> SUFFICES ASSUME NEW u \in Exposed, objs'[<<"sts", u>>] # Absent,
                      objs'[<<"svc", u>>] = Absent
               PROVE  u \in misled'
    BY DEF ServiceBeforeStatefulSet
  <2>1. objs'[<<"svc", u>>] = objs[<<"svc", u>>]
    BY <1>2, <1>3, ObjectFacts
  <2>2. CASE u = unit
    BY <1>2, <1>3, <2>1, <2>2
  <2>3. CASE u # unit
    <3>1. objs'[<<"sts", u>>] = objs[<<"sts", u>>]
      BY <1>2, <1>3, <2>3, ObjectFacts
    <3>2. u \in misled
      BY <2>1, <3>1 DEF IInv, ServiceBeforeStatefulSet
    <3>3. QED
      BY <2>3, <3>2
  <2>4. QED
    BY <2>2, <2>3
<1>5. ASSUME NEW f \in Features PROVE objs'[<<"ds", f>>] = objs[<<"ds", f>>]
  <2>1. <<"ds", f>> \in Objects /\ <<"ds", f>> # o
    BY <1>2, DaemonSetsApart
  <2>2. QED
    BY <1>3, <2>1
<1>6. QED
  BY <1>2, <1>3, <1>4, <1>5

\* A StatefulSet is created, updated or, when its labels differ, deleted.
LEMMA StatefulSetSound ==
  ASSUME IInv, manageStatefulSet
  PROVE  Sound
<1> DEFINE s == <<"sts", unit>>
           d == buildDesiredStatefulSet
<1>1. /\ run.at = "cap" /\ run.part = 3 /\ enabled /\ ~PropsUnreadable
      /\ Quiet /\ (Works \/ Fails) /\ UNCHANGED <<misled, asked>>
      /\ run' = Yield(run) \/ run' = NextUnit(run)
      /\ \E c \in Shown(s) : \/ Saw(s, c)
                             \/ Write(s, c, d)
                             \/ c # Absent /\ c.labels # d.labels /\ Write(s, c, Absent)
  BY DEF manageStatefulSet, CapOn, CapStep, Reads
<1>2. /\ TypeOK /\ run.unit \in 1..5 /\ unit \in Caps /\ misled' \in SUBSET Exposed
  BY <1>1, CapUnit DEF TypeOK
<1>3. Proceeds /\ (run'.at # "cap" \/ run'.part = 1)
  BY <1>1, <1>2, LeaveUnit
<1>4. PICK c \in Shown(s) : \/ Saw(s, c)
                            \/ Write(s, c, d)
                            \/ c # Absent /\ c.labels # d.labels /\ Write(s, c, Absent)
  BY <1>1
<1>5. ServiceInv'
  BY <1>3 DEF ServiceInv
<1>6. /\ unit \in Exposed => objs[<<"svc", unit>>] # Absent \/ unit \in misled'
      /\ s \in Objects /\ Contents(s) = {Absent} \cup StatefulSets
      /\ misled \ {unit} \subseteq misled'
  <2>1. unit \in Exposed => objs[<<"svc", unit>>] # Absent \/ unit \in misled
    BY <1>1 DEF IInv, ServiceInv
  <2>2. QED
    BY <1>1, <1>2, <2>1, ObjectFacts, ContentFacts
<1>7. d \in StatefulSets /\ d \in Allowed(run.spec, s) /\ d.labels = run.spec.labels
  BY <1>1, DesiredFacts
<1> HIDE DEF d
<1>8. CASE Saw(s, c)
  <2>1. UNCHANGED objs /\ Viewed
    BY <1>2, <1>6, <1>8, SawViewed
  <2>2. QED
    BY <1>1, <1>3, <2>1, QuietSound
<1>9. CASE Write(s, c, d)
  <2>1. Change(s, d) /\ Viewed
    BY <1>2, <1>6, <1>9, WriteViewed
  <2>2. Lawful
    BY <1>6, <1>7, <2>1 DEF Lawful
  <2>3. PICK n \in Contents(s) : n = d
    BY <1>6, <1>7
  <2>4. Change(s, n)
    BY <2>1, <2>3
  <2>5. /\ DOMAIN objs' = Objects /\ \A o \in Objects : objs'[o] \in Contents(o)
        /\ ServiceBeforeStatefulSet'
        /\ \A f \in Features : objs'[<<"ds", f>>] = objs[<<"ds", f>>]
    BY <1>1, <1>6, <2>4, StatefulSetWrite
  <2>6. QED
    BY <1>2, <1>3, <1>5, <2>1, <2>2, <2>5 DEF Sound
<1>10. CASE c # Absent /\ c.labels # d.labels /\ Write(s, c, Absent)
  <2>1. c \notin Allowed(run.spec, s)
    <3>1. Allowed(run.spec, s) =
            [tmpl : {run.spec.tmpl}, labels : {run.spec.labels}, version : Versions,
             props : PropsAllowed(run.spec)]
      BY <1>1, AllowedFacts DEF enabled
    <3>2. \A x \in Allowed(run.spec, s) : x.labels = run.spec.labels
      <4>1. PICK T, L, P : /\ T = {run.spec.tmpl} /\ L = {run.spec.labels}
                           /\ P = PropsAllowed(run.spec)
        OBVIOUS
      <4>2. \A x \in [tmpl : T, labels : L, version : Versions, props : P] : x.labels \in L
        OBVIOUS
      <4>3. QED
        BY <3>1, <4>1, <4>2
    <3>3. QED
      BY <1>7, <1>10, <3>2
  <2>2. Change(s, Absent) /\ Viewed
    BY <1>2, <1>6, <1>10, WriteViewed
  <2>3. ~({objs[s], view[s]} \subseteq Allowed(run.spec, s))
    BY <1>4, <2>1 DEF Shown
  <2>4. Lawful
    BY <1>6, <1>7, <2>2, <2>3 DEF Lawful
  <2>5. PICK n \in Contents(s) : n = Absent
    BY <1>6
  <2>6. Change(s, n)
    BY <2>2, <2>5
  <2>7. /\ DOMAIN objs' = Objects /\ \A o \in Objects : objs'[o] \in Contents(o)
        /\ ServiceBeforeStatefulSet'
        /\ \A f \in Features : objs'[<<"ds", f>>] = objs[<<"ds", f>>]
    BY <1>1, <1>6, <2>5, <2>6, StatefulSetWrite
  <2>8. QED
    BY <1>2, <1>3, <1>5, <2>2, <2>4, <2>7 DEF Sound
<1>11. QED
  BY <1>4, <1>8, <1>9, <1>10

\* What ensureDeleted does to an object.
LEMMA DeletedEffect ==
  ASSUME TypeOK, NEW o \in Objects, ensureDeleted(o)
  PROVE  Change(o, Absent) /\ Viewed
<1>1. view[o] \in Shown(o)
  BY DEF Shown
<1>2. QED
  BY <1>1, WriteViewed DEF ensureDeleted

\* The StatefulSet goes before its Service.
LEMMA DeleteStatefulSetSound ==
  ASSUME IInv, DeleteStatefulSet
  PROVE  Sound
<1>1. /\ run.at = "cap" /\ run.part = 1 /\ ~enabled
      /\ Quiet /\ Works /\ UNCHANGED asked /\ ensureDeleted(<<"sts", unit>>)
      /\ misled' = misled \ {unit}
      /\ run' = NextUnit(run) \/ (unit \in Exposed /\ run' = NextPart(run))
  BY DEF DeleteStatefulSet, CapOff, CapStep
<1>2. /\ TypeOK /\ UnitInv /\ run.unit \in 1..5 /\ unit \in Caps
      /\ misled' \in SUBSET Exposed
  BY <1>1, CapUnit DEF TypeOK
<1>3. <<"sts", unit>> \in Objects /\ Absent \in Contents(<<"sts", unit>>)
  BY <1>2, ObjectFacts, ContentFacts
<1>4. Change(<<"sts", unit>>, Absent) /\ Viewed
  BY <1>1, <1>2, <1>3, DeletedEffect
<1>5. Lawful
  <2>1. Allowed(run.spec, <<"sts", unit>>) = {Absent}
    BY <1>1, AllowedFacts DEF enabled
  <2>2. QED
    BY <1>3, <1>4, <2>1 DEF Lawful
<1>6. PICK c \in Contents(<<"sts", unit>>) : c = Absent
  BY <1>3
<1>7. Change(<<"sts", unit>>, c)
  BY <1>4, <1>6
<1>8. /\ DOMAIN objs' = Objects /\ \A o \in Objects : objs'[o] \in Contents(o)
      /\ objs'[<<"sts", unit>>] = Absent /\ ServiceBeforeStatefulSet'
      /\ \A f \in Features : objs'[<<"ds", f>>] = objs[<<"ds", f>>]
  BY <1>1, <1>6, <1>7, StatefulSetWrite
<1>9. CASE run' = NextUnit(run)
  <2>1. Proceeds /\ (run'.at # "cap" \/ run'.part = 1)
    BY <1>1, <1>2, <1>9, LeaveUnit
  <2>2. ServiceInv'
    BY <2>1 DEF ServiceInv
  <2>3. QED
    BY <1>2, <1>4, <1>5, <1>8, <2>1, <2>2 DEF Sound
<1>10. CASE unit \in Exposed /\ run' = NextPart(run)
  <2>1. Proceeds /\ unit' = unit /\ (enabled' <=> enabled)
    BY <1>1, <1>2, <1>10, NextPartProceeds
  <2>2. ServiceInv'
    BY <1>1, <1>8, <1>10, <2>1 DEF ServiceInv
  <2>3. QED
    BY <1>2, <1>4, <1>5, <1>8, <2>1, <2>2 DEF Sound
<1>11. QED
  BY <1>1, <1>9, <1>10

\* The Service goes when its StatefulSet is gone.  For a capability that has
\* no Service the second part is never reached.
LEMMA DeleteServiceSound ==
  ASSUME IInv, DeleteService
  PROVE  Sound
<1>1. /\ run.at = "cap" /\ run.part = 2 /\ ~enabled
      /\ Quiet /\ Works /\ UNCHANGED <<misled, asked>>
      /\ ensureDeleted(<<"svc", unit>>) /\ run' = NextUnit(run)
  BY DEF DeleteService, CapOff, CapStep
<1>2. /\ TypeOK /\ UnitInv /\ run.unit \in 1..5 /\ unit \in Caps
      /\ misled' \in SUBSET Exposed
  BY <1>1, CapUnit DEF TypeOK
<1>3. Proceeds /\ (run'.at # "cap" \/ run'.part = 1)
  BY <1>1, <1>2, LeaveUnit
<1>4. unit \in Exposed /\ objs[<<"sts", unit>>] = Absent
  BY <1>1 DEF IInv, ServiceInv
<1>5. PICK o \in Objects : o = <<"svc", unit>>
  BY <1>4, ObjectFacts
<1>6. Absent \in Contents(o) /\ Absent \in Allowed(run.spec, o)
  <2>1. Allowed(run.spec, <<"svc", unit>>) = {Absent}
    BY <1>1, AllowedFacts DEF enabled
  <2>2. Contents(<<"svc", unit>>) = {Absent, "service"}
    BY <1>4, ContentFacts
  <2>3. QED
    BY <1>5, <2>1, <2>2
<1>7. Change(o, Absent) /\ Viewed
  BY <1>1, <1>2, <1>5, DeletedEffect
<1>8. /\ DOMAIN objs' = Objects /\ objs'[o] = Absent
      /\ \A p \in Objects : objs'[p] \in Contents(p)
      /\ \A p \in Objects \ {o} : objs'[p] = objs[p]
  BY <1>2, <1>6, <1>7, WriteEffect
<1>9. ServiceBeforeStatefulSet'
  <2> SUFFICES ASSUME NEW u \in Exposed, objs'[<<"sts", u>>] # Absent,
                      objs'[<<"svc", u>>] = Absent
               PROVE  u \in misled'
    BY DEF ServiceBeforeStatefulSet
  <2>1. objs'[<<"sts", u>>] = objs[<<"sts", u>>]
    BY <1>5, <1>8, ObjectFacts
  <2>2. u # unit
    BY <1>4, <2>1
  <2>3. objs'[<<"svc", u>>] = objs[<<"svc", u>>]
    BY <1>5, <1>8, <2>2, ObjectFacts
  <2>4. QED
    BY <1>1, <2>1, <2>3 DEF IInv, ServiceBeforeStatefulSet
<1>10. ASSUME NEW f \in Features PROVE objs'[<<"ds", f>>] = objs[<<"ds", f>>]
  <2>1. <<"ds", f>> \in Objects /\ <<"ds", f>> # o
    BY <1>5, DaemonSetsApart
  <2>2. QED
    BY <1>8, <2>1
<1>11. Lawful
  BY <1>6, <1>7 DEF Lawful
<1>12. ServiceInv'
  BY <1>3 DEF ServiceInv
<1>13. QED
  BY <1>2, <1>3, <1>7, <1>8, <1>9, <1>10, <1>11, <1>12 DEF Sound

\* A failing request ends the run and changes nothing.
LEMMA AbortSound ==
  ASSUME IInv, run.at # "idle", Quiet, Works \/ Fails, UNCHANGED <<objects, asked>>,
         run' = Abort(run, "error")
  PROVE  Sound
<1>1. TypeOK /\ run \in Runs
  BY DEF IInv, TypeOK
<1>2. /\ run' \in Runs /\ Same(run, run') /\ run'.at = "persist"
      /\ run'.status = run.status /\ (run'.updated <=> run.updated)
  BY <1>1, AbortEffect
<1>3. UnitInv'
  BY <1>2 DEF UnitInv
<1>4. Proceeds
  BY <1>1, <1>2, <1>3, PlainProceeds DEF Same, Early
<1>5. QED
  BY <1>2, <1>4, CalmSound

\* The pull secret is written when the spec names none.
LEMMA PullSecretSound ==
  ASSUME IInv, ReconcilePullSecret
  PROVE  Sound
<1>1. TypeOK /\ UnitInv
  BY DEF IInv
<1>2. /\ Proceeds /\ run'.at = "versions" /\ UNCHANGED misled
      /\ \/ UNCHANGED <<objs, view>>
         \/ /\ ~run.spec.ownPull
            /\ objs' = [objs EXCEPT ![Pull] = GenerateData]
            /\ view' = [view EXCEPT ![Pull] = GenerateData]
  BY <1>1, PullSecretEffect
<1>3. CASE UNCHANGED <<objs, view>>
  BY <1>2, <1>3, CalmSound DEF objects
<1>4. CASE /\ ~run.spec.ownPull
           /\ objs' = [objs EXCEPT ![Pull] = GenerateData]
           /\ view' = [view EXCEPT ![Pull] = GenerateData]
  <2>1. PICK c \in TokenStates : c = GenerateData
    BY <1>1, ConstantsAssumption DEF TypeOK, GenerateData
  <2>2. PICK o \in Objects : o = Pull
    BY ObjectFacts
  <2>3. c \in Contents(o) /\ c \in Allowed(run.spec, o)
    BY <1>4, <2>1, <2>2, ContentFacts, AllowedFacts
  <2>4. Change(o, c) /\ Viewed
    BY <1>1, <1>4, <2>1, <2>2 DEF Change, Viewed, TypeOK
  <2>5. /\ \A u : o # <<"svc", u>> /\ o # <<"sts", u>>
        /\ \A f \in Features : o # <<"ds", f>>
    BY <2>2 DEF Pull
  <2>6. QED
    BY <1>2, <2>3, <2>4, <2>5, OtherSound
<1>5. QED
  BY <1>2, <1>3, <1>4

\* The DaemonSet that is rolled out has the version of the status.
LEMMA RolloutFacts ==
  ASSUME IInv, run.at = "agent", enabled
  PROVE  /\ <<"ds", unit>> \in Objects
         /\ newDaemonSetForCR \in Contents(<<"ds", unit>>)
         /\ newDaemonSetForCR \in Allowed(run.spec, <<"ds", unit>>)
         /\ newDaemonSetForCR.version = run.status.oa.version
<1>1. /\ run.spec \in Specs /\ run.status \in Status /\ unit \in Features
  BY AgentUnit
<1>2. PICK v \in Versions : v = run.status.oa.version
  BY <1>1, StatusFacts
<1>3. PICK p : p = AgentPods(run.spec, unit)
  OBVIOUS
<1>4. newDaemonSetForCR = [pod |-> p, version |-> v]
  BY <1>2, <1>3 DEF newDaemonSetForCR, newPodSpecForCR, prepareTemplate, AgentPods
<1>5. p \in [tmpl : Templates, immutable : BOOLEAN]
  <2> DEFINE b == unit \in run.spec.immutable
  <2>1. b \in BOOLEAN
    OBVIOUS
  <2>2. p = [tmpl |-> run.spec.tmpl, immutable |-> b]
    BY <1>3 DEF AgentPods
  <2> HIDE DEF b
  <2>3. run.spec.tmpl \in Templates
    BY <1>1 DEF Templates
  <2>4. QED
    BY <2>1, <2>2, <2>3
<1>6. newDaemonSetForCR \in DaemonSets
  BY <1>4, <1>5 DEF DaemonSets
<1>7. newDaemonSetForCR \in Allowed(run.spec, <<"ds", unit>>)
  <2>1. PICK P : P = {p}
    OBVIOUS
  <2>2. newDaemonSetForCR \in [pod : P, version : Versions]
    BY <1>4, <2>1
  <2>3. Allowed(run.spec, <<"ds", unit>>) = [pod : P, version : Versions]
    BY <1>3, <2>1, AllowedDaemonSet DEF enabled
  <2>4. QED
    BY <2>2, <2>3
<1>8. newDaemonSetForCR \in Contents(<<"ds", unit>>) /\ <<"ds", unit>> \in Objects
  BY <1>1, <1>6, ContentFacts, ObjectFacts
<1>9. QED
  BY <1>2, <1>4, <1>7, <1>8

\* What a roll-out does to the objects.
LEMMA RolloutSound ==
  ASSUME IInv, run.at = "agent", enabled, Proceeds, UNCHANGED misled,
         run'.at # "cap" \/ run'.part = 1,
         NEW seen \in Shown(<<"ds", unit>>), NEW v, reconcileRollout(seen, v),
         v \in {seen, objs[<<"ds", unit>>], objs'[<<"ds", unit>>]}
  PROVE  Sound
<1>1. /\ <<"ds", unit>> \in Objects
      /\ newDaemonSetForCR \in Contents(<<"ds", unit>>)
      /\ newDaemonSetForCR \in Allowed(run.spec, <<"ds", unit>>)
      /\ newDaemonSetForCR.version = run.status.oa.version
  BY RolloutFacts
<1>2. PICK o \in Objects : o = <<"ds", unit>>
  BY <1>1
<1>3. PICK c \in Contents(o) : c = newDaemonSetForCR
  BY <1>1, <1>2
<1>4. Viewed
  <2>1. view' = [view EXCEPT ![o] = v] /\ DOMAIN view = Objects
    BY <1>2 DEF reconcileRollout, IInv, TypeOK
  <2>2. v \in {view[o], objs[o], objs'[o]}
    BY <1>2 DEF Shown
  <2>3. QED
    BY <2>1, <2>2 DEF Viewed
<1>5. UNCHANGED objs \/ Change(o, c)
  BY <1>2, <1>3 DEF reconcileRollout, Change
<1>6. CASE UNCHANGED objs
  BY <1>4, <1>6, QuietSound
<1>7. CASE Change(o, c)
  <2>1. c \in Allowed(run.spec, o) /\ c.version = run.status.oa.version
    BY <1>1, <1>2, <1>3
  <2>2. \A u : o # <<"svc", u>> /\ o # <<"sts", u>>
    BY <1>2
  <2>3. QED
    BY <1>4, <1>7, <2>1, <2>2, OtherSound
<1>8. QED
  BY <1>5, <1>6, <1>7

\* The DaemonSet of a disabled feature is deleted.
LEMMA DeleteDaemonSetSound ==
  ASSUME IInv, DeleteDaemonSet
  PROVE  Sound
<1>1. /\ run.at = "agent" /\ ~enabled /\ Quiet /\ Works /\ UNCHANGED <<misled, asked>>
      /\ ensureDeleted(<<"ds", unit>>) /\ run' = NextUnit(run)
  BY DEF DeleteDaemonSet
<1>2. TypeOK /\ run.unit \in 1..5 /\ unit \in Features
  BY <1>1, AgentUnit
<1>3. Proceeds /\ (run'.at # "cap" \/ run'.part = 1)
  BY <1>1, <1>2, LeaveUnit
<1>4. PICK o \in Objects : o = <<"ds", unit>>
  BY <1>2, ObjectFacts
<1>5. Absent \in Contents(o) /\ Absent \in Allowed(run.spec, o)
  <2>1. Allowed(run.spec, <<"ds", unit>>) = {Absent}
    BY <1>1, AllowedDaemonSet DEF enabled
  <2>2. Contents(<<"ds", unit>>) = {Absent} \cup DaemonSets
    BY <1>2, ContentFacts
  <2>3. QED
    BY <1>4, <2>1, <2>2
<1>6. PICK c \in Contents(o) : c = Absent
  BY <1>5
<1>7. Change(o, c) /\ Viewed /\ c \in Allowed(run.spec, o)
  BY <1>1, <1>2, <1>4, <1>5, <1>6, DeletedEffect
<1>8. \A u : o # <<"svc", u>> /\ o # <<"sts", u>>
  BY <1>4
<1>9. QED
  BY <1>1, <1>3, <1>6, <1>7, <1>8, OtherSound

\* The phase is one of those that the status knows.
LEMMA PhaseType ==
  ASSUME NEW old \in {"None", "Running", "Deploying", "Error"},
         NEW read \in {"found", "notfound", "error"}
  PROVE  determineOneAgentPhase(old, read) \in {"None", "Running", "Deploying", "Error"}
BY DEF determineOneAgentPhase

\* The DaemonSet of a feature gets the version in the status.
LEMMA OneAgentSound ==
  ASSUME IInv, NEW changed \in BOOLEAN, NEW read \in {"found", "notfound", "error"},
         ReconcileOneAgent(changed, read)
  PROVE  Sound
<1> DEFINE st == run.status
           im == unit \in run.spec.immutable
           hd == st.hosts > ProbeWait
           h == IF hd THEN 0 ELSE st.hosts
           ph == determineOneAgentPhase(st.phase, read)
           tk == run.spec.tokens
           new == [st EXCEPT !.immutable = im, !.tokens = tk, !.hosts = h, !.phase = ph]
           b == new.immutable # st.immutable \/ hd
           fl == IF read = "error" THEN "error" ELSE Update(run, b, 1).failed
           q == [Update(run, b, 1) EXCEPT !.status = new, !.failed = fl]
<1>1. /\ run.at = "agent" /\ enabled /\ Quiet /\ (Works \/ Fails)
      /\ UNCHANGED <<misled, asked>>
      /\ \E c \in Shown(<<"ds", unit>>) :
           \E v : /\ reconcileRollout(c, v)
                  /\ v \in {c, objs[<<"ds", unit>>], objs'[<<"ds", unit>>]}
      /\ (run' = Yield(q) \/ run' = NextUnit(q))
  BY DEF ReconcileOneAgent
<1>2. /\ TypeOK /\ run \in Runs /\ run.spec \in Specs /\ st \in Status
      /\ run.unit \in 1..5
  BY <1>1, AgentUnit
<1>3. im \in BOOLEAN /\ b \in BOOLEAN
  OBVIOUS
<1>4. h \in 0..OldEnough
  BY <1>2, StatusFacts, ConstFacts
<1>5. ph \in {"None", "Running", "Deploying", "Error"}
  BY <1>2, StatusFacts, PhaseType
<1>6. tk \in {Absent} \cup {s.tokens : s \in Specs}
  BY <1>2
<1> HIDE DEF b, im, h, ph, tk
<1>7. new \in Status /\ new.oa = st.oa /\ new.probe = st.probe
  BY <1>2, <1>3, <1>4, <1>5, <1>6 DEF Status
<1> HIDE DEF new
<1>8. PICK d : d = 1
  OBVIOUS
<1>9. PICK r : r = Update(run, b, d)
  OBVIOUS
<1>10. r \in Runs /\ Same(run, r) /\ (run.updated => r.updated)
  BY <1>2, <1>3, <1>8, <1>9, UpdateEffect
<1>11. fl \in {"no", "error", "throttled"} /\ q = [r EXCEPT !.status = new, !.failed = fl]
  BY <1>8, <1>9, <1>10, RunFacts
<1> HIDE DEF fl, q
<1>12. /\ q \in Runs /\ q.spec = run.spec /\ q.unit = run.unit /\ q.status = new
       /\ (run.updated => q.updated) /\ (q.fresh <=> run.fresh)
  BY <1>7, <1>10, <1>11 DEF Runs, Same
<1>13. /\ run' \in Runs /\ run'.spec = run.spec /\ run'.at # "idle"
       /\ run'.at \notin Early
       /\ run'.status = new /\ (run.updated => run'.updated)
       /\ (run'.fresh <=> run.fresh)
       /\ run'.at # "cap" \/ run'.part = 1
       /\ UnitInv'
  <2>1. CASE run' = Yield(q)
    BY <1>12, <2>1, YieldEffect DEF Same, UnitInv, Early
  <2>2. CASE run' = NextUnit(q)
    <3>1. /\ run' \in Runs /\ run'.spec = q.spec /\ run'.status = q.status
          /\ (run'.updated <=> q.updated) /\ (run'.fresh <=> q.fresh)
          /\ \/ run'.at = "persist"
             \/ run'.part = 1 /\ run'.at = "cap" /\ run'.unit \in 1..3
             \/ run'.part = 1 /\ run'.at = "agent" /\ run'.unit \in 4..5
      BY <1>2, <1>12, <2>2, NextUnitEffect
    <3>2. QED
      BY <1>12, <3>1 DEF UnitInv, Early
  <2>3. QED
    BY <1>1, <2>1, <2>2
<1>14. Proceeds
  BY <1>1, <1>2, <1>7, <1>13, PlainProceeds
<1>15. QED
  BY <1>1, <1>13, <1>14, RolloutSound

\* The roll-out fails.
LEMMA OneAgentFailsSound ==
  ASSUME IInv, ReconcileOneAgentFails
  PROVE  Sound
<1> DEFINE im == unit \in run.spec.immutable
           b == im # run.status.immutable
           st == [run.status EXCEPT !.immutable = im]
<1>1. /\ run.at = "agent" /\ Quiet /\ Fails /\ UNCHANGED <<objects, asked>>
      /\ run' = [Abort(Update(run, b, 1), "error") EXCEPT !.status.immutable = im]
  BY DEF ReconcileOneAgentFails
<1>2. TypeOK /\ run \in Runs /\ run.status \in Status
  BY <1>1, AgentUnit
<1>3. im \in BOOLEAN /\ b \in BOOLEAN
  OBVIOUS
<1> HIDE DEF im, b
<1>4. st \in Status /\ st.oa = run.status.oa /\ st.probe = run.status.probe
  BY <1>2, <1>3 DEF Status
<1>5. PICK d : d = 1
  OBVIOUS
<1>6. PICK r : r = Update(run, b, d)
  OBVIOUS
<1>7. /\ r \in Runs /\ Same(run, r) /\ (run.updated => r.updated)
      /\ r.status = run.status
  BY <1>2, <1>3, <1>5, <1>6, UpdateEffect
<1>8. PICK q : q = Abort(r, "error")
  OBVIOUS
<1>9. /\ q \in Runs /\ Same(r, q) /\ (q.updated <=> r.updated) /\ q.at = "persist"
      /\ q.status = r.status
  BY <1>7, <1>8, AbortEffect
<1>10. run' = [q EXCEPT !.status = st]
  BY <1>1, <1>5, <1>6, <1>7, <1>8, <1>9 DEF Runs
<1> HIDE DEF st
<1>11. /\ run' \in Runs /\ Same(q, run') /\ run'.at = "persist"
       /\ run'.status = st /\ (run'.updated <=> q.updated)
  BY <1>4, <1>9, <1>10, StatusEffect
<1>12. UnitInv'
  BY <1>11 DEF UnitInv
<1>13. Proceeds
  BY <1>1, <1>2, <1>4, <1>7, <1>9, <1>11, <1>12, PlainProceeds DEF Same, Early
<1>14. QED
  BY <1>1, <1>11, <1>13, CalmSound

-----------------------------------------------------------------------------
(* Every step keeps the inductive invariant.                               *)

\* The steps of a run between its start and its end.
Middle ==
  \/ TokensSecretUnreadable
  \/ TokensSecretNotFound \/ TokensMissing \/ TokensClientFails
  \/ \E down \in SUBSET Tokens : ProbeTokens(down)
  \/ SetDynakubeStatus
  \/ \E why \in {"error", "throttled"} : SetDynakubeStatusFails(why)
  \/ \E updated \in BOOLEAN : Istio(updated)
  \/ getTokenSecretFails
  \/ ReconcilePullSecret \/ ReconcilePullSecretFails
  \/ \E down \in SUBSET Images : ReconcileVersions(down)
  \/ ReconcileVersionsFails
  \/ createServiceIfNotExists \/ ReconcileCustomProperties \/ manageStatefulSet
  \/ DeleteStatefulSet \/ DeleteService \/ CapabilityFails
  \/ \E changed \in BOOLEAN, read \in {"found", "notfound", "error"} :
       ReconcileOneAgent(changed, read)
  \/ ReconcileOneAgentFails
  \/ DeleteDaemonSet \/ DeleteDaemonSetFails

\* Every step in the middle of a run is sound.
LEMMA MiddleSound ==
  ASSUME IInv, Middle
  PROVE  Sound
<1>1. TypeOK /\ UnitInv
  BY DEF IInv
<1>2. CASE TokensSecretNotFound \/ TokensMissing \/ TokensClientFails
  <2>1. /\ run.at = "tokens"
        /\ \/ TokenProblem(Tokens, "absent") \/ TokenProblem(Missing, "missing")
           \/ TokenProblem(Tokens, "Error")
    BY <1>2 DEF TokensSecretNotFound, TokensMissing, TokensClientFails
  <2>2. ASSUME NEW ts, NEW reason \in {"absent", "missing", "Error"},
               TokenProblem(ts, reason)
        PROVE  Sound
    BY <1>1, <2>1, <2>2, TokenProblemEffect, CalmSound
  <2>3. QED
    BY <2>1, <2>2
<1>3. CASE \E down \in SUBSET Tokens : ProbeTokens(down)
  <2>1. Proceeds /\ UNCHANGED objects /\ run'.at = "status"
    BY <1>1, <1>3, ProbeEffect
  <2>2. QED
    BY <2>1, CalmSound
<1>4. CASE \/ SetDynakubeStatus
           \/ \E why \in {"error", "throttled"} : SetDynakubeStatusFails(why)
           \/ \E updated \in BOOLEAN : Istio(updated)
           \/ getTokenSecretFails
           \/ ReconcilePullSecretFails
  <2>1. Proceeds /\ UNCHANGED objects /\ run'.at # "cap"
    BY <1>1, <1>4, StatusStepEffect
  <2>2. QED
    BY <2>1, CalmSound
<1>5. CASE (\E down \in SUBSET Images : ReconcileVersions(down)) \/ ReconcileVersionsFails
  <2>1. Proceeds /\ UNCHANGED objects /\ run'.part = 1
    BY <1>1, <1>5, VersionsEffect, VersionsFailEffect
  <2>2. QED
    BY <2>1, CalmSound
<1>6. CASE TokensSecretUnreadable \/ CapabilityFails \/ DeleteDaemonSetFails
  <2>1. /\ run.at # "idle" /\ Quiet /\ (Works \/ Fails) /\ UNCHANGED <<objects, asked>>
        /\ run' = Abort(run, "error")
    BY <1>6 DEF TokensSecretUnreadable, CapabilityFails, DeleteDaemonSetFails
  <2>2. QED
    BY <2>1, AbortSound
<1>7. CASE \E changed \in BOOLEAN, read \in {"found", "notfound", "error"} :
              ReconcileOneAgent(changed, read)
  BY <1>7, OneAgentSound
<1>8. CASE \/ ReconcilePullSecret
           \/ createServiceIfNotExists \/ ReconcileCustomProperties
           \/ manageStatefulSet \/ DeleteStatefulSet \/ DeleteService
  BY <1>8, PullSecretSound, ServiceSound, PropertiesSound, StatefulSetSound,
     DeleteStatefulSetSound, DeleteServiceSound
<1>9. CASE ReconcileOneAgentFails \/ DeleteDaemonSet
  BY <1>9, OneAgentFailsSound, DeleteDaemonSetSound
<1>10. QED
  BY <1>2, <1>3, <1>4, <1>5, <1>6, <1>7, <1>8, <1>9 DEF Middle

\* The numbers that StatusInv and VersionInv compare.
LEMMA NumberTypes ==
  ASSUME TypeOK
  PROVE  /\ run \in Runs /\ run.status \in Status /\ cr.status \in Status
         /\ cr.spec \in Specs /\ cache.status \in Status /\ cache.spec \in Specs
         /\ run.spec \in Specs
         /\ run.status.oa.version \in Nat /\ cr.status.oa.version \in Nat
         /\ cache.status.oa.version \in Nat
         /\ run.status.oa.version \in Versions
         /\ \A t \in Tokens : /\ asked[t] \in 0..TokenWait /\ asked[t] \in Nat
                             /\ run.status.probe[t] \in Nat
                             /\ cr.status.probe[t] \in Nat
                             /\ cr.status.probe[t] \in 0..TokenWait
         /\ \A f \in Features : objs[<<"ds", f>>] # Absent =>
                                  objs[<<"ds", f>>].version \in Nat
<1>1. /\ run \in Runs /\ cr.status \in Status /\ cr.spec \in Specs
      /\ cache.status \in Status /\ cache.spec \in Specs
      /\ asked \in [Tokens -> 0..TokenWait]
  BY DEF TypeOK
<1>2. run.status \in Status /\ run.spec \in Specs
  BY <1>1, RunFacts
<1>3. /\ run.status.oa.version \in Nat /\ cr.status.oa.version \in Nat
      /\ cache.status.oa.version \in Nat /\ run.status.oa.version \in Versions
      /\ \A t \in Tokens : run.status.probe[t] \in Nat /\ cr.status.probe[t] \in Nat
      /\ cr.status.probe \in [Tokens -> 0..TokenWait]
  BY <1>1, <1>2, StatusFacts
<1>4. \A t \in Tokens : asked[t] \in 0..TokenWait /\ asked[t] \in Nat
  BY <1>1, ConstFacts
<1>5. \A f \in Features : objs[<<"ds", f>>] # Absent => objs[<<"ds", f>>].version \in Nat
  <2> SUFFICES ASSUME NEW f \in Features, objs[<<"ds", f>>] # Absent
               PROVE  objs[<<"ds", f>>].version \in Nat
    OBVIOUS
  <2>1. objs[<<"ds", f>>] \in DaemonSets
    BY ObjectFacts, ContentFacts DEF TypeOK
  <2>2. objs[<<"ds", f>>].version \in Versions
    BY <2>1 DEF DaemonSets
  <2>3. QED
    BY <2>2, ConstFacts
<1>6. QED
  BY <1>1, <1>2, <1>3, <1>4, <1>5

\* Where the version of a DaemonSet is known from.
Known(v) ==
  \/ v \in unstored
  \/ v <= cr.status.oa.version
  \/ run.at # "idle" /\ v = run.status.oa.version

\* The parts of VersionInv.
LEMMA VersionFacts ==
  VersionInv <=>
    /\ cache.status.oa.version <= cr.status.oa.version
    /\ run.at # "idle" /\ run.fresh => cr.status.oa.version <= run.status.oa.version
    /\ run.at \in Early => run.status.oa.version <= cr.status.oa.version
    /\ run.at # "idle" /\ ~run.updated => run.status.oa.version <= cr.status.oa.version
    /\ \A f \in Features :
         objs[<<"ds", f>>] # Absent => Known(objs[<<"ds", f>>].version)
BY DEF VersionInv, Known, Early

\* Sound steps keep versions known.
LEMMA MiddleVersions ==
  ASSUME IInv, Sound
  PROVE  VersionInv'
<1> DEFINE stored == cr.status.oa.version
           ours == run.status.oa.version
           new == run'.status.oa.version
<1>1. /\ run' \in Runs /\ run.at # "idle" /\ run'.at # "idle"
      /\ UNCHANGED <<cr, cache, unstored>>
      /\ run.updated => run'.updated
      /\ run'.fresh <=> run.fresh
      /\ run'.at \in Early => run.at \in Early
      /\ run.at # "versions" \/ run'.at \in Early => new = ours
      /\ ours <= new
      /\ ~run'.updated => new = ours
  BY DEF Sound, Proceeds
<1>2. /\ cache.status.oa.version <= stored
      /\ run.fresh => stored <= ours
      /\ run.at \in Early => ours <= stored
      /\ ~run.updated => ours <= stored
      /\ \A f \in Features :
           objs[<<"ds", f>>] # Absent => Known(objs[<<"ds", f>>].version)
  BY <1>1, VersionFacts DEF IInv
<1>3. stored \in Nat /\ ours \in Nat /\ new \in Nat
  BY <1>1, NumberTypes, RunFacts, StatusFacts DEF IInv
<1>4. new = ours \/ ours <= stored
  BY <1>1, <1>2 DEF Early
<1>5. /\ run'.fresh => stored <= new
      /\ run'.at \in Early => new <= stored
      /\ ~run'.updated => new <= stored
  BY <1>1, <1>2, <1>3
<1>6. ASSUME NEW f \in Features, objs'[<<"ds", f>>] # Absent
      PROVE  \/ objs'[<<"ds", f>>].version \in unstored'
             \/ objs'[<<"ds", f>>].version <= cr'.status.oa.version
             \/ objs'[<<"ds", f>>].version = new
  <2> DEFINE v == objs'[<<"ds", f>>].version
  <2>1. v \in unstored \/ v <= stored \/ v = ours
    <3>1. CASE v = ours
      BY <3>1
    <3>2. CASE objs'[<<"ds", f>>] = objs[<<"ds", f>>]
      BY <1>2, <1>6, <3>2 DEF Known
    <3>3. QED
      BY <1>6, <3>1, <3>2 DEF Sound
  <2> HIDE DEF v
  <2>2. v \in unstored' \/ v <= cr'.status.oa.version \/ v = new
    BY <1>1, <1>4, <2>1
  <2>3. QED
    BY <2>2 DEF v
<1>7. QED
  <2>1. /\ cache'.status.oa.version <= cr'.status.oa.version
        /\ run'.fresh => cr'.status.oa.version <= new
        /\ run'.at \in Early => new <= cr'.status.oa.version
        /\ ~run'.updated => new <= cr'.status.oa.version
    BY <1>1, <1>2, <1>5
  <2>2. QED
    BY <1>1, <1>6, <2>1 DEF VersionInv, Early

\* Sound steps keep the inductive invariant.
LEMMA MiddleStep ==
  ASSUME IInv, Sound
  PROVE  IInv'
<1> USE DEF IInv
<1>1. /\ run' \in Runs /\ run'.spec = run.spec
      /\ run.at # "idle" /\ run'.at # "idle" /\ UnitInv'
      /\ UNCHANGED <<cr, cache, synced, ext, lost, unstored, wait, failures, edits>>
      /\ faults' \in 0..MaxFaults
      /\ run.updated => run'.updated
      /\ asked' \in [Tokens -> 0..TokenWait]
      /\ \A t \in Tokens :
           /\ run.status.probe[t] <= asked[t] => run'.status.probe[t] <= asked'[t]
           /\ ~run'.updated => run'.status.probe[t] = run.status.probe[t]
  BY DEF Sound, Proceeds
<1>2. /\ DOMAIN objs' = Objects /\ \A o \in Objects : objs'[o] \in Contents(o)
      /\ misled' \in SUBSET Exposed
      /\ ServiceBeforeStatefulSet' /\ ServiceInv' /\ Viewed
  BY DEF Sound
<1>3. DOMAIN view' = Objects /\ \A o \in Objects : view'[o] \in Contents(o)
  BY <1>2 DEF Viewed, TypeOK
<1>4. TypeOK'
  BY <1>1, <1>2, <1>3 DEF TypeOK
<1>5. synced' => cache' = cr'
  BY <1>1
<1>6. StatusInv'
  <2> SUFFICES ASSUME ~lost'
               PROVE  StatusInv'
    BY DEF StatusInv
  <2>1. ~lost /\ Current = run.status /\ Current' = run'.status
    BY <1>1 DEF Current
  <2>2. \A t \in Tokens : run'.status.probe[t] <= asked'[t]
    BY <1>1, <2>1 DEF StatusInv
  <2>3. ~run'.updated => \A t \in Tokens : cr'.status.probe[t] = run'.status.probe[t]
    BY <1>1, <2>1 DEF StatusInv
  <2>4. QED
    BY <2>1, <2>2, <2>3 DEF StatusInv
<1>7. QED
  BY <1>1, <1>2, <1>4, <1>5, <1>6, MiddleVersions

\* A run starts with the status it read; a stale one counts as lost.
LEMMA StartEffect ==
  ASSUME TypeOK, Start
  PROVE  /\ run.at = "idle" /\ run' \in Runs /\ run'.at = "tokens"
         /\ run'.unit = 1 /\ run'.part = 1 /\ ~run'.updated
         /\ run'.spec = cache.spec /\ run'.status = cache.status
         /\ (run'.fresh <=> synced)
         /\ lost' \in BOOLEAN /\ (~lost' => ~lost /\ synced)
         /\ UNCHANGED <<cr, cache, synced, objs, view, misled, ext, asked, unstored, wait,
                        failures, edits, faults>>
<1>1. /\ run.at = "idle" /\ lost' = (lost \/ ~synced)
      /\ run' = [Idle(cache.spec) EXCEPT !.at = "tokens", !.status = cache.status,
                                         !.fresh = synced]
      /\ UNCHANGED <<cr, cache, synced, objs, view, misled, ext, asked, unstored, wait,
                     failures, edits, faults>>
  BY DEF Start, objects
<1>2. cache.spec \in Specs /\ cache.status \in Status /\ synced \in BOOLEAN
  BY DEF TypeOK
<1>3. PICK r : r = Idle(cache.spec)
  OBVIOUS
<1>4. r \in Runs /\ r.spec = cache.spec /\ r.unit = 1 /\ r.part = 1 /\ ~r.updated
  BY <1>2, <1>3, IdleEffect
<1>5. run' = [r EXCEPT !.at = "tokens", !.status = cache.status, !.fresh = synced]
  BY <1>1, <1>3
<1>6. /\ run' \in Runs /\ run'.at = "tokens" /\ run'.spec = r.spec
      /\ run'.unit = r.unit /\ run'.part = r.part /\ (run'.updated <=> r.updated)
      /\ run'.status = cache.status /\ (run'.fresh <=> synced)
  BY <1>2, <1>4, <1>5 DEF Runs
<1>7. lost' \in BOOLEAN /\ (~lost' => ~lost /\ synced)
  BY <1>1 DEF TypeOK
<1>8. QED
  BY <1>1, <1>4, <1>6, <1>7

\* A run that read the stored status knows what it knows.
LEMMA StartStep ==
  ASSUME IInv, Start
  PROVE  IInv'
<1> USE DEF IInv
<1>1. /\ run.at = "idle" /\ run' \in Runs /\ run'.at = "tokens"
      /\ run'.unit = 1 /\ run'.part = 1 /\ ~run'.updated
      /\ run'.status = cache.status /\ (run'.fresh <=> synced)
      /\ lost' \in BOOLEAN /\ (~lost' => ~lost /\ synced)
      /\ UNCHANGED <<cr, cache, synced, objs, view, misled, ext, asked, unstored, wait,
                     failures, edits, faults>>
  BY StartEffect
<1>2. TypeOK'
  BY <1>1 DEF TypeOK
<1>3. UnitInv' /\ ServiceInv' /\ (synced' => cache' = cr')
  BY <1>1 DEF UnitInv, ServiceInv
<1>4. ServiceBeforeStatefulSet'
  BY <1>1 DEF ServiceBeforeStatefulSet
<1>5. StatusInv'
  <2> SUFFICES ASSUME ~lost' PROVE StatusInv'
    BY DEF StatusInv
  <2>1. ~lost /\ cache = cr /\ Current = cr.status /\ Current' = run'.status
    BY <1>1 DEF Current
  <2>2. run'.status = cr.status
    BY <1>1, <2>1
  <2>3. QED
    BY <1>1, <2>1, <2>2 DEF StatusInv
<1>6. VersionInv'
  <2>1. /\ cache.status.oa.version <= cr.status.oa.version
        /\ \A f \in Features :
             objs[<<"ds", f>>] # Absent => Known(objs[<<"ds", f>>].version)
    BY VersionFacts
  <2>2. synced => cr.status.oa.version <= cache.status.oa.version
    BY NumberTypes
  <2>3. \A f \in Features : objs'[<<"ds", f>>] # Absent =>
                              \/ objs'[<<"ds", f>>].version \in unstored'
                              \/ objs'[<<"ds", f>>].version <= cr'.status.oa.version
    BY <1>1, <2>1 DEF Known
  <2>4. QED
    BY <1>1, <2>1, <2>2, <2>3 DEF VersionInv
<1>7. QED
  BY <1>2, <1>3, <1>4, <1>5, <1>6

\* The end of a run, whatever its result.
LEMMA EndEffect ==
  ASSUME TypeOK, NEW why \in {"no", "error", "throttled"}, End(why)
  PROVE  /\ run' = Idle(run.spec) /\ run' \in Runs /\ run'.at = "idle"
         /\ run'.spec = run.spec
         /\ failures' \in 0..QuickRetries /\ wait' \in Nat
         /\ UNCHANGED <<cache, objs, view, misled, ext, asked, edits>>
<1>1. /\ run' = Idle(run.spec)
      /\ UNCHANGED <<cache, objs, view, misled, ext, asked, edits>>
  BY DEF End, objects
<1>2. run \in Runs /\ run.spec \in Specs /\ run.next \in {0, 1, RequeueWait}
  BY RunFacts DEF TypeOK
<1>3. run' \in Runs /\ run'.at = "idle" /\ run'.spec = run.spec
  BY <1>1, <1>2, IdleEffect
<1>4. failures' \in 0..QuickRetries
  <2>1. Older(failures, QuickRetries) \in 0..QuickRetries
    BY OlderEffect, ConstFacts DEF TypeOK
  <2>2. failures' = Older(failures, QuickRetries) \/ failures' = 0
    BY DEF End
  <2>3. QED
    BY <2>1, <2>2, ConstFacts
<1>5. wait' \in Nat
  <2>1. wait' \in {0, 1, run.next}
    BY DEF End
  <2>2. QED
    BY <1>2, <2>1, ConstFacts
<1>6. QED
  BY <1>1, <1>3, <1>4, <1>5

\* Between runs only the stored status counts.
LEMMA IdleStep ==
  ASSUME IInv, TypeOK', run'.at = "idle", UNCHANGED <<objs, misled>>,
         synced' => cache' = cr',
         cache'.status.oa.version <= cr'.status.oa.version,
         \A f \in Features :
           objs[<<"ds", f>>] # Absent =>
             \/ objs[<<"ds", f>>].version \in unstored'
             \/ objs[<<"ds", f>>].version <= cr'.status.oa.version,
         ~lost' => \A t \in Tokens : cr'.status.probe[t] <= asked'[t]
  PROVE  IInv'
<1>1. UnitInv' /\ ServiceInv'
  BY DEF UnitInv, ServiceInv
<1>2. ServiceBeforeStatefulSet'
  BY DEF IInv, ServiceBeforeStatefulSet
<1>3. StatusInv'
  BY DEF StatusInv, Current
<1>4. VersionInv'
  BY DEF VersionInv
<1>5. QED
  BY <1>1, <1>2, <1>3, <1>4 DEF IInv

\* SetPhaseOnError changes the phase only.
LEMMA ClosingFacts ==
  ASSUME TypeOK
  PROVE  /\ Closing \in Status /\ Closing.oa = run.status.oa
         /\ Closing.probe = run.status.probe
<1>1. run.status \in Status
  BY NumberTypes
<1>2. CASE Closing = run.status
  BY <1>1, <1>2
<1>3. CASE Closing = [run.status EXCEPT !.phase = "Error"]
  BY <1>1, <1>3 DEF Status
<1>4. QED
  BY <1>2, <1>3 DEF Closing

\* What is not stored was not changed.
LEMMA UpdateStep ==
  ASSUME IInv, UpdateCR
  PROVE  IInv'
<1> USE DEF IInv
<1> DEFINE stored == cr.status.oa.version
           ours == run.status.oa.version
<1>1. /\ run.at = "persist" /\ End(run.failed) /\ Works /\ UNCHANGED lost
      /\ \/ /\ run.fresh /\ cr' = [cr EXCEPT !.status = Closing] /\ synced' = FALSE
            /\ unstored' = {v \in unstored : v > ours}
         \/ ~MustStore /\ UNCHANGED <<cr, synced, unstored>>
  BY DEF UpdateCR
<1>2. run.failed \in {"no", "error", "throttled"} /\ run.updated \in BOOLEAN
  BY RunFacts DEF TypeOK
<1>3. /\ run' \in Runs /\ run'.at = "idle"
      /\ failures' \in 0..QuickRetries /\ wait' \in Nat
      /\ UNCHANGED <<cache, objs, view, misled, ext, asked, edits>>
  BY <1>1, <1>2, EndEffect
<1>4. faults' \in 0..MaxFaults
  BY <1>1, FaultTypes
<1>5. /\ Closing \in Status /\ Closing.oa = run.status.oa
      /\ Closing.probe = run.status.probe
  BY ClosingFacts
<1>6. Current = run.status
  BY <1>1 DEF Current
<1>7. /\ cache.status.oa.version <= stored
      /\ run.fresh => stored <= ours
      /\ ~run.updated => ours <= stored
      /\ \A f \in Features : objs[<<"ds", f>>] # Absent =>
           \/ objs[<<"ds", f>>].version \in unstored
           \/ objs[<<"ds", f>>].version <= stored
           \/ objs[<<"ds", f>>].version = ours
  BY <1>1, VersionFacts DEF Known
<1>8. /\ stored \in Nat /\ ours \in Nat /\ cache.status.oa.version \in Nat
      /\ \A f \in Features : objs[<<"ds", f>>] # Absent => objs[<<"ds", f>>].version \in Nat
  BY NumberTypes
<1>9. CASE /\ run.fresh /\ cr' = [cr EXCEPT !.status = Closing] /\ synced' = FALSE
           /\ unstored' = {v \in unstored : v > ours}
  <2>1. cr' \in [spec : Specs, status : Status] /\ cr'.status = Closing
    BY <1>5, <1>9 DEF TypeOK
  <2>2. unstored' \in SUBSET Versions
    BY <1>9 DEF TypeOK
  <2>3. TypeOK'
    BY <1>1, <1>3, <1>4, <1>9, <2>1, <2>2 DEF TypeOK
  <2>4. cr'.status.oa.version = ours
    BY <1>5, <2>1
  <2>5. cache'.status.oa.version <= cr'.status.oa.version
    BY <1>3, <1>7, <1>8, <1>9, <2>4
  <2>6. ASSUME NEW f \in Features, objs[<<"ds", f>>] # Absent
        PROVE  \/ objs[<<"ds", f>>].version \in unstored'
               \/ objs[<<"ds", f>>].version <= cr'.status.oa.version
    <3> DEFINE v == objs[<<"ds", f>>].version
    <3>1. v \in Nat /\ (v \in unstored \/ v <= stored \/ v = ours)
      BY <1>7, <1>8, <2>6
    <3> HIDE DEF v
    <3>2. v \in unstored' \/ v <= ours
      BY <1>7, <1>8, <1>9, <3>1
    <3>3. QED
      BY <2>4, <3>2 DEF v
  <2>7. ~lost' => \A t \in Tokens : cr'.status.probe[t] <= asked'[t]
    BY <1>1, <1>3, <1>5, <1>6, <2>1 DEF StatusInv
  <2>8. QED
    BY <1>3, <1>9, <2>3, <2>5, <2>6, <2>7, IdleStep
<1>10. CASE ~MustStore /\ UNCHANGED <<cr, synced, unstored>>
  <2>1. TypeOK'
    BY <1>1, <1>3, <1>4, <1>10 DEF TypeOK
  <2>2. ~run.updated
    BY <1>10 DEF MustStore
  <2>3. ~lost' => \A t \in Tokens : cr'.status.probe[t] <= asked'[t]
    BY <1>1, <1>3, <1>6, <1>10, <2>2 DEF StatusInv
  <2>4. \A f \in Features : objs[<<"ds", f>>] # Absent =>
          \/ objs[<<"ds", f>>].version \in unstored'
          \/ objs[<<"ds", f>>].version <= cr'.status.oa.version
    BY <1>7, <1>10, <2>2
  <2>5. QED
    BY <1>3, <1>7, <1>10, <2>1, <2>3, <2>4, IdleStep
<1>11. QED
  BY <1>1, <1>9, <1>10

\* A version that is not stored is recorded as such.
LEMMA LoseEffect ==
  ASSUME IInv, run.at # "idle", LoseStatus
  PROVE  /\ lost' = TRUE /\ unstored' \in SUBSET Versions
         /\ \A f \in Features : objs[<<"ds", f>>] # Absent =>
              \/ objs[<<"ds", f>>].version \in unstored'
              \/ objs[<<"ds", f>>].version <= cr.status.oa.version
<1> DEFINE stored == cr.status.oa.version
           ours == run.status.oa.version
<1>1. /\ lost' = TRUE
      /\ unstored' = unstored \cup {v \in {ours} : v > stored}
  BY DEF LoseStatus
<1>2. stored \in Nat /\ ours \in Nat /\ ours \in Versions /\ unstored \in SUBSET Versions
  BY NumberTypes DEF IInv, TypeOK
<1>3. unstored \subseteq unstored' /\ (ours \in unstored' \/ ours <= stored)
      /\ unstored' \in SUBSET Versions
  BY <1>1, <1>2
<1>4. \A f \in Features : objs[<<"ds", f>>] # Absent =>
        \/ objs[<<"ds", f>>].version \in unstored
        \/ objs[<<"ds", f>>].version <= stored
        \/ objs[<<"ds", f>>].version = ours
  BY VersionFacts DEF IInv, Known
<1> HIDE DEF stored, ours
<1>5. \A f \in Features : objs[<<"ds", f>>] # Absent =>
        \/ objs[<<"ds", f>>].version \in unstored'
        \/ objs[<<"ds", f>>].version <= stored
  BY <1>3, <1>4
<1>6. QED
  BY <1>1, <1>3, <1>5 DEF stored

\* A status that is not stored is lost.
LEMMA LostStep ==
  ASSUME IInv, UpdateCRConflict \/ UpdateCRFails \/ Crash
  PROVE  IInv'
<1> USE DEF IInv
<1>1. run.at # "idle" /\ LoseStatus
  BY DEF UpdateCRConflict, UpdateCRFails, Crash
<1>2. /\ lost' = TRUE /\ unstored' \in SUBSET Versions
      /\ \A f \in Features : objs[<<"ds", f>>] # Absent =>
           \/ objs[<<"ds", f>>].version \in unstored'
           \/ objs[<<"ds", f>>].version <= cr.status.oa.version
  BY <1>1, LoseEffect
<1>3. /\ cache.status.oa.version <= cr.status.oa.version
      /\ cr.status.oa.version <= cr.status.oa.version
  <2>1. cr.status.oa.version \in Nat
    BY NumberTypes
  <2>2. QED
    BY <2>1, VersionFacts
<1>4. CASE UpdateCRConflict \/ UpdateCRFails
  <2>1. run.failed \in {"no", "error", "throttled"}
    BY RunFacts DEF TypeOK
  <2>2. /\ (Works \/ Fails) /\ UNCHANGED <<cr, synced>>
        /\ End(run.failed) \/ End("error")
    BY <1>4 DEF UpdateCRConflict, UpdateCRFails
  <2>3. /\ run' \in Runs /\ run'.at = "idle"
        /\ failures' \in 0..QuickRetries /\ wait' \in Nat
        /\ UNCHANGED <<cache, objs, view, misled, ext, asked, edits>>
    BY <2>1, <2>2, EndEffect
  <2>4. faults' \in 0..MaxFaults
    BY <2>2, FaultTypes
  <2>5. TypeOK'
    BY <1>2, <2>2, <2>3, <2>4 DEF TypeOK
  <2>6. QED
    BY <1>2, <1>3, <2>2, <2>3, <2>5, IdleStep
<1>5. CASE Crash
  <2>1. /\ run' = Idle(run.spec) /\ cache' = cr /\ synced' = TRUE /\ view' = objs
        /\ wait' = 0 /\ failures' = 0 /\ Fails
        /\ UNCHANGED <<cr, objs, misled, ext, asked, edits>>
    BY <1>5 DEF Crash
  <2>2. run' \in Runs /\ run'.at = "idle"
    BY <2>1, NumberTypes, IdleEffect
  <2>3. faults' \in 0..MaxFaults /\ wait' \in Nat /\ failures' \in 0..QuickRetries
    BY <2>1, FaultTypes, ConstFacts
  <2>4. TypeOK'
    BY <1>2, <2>1, <2>2, <2>3 DEF TypeOK
  <2>5. QED
    BY <1>2, <1>3, <2>1, <2>2, <2>4, IdleStep
<1>6. QED
  BY <1>4, <1>5

\* The informer catches up, the externals change.
LEMMA SurroundingsStep ==
  ASSUME IInv, Sync \/ EditExternals
  PROVE  IInv'
<1> USE DEF IInv
<1>1. /\ UNCHANGED <<cr, objs, view, misled, run, asked, lost, unstored, failures, faults>>
      /\ ext' \in Externals /\ wait' \in Nat /\ edits' \in 0..MaxEdits
      /\ \/ UNCHANGED <<cache, synced>>
         \/ cache' = cr /\ synced' = TRUE
  BY ConstFacts DEF Sync, EditExternals, TypeOK, objects, losses
<1>2. TypeOK'
  BY <1>1 DEF TypeOK
<1>3. UnitInv' /\ ServiceInv' /\ (synced' => cache' = cr')
  BY <1>1 DEF UnitInv, ServiceInv, unit, enabled
<1>4. ServiceBeforeStatefulSet' /\ StatusInv'
  BY <1>1 DEF ServiceBeforeStatefulSet, StatusInv, Current
<1>5. VersionInv'
  <2>1. cr.status.oa.version <= cr.status.oa.version
    BY NumberTypes
  <2>2. QED
    BY <1>1, <2>1 DEF VersionInv
<1>6. QED
  BY <1>2, <1>3, <1>4, <1>5

\* An edit of the spec touches neither the status nor what the run works from.
LEMMA EditEffect ==
  ASSUME TypeOK, EditSpec
  PROVE  /\ cr' \in [spec : Specs, status : Status] /\ cr'.status = cr.status
         /\ synced' = FALSE /\ edits' \in 0..MaxEdits
         /\ run' \in Runs
         /\ run'.at = run.at /\ run'.unit = run.unit /\ run'.part = run.part
         /\ run'.spec = run.spec /\ run'.status = run.status
         /\ (run'.updated <=> run.updated) /\ (run'.fresh => run.at = "idle")
         /\ UNCHANGED <<cache, objs, view, misled, ext, asked, lost, unstored, wait,
                        failures, faults>>
<1> DEFINE b == run.at = "idle"
<1>1. /\ edits' = edits + 1 /\ edits < MaxEdits /\ synced' = FALSE
      /\ run' = [run EXCEPT !.fresh = b]
      /\ UNCHANGED <<cache, objs, view, misled, ext, asked, lost, unstored, wait,
                     failures, faults>>
  BY DEF EditSpec, objects, losses
<1>2. b \in BOOLEAN
  OBVIOUS
<1> HIDE DEF b
<1>3. PICK s \in Specs : cr' = [cr EXCEPT !.spec = s]
  BY DEF EditSpec
<1>4. cr' \in [spec : Specs, status : Status] /\ cr'.status = cr.status
  BY <1>3 DEF TypeOK
<1>5. /\ run' \in Runs /\ run'.at = run.at /\ run'.unit = run.unit
      /\ run'.part = run.part /\ run'.spec = run.spec /\ run'.status = run.status
      /\ (run'.updated <=> run.updated) /\ (run'.fresh <=> b)
  BY <1>1, <1>2 DEF TypeOK, Runs
<1>6. edits' \in 0..MaxEdits
  BY <1>1, ConstFacts DEF TypeOK
<1>7. QED
  BY <1>1, <1>4, <1>5, <1>6 DEF b

\* An edit of the spec by a user leaves the invariant alone.
LEMMA EditStep ==
  ASSUME IInv, EditSpec
  PROVE  IInv'
<1> USE DEF IInv
<1>1. /\ cr' \in [spec : Specs, status : Status] /\ cr'.status = cr.status
      /\ synced' = FALSE /\ edits' \in 0..MaxEdits
      /\ run' \in Runs
      /\ run'.at = run.at /\ run'.unit = run.unit /\ run'.part = run.part
      /\ run'.spec = run.spec /\ run'.status = run.status
      /\ (run'.updated <=> run.updated) /\ (run'.fresh => run.at = "idle")
      /\ UNCHANGED <<cache, objs, view, misled, ext, asked, lost, unstored, wait,
                     failures, faults>>
  BY EditEffect
<1>2. TypeOK'
  BY <1>1 DEF TypeOK
<1>3. UnitInv' /\ ServiceInv' /\ (synced' => cache' = cr')
  BY <1>1 DEF UnitInv, ServiceInv, unit, enabled
<1>4. ServiceBeforeStatefulSet' /\ StatusInv' /\ VersionInv'
  BY <1>1 DEF ServiceBeforeStatefulSet, StatusInv, VersionInv, Current
<1>5. QED
  BY <1>2, <1>3, <1>4

\* Stored times and the history of probes age alike.
LEMMA TickStep ==
  ASSUME IInv, Tick
  PROVE  IInv'
<1> USE DEF IInv
<1>1. /\ run.at = "idle" /\ synced /\ wait > 0 /\ wait' = wait - 1
      /\ cr' = [cr EXCEPT !.status = Aged(cr.status)]
      /\ cache' = [cache EXCEPT !.status = Aged(cache.status)]
      /\ asked' = [t \in Tokens |-> Older(asked[t], TokenWait)]
      /\ view' = objs
      /\ UNCHANGED <<synced, objs, misled, ext, run, lost, unstored, failures, edits,
                     faults>>
  BY DEF Tick, losses
<1>2. /\ Aged(cr.status) \in Status /\ Aged(cache.status) \in Status
      /\ Aged(cr.status).oa.version = cr.status.oa.version
      /\ \A t \in Tokens : Aged(cr.status).probe[t] = Older(cr.status.probe[t], TokenWait)
  BY NumberTypes, AgedEffect
<1>3. /\ cr' \in [spec : Specs, status : Status] /\ cr'.status = Aged(cr.status)
      /\ cache' \in [spec : Specs, status : Status]
  BY <1>1, <1>2 DEF TypeOK
<1>4. asked' \in [Tokens -> 0..TokenWait] /\ wait' \in Nat
  BY <1>1, NumberTypes, OlderEffect, ConstFacts DEF TypeOK
<1>5. TypeOK'
  BY <1>1, <1>3, <1>4 DEF TypeOK
<1>6. cache' = cr'
  BY <1>1
<1>7. ASSUME ~lost', NEW t \in Tokens PROVE cr'.status.probe[t] <= asked'[t]
  <2>1. ~lost /\ Current = cr.status
    BY <1>1, <1>7 DEF Current
  <2>2. cr.status.probe[t] <= asked[t]
    BY <2>1 DEF StatusInv
  <2>3. Older(cr.status.probe[t], TokenWait) <= Older(asked[t], TokenWait)
    BY <2>2, NumberTypes, OlderEffect, ConstFacts
  <2>4. QED
    BY <1>1, <1>2, <1>3, <2>3
<1>8. /\ cr'.status.oa.version = cr.status.oa.version
      /\ cache'.status.oa.version <= cr'.status.oa.version
  BY <1>2, <1>3, <1>6, NumberTypes
<1>9. \A f \in Features : objs[<<"ds", f>>] # Absent =>
        \/ objs[<<"ds", f>>].version \in unstored'
        \/ objs[<<"ds", f>>].version <= cr'.status.oa.version
  BY <1>1, <1>8, VersionFacts DEF Known
<1>10. QED
  BY <1>1, <1>5, <1>6, <1>7, <1>8, <1>9, IdleStep

\* A DynaKube that was just created, and an operator that owns nothing yet.
LEMMA InitIInv == Init => IInv
<1> SUFFICES ASSUME Init PROVE IInv
  OBVIOUS
<1>1. PICK s \in Specs : cr = [spec |-> s, status |-> NewStatus] /\ run = Idle(s)
  BY DEF Init
<1>2. /\ run \in Runs /\ run.at = "idle" /\ cr.status = NewStatus
      /\ cr \in [spec : Specs, status : Status]
  BY <1>1, IdleEffect, NewStatusType
<1>3. DOMAIN objs = Objects /\ \A o \in Objects : objs[o] = Absent
  BY DEF Init
<1>4. \A o \in Objects : objs[o] \in Contents(o)
  BY <1>3 DEF Contents
<1>5. /\ asked \in [Tokens -> 0..TokenWait]
      /\ \A t \in Tokens : cr.status.probe[t] <= asked[t]
  <2>1. \A t \in Tokens : asked[t] = TokenWait /\ NewStatus.probe[t] = TokenWait
    BY DEF Init, NewStatus
  <2>2. TokenWait \in 0..TokenWait /\ TokenWait <= TokenWait
    BY ConstFacts
  <2>3. asked \in [Tokens -> 0..TokenWait]
    BY <2>2 DEF Init
  <2>4. QED
    BY <1>2, <2>1, <2>2, <2>3
<1>6. /\ cache = cr /\ synced = TRUE /\ ext \in Externals /\ lost = FALSE
      /\ view = objs /\ misled = {} /\ unstored = {}
      /\ wait = 0 /\ failures = 0 /\ edits = 0 /\ faults = 0
  BY DEF Init
<1>7. wait \in Nat /\ failures \in 0..QuickRetries /\ edits \in 0..MaxEdits
      /\ faults \in 0..MaxFaults
  BY <1>6, ConstFacts
<1>8. TypeOK
  BY <1>2, <1>3, <1>4, <1>5, <1>6, <1>7 DEF TypeOK
<1>9. UnitInv /\ ServiceInv
  BY <1>2 DEF UnitInv, ServiceInv
<1>10. ServiceBeforeStatefulSet
  BY <1>3, ObjectFacts DEF ServiceBeforeStatefulSet
<1>11. StatusInv
  BY <1>2, <1>3, <1>5, ObjectFacts DEF StatusInv, Current
<1>12. VersionInv
  <2>1. cr.status.oa.version <= cr.status.oa.version
    BY <1>8, NumberTypes
  <2>2. \A f \in Features : objs[<<"ds", f>>] = Absent
    BY <1>3, ObjectFacts
  <2>3. QED
    BY <1>2, <1>6, <2>1, <2>2 DEF VersionInv
<1>13. QED
  BY <1>6, <1>8, <1>9, <1>10, <1>11, <1>12 DEF IInv

\* Next, grouped by the lemmas that deal with its steps.
LEMMA NextCases ==
  Next <=> \/ Start \/ Middle
           \/ UpdateCR \/ UpdateCRConflict \/ UpdateCRFails \/ Crash
           \/ Sync \/ EditExternals \/ EditSpec \/ Tick
BY DEF Next, Reconcile, Middle

\* IInv is inductive.
LEMMA NextIInv == IInv /\ [Next]_vars => IInv'
<1> SUFFICES ASSUME IInv, [Next]_vars PROVE IInv'
  OBVIOUS
<1>1. CASE Start
  BY <1>1, StartStep
<1>2. CASE Middle
  BY <1>2, MiddleSound, MiddleStep
<1>3. CASE UpdateCR
  BY <1>3, UpdateStep
<1>4. CASE UpdateCRConflict \/ UpdateCRFails \/ Crash
  BY <1>4, LostStep
<1>5. CASE Sync \/ EditExternals
  BY <1>5, SurroundingsStep
<1>6. CASE EditSpec
  BY <1>6, EditStep
<1>7. CASE Tick
  BY <1>7, TickStep
<1>8. CASE UNCHANGED vars
  BY <1>8 DEF vars, objects, losses, IInv, TypeOK, UnitInv, ServiceBeforeStatefulSet,
              ServiceInv, StatusInv, VersionInv, Current, unit, enabled
<1>9. QED
  BY <1>1, <1>2, <1>3, <1>4, <1>5, <1>6, <1>7, <1>8, NextCases

-----------------------------------------------------------------------------
(* The theorems.                                                           *)

\* The conjuncts of IInv hold in every reachable state: runs go through their
\* stages in order, an up-to-date cache equals the DynaKube, the Service of a
\* capability is there whenever its StatefulSet is or is about to be, or was
\* taken to be there, unless a status was lost the current one knows all probes,
\* and every version of a DaemonSet is stored, about to be, or was not stored.
THEOREM Inductive == Spec => []IInv
BY InitIInv, NextIInv, PTL DEF Spec

\* Every object, stored status and run has its type in every reachable state.
THEOREM TypeCorrect == Spec => []TypeOK
<1>1. IInv => TypeOK
  BY DEF IInv
<1>2. QED
  BY <1>1, Inductive, PTL

\* No StatefulSet of a capability with a Service exists without that Service,
\* wherever a request fails or the operator crashes, unless the informer showed
\* a Service that was deleted.
THEOREM ServiceFirst == Spec => []ServiceBeforeStatefulSet
<1>1. IInv => ServiceBeforeStatefulSet
  BY DEF IInv
<1>2. QED
  BY <1>1, Inductive, PTL

\* Only steps in the middle of a run touch the objects.
LEMMA ObjectsStay ==
  ASSUME [Next]_vars, ~Middle
  PROVE  UNCHANGED objs
<1>1. CASE Start \/ Crash \/ Sync \/ EditExternals \/ EditSpec \/ Tick
  BY <1>1 DEF Start, Crash, Sync, EditExternals, EditSpec, Tick, objects
<1>2. CASE UpdateCR \/ UpdateCRConflict \/ UpdateCRFails
  BY <1>2 DEF UpdateCR, UpdateCRConflict, UpdateCRFails, End, objects
<1>3. CASE UNCHANGED vars
  BY <1>3 DEF vars, objects
<1>4. QED
  BY <1>1, <1>2, <1>3, NextCases

\* A DaemonSet never goes back from a version, unless the status that recorded
\* the version was never stored, or the run read a status from before it was.
THEOREM NeverDowngraded == Spec => NoDowngrade
<1> DEFINE Down ==
      \A f \in Features :
        LET o == <<"ds", f>>
        IN  objs[o] # Absent /\ objs'[o] # Absent /\ objs'[o].version < objs[o].version
              => \/ objs[o].version \in unstored
                 \/ ~run.fresh /\ run.status.oa.version < cr.status.oa.version
<1>1. IInv /\ [Next]_vars => Down
  <2> SUFFICES ASSUME IInv, [Next]_vars, NEW f \in Features,
                      objs[<<"ds", f>>] # Absent, objs'[<<"ds", f>>] # Absent,
                      objs'[<<"ds", f>>].version < objs[<<"ds", f>>].version,
                      objs[<<"ds", f>>].version \notin unstored
               PROVE  ~run.fresh /\ run.status.oa.version < cr.status.oa.version
    OBVIOUS
  <2>1. /\ objs[<<"ds", f>>].version \in Nat /\ run.status.oa.version \in Nat
        /\ cr.status.oa.version \in Nat
    BY NumberTypes DEF IInv
  <2>2. ~(objs[<<"ds", f>>].version < objs[<<"ds", f>>].version)
    BY <2>1
  <2>3. objs'[<<"ds", f>>] # objs[<<"ds", f>>]
    BY <2>2
  <2>4. Sound
    BY <2>3, ObjectsStay, MiddleSound
  <2>5. run.at # "idle" /\ objs'[<<"ds", f>>].version = run.status.oa.version
    BY <2>3, <2>4 DEF Sound, Proceeds
  <2>6. objs[<<"ds", f>>].version <= cr.status.oa.version
    BY <2>1, <2>5, VersionFacts DEF IInv, Known
  <2>7. run.status.oa.version < cr.status.oa.version
    BY <2>1, <2>5, <2>6
  <2>8. run.fresh => cr.status.oa.version <= run.status.oa.version
    BY <2>5, VersionFacts DEF IInv
  <2>9. QED
    BY <2>1, <2>7, <2>8
<1>2. QED
  BY <1>1, Inductive, PTL DEF Spec, NoDowngrade

\* Unless a status was lost, Dynatrace is asked about a token only when it was
\* not asked for TokenWait ticks.
THEOREM SpacedProbes == Spec => ProbesAreSpaced
<1> DEFINE Spaced == \A t \in Tokens : Asks(t) => (asked[t] >= TokenWait \/ lost)
<1>1. IInv => Spaced
  <2> SUFFICES ASSUME IInv, NEW t \in Tokens, Asks(t), ~lost
               PROVE  asked[t] >= TokenWait
    OBVIOUS
  <2>1. run.at = "tokens" /\ run.status.probe[t] >= TokenWait
    BY DEF Asks, Due
  <2>2. run.status.probe[t] <= asked[t]
    BY <2>1 DEF IInv, StatusInv, Current
  <2>3. run.status.probe[t] \in Nat /\ asked[t] \in Nat
    BY NumberTypes DEF IInv
  <2>4. QED
    BY <2>1, <2>2, <2>3, ConstFacts
<1>2. QED
  BY <1>1, Inductive, PTL DEF Spec, ProbesAreSpaced

-----------------------------------------------------------------------------
(* The refinement: want is cr.spec, mirror is cache.spec, seen is          *)
(* run.spec, have is objs and shown is view.                               *)

\* Initially the three copies of the spec agree and nothing is there.
LEMMA RefinesInit == Init => Controller!Init
<1> SUFFICES ASSUME Init PROVE Controller!Init
  OBVIOUS
<1>1. PICK s \in Specs : cr = [spec |-> s, status |-> NewStatus] /\ run = Idle(s)
  BY DEF Init
<1>2. cr.spec = s /\ run.spec = s /\ cache = cr
  BY <1>1, IdleEffect DEF Init
<1>3. QED
  BY <1>2 DEF Init, Controller!Init

\* A step in the middle of a run applies or discards one object, or none.
LEMMA RefinesMiddle ==
  ASSUME IInv, Middle
  PROVE  [Controller!Next]_Controller!vars
<1>1. /\ Lawful /\ cr' = cr /\ cache' = cache /\ run'.spec = run.spec
  BY MiddleSound DEF Sound, Proceeds
<1>2. Controller!Lag
  BY MiddleSound DEF Sound, Viewed, Controller!Lag
<1>3. CASE UNCHANGED objs
  <2>1. Controller!Show
    BY <1>1, <1>2, <1>3 DEF Controller!Show
  <2>2. QED
    BY <2>1 DEF Controller!Next
<1>4. CASE \E o \in Objects : \E c \in Allowed(run.spec, o) : Change(o, c)
  <2>1. PICK o \in Objects : \E c \in Allowed(run.spec, o) : Change(o, c)
    BY <1>4
  <2>2. Controller!Apply(o)
    BY <1>1, <1>2, <2>1 DEF Controller!Apply, Change
  <2>3. QED
    BY <2>2 DEF Controller!Next
<1>5. CASE \E o \in Objects : /\ Allowed(run.spec, o) # {}
                              /\ ~({objs[o], view[o]} \subseteq Allowed(run.spec, o))
                              /\ Change(o, Absent)
  <2>1. PICK o \in Objects : /\ Allowed(run.spec, o) # {}
                             /\ ~({objs[o], view[o]} \subseteq Allowed(run.spec, o))
                             /\ Change(o, Absent)
    BY <1>5
  <2>2. Controller!Discard(o)
    BY <1>1, <1>2, <2>1 DEF Controller!Discard, Change
  <2>3. QED
    BY <2>2 DEF Controller!Next
<1>6. QED
  BY <1>1, <1>3, <1>4, <1>5 DEF Lawful

\* Every step is a step of LevelTriggered or leaves its variables alone.
LEMMA RefinesNext == IInv /\ [Next]_vars => [Controller!Next]_Controller!vars
<1> SUFFICES ASSUME IInv, [Next]_vars PROVE [Controller!Next]_Controller!vars
  OBVIOUS
<1>1. TypeOK
  BY DEF IInv
<1>2. CASE Start
  <2>1. run'.spec = cache.spec /\ UNCHANGED <<cr, cache, objs, view>>
    BY <1>1, <1>2, StartEffect
  <2>2. Controller!Observe
    BY <2>1 DEF Controller!Observe
  <2>3. QED
    BY <2>2 DEF Controller!Next
<1>3. CASE Middle
  BY <1>3, RefinesMiddle
<1>4. CASE UpdateCR \/ UpdateCRConflict \/ UpdateCRFails
  <2>1. /\ End(run.failed) \/ End("error")
        /\ cr' = cr \/ cr' = [cr EXCEPT !.status = Closing]
    BY <1>4 DEF UpdateCR, UpdateCRConflict, UpdateCRFails
  <2>2. run.failed \in {"no", "error", "throttled"}
    BY <1>1, RunFacts DEF TypeOK
  <2>3. run'.spec = run.spec /\ UNCHANGED <<cache, objs, view>>
    BY <1>1, <2>1, <2>2, EndEffect
  <2>4. cr'.spec = cr.spec
    BY <1>1, <2>1 DEF TypeOK
  <2>5. QED
    BY <2>3, <2>4 DEF Controller!vars
<1>5. CASE Crash \/ Sync
  <2>1. /\ cache' = cr /\ cr' = cr /\ objs' = objs /\ (view' = objs \/ view' = view)
        /\ run' = Idle(run.spec) \/ run' = run
    BY <1>5 DEF Crash, Sync, objects
  <2>2. run'.spec = run.spec
    BY <1>1, <2>1, NumberTypes, IdleEffect
  <2>3. Controller!Lag
    BY <1>1, <2>1 DEF Controller!Lag, TypeOK
  <2>4. Controller!Sync
    BY <2>1, <2>2, <2>3 DEF Controller!Sync
  <2>5. QED
    BY <2>4 DEF Controller!Next
<1>6. CASE EditSpec
  <2>1. /\ cr' \in [spec : Specs, status : Status] /\ run'.spec = run.spec
        /\ UNCHANGED <<cache, objs, view>>
    BY <1>1, <1>6, EditEffect
  <2>2. Controller!Edit
    BY <2>1 DEF Controller!Edit
  <2>3. QED
    BY <2>2 DEF Controller!Next
<1>7. CASE EditExternals
  BY <1>7 DEF EditExternals, objects, Controller!vars
<1>8. CASE Tick
  <2>1. /\ cr' = [cr EXCEPT !.status = Aged(cr.status)]
        /\ cache' = [cache EXCEPT !.status = Aged(cache.status)]
        /\ view' = objs /\ UNCHANGED <<run, objs>>
    BY <1>8 DEF Tick
  <2>2. cr'.spec = cr.spec /\ cache'.spec = cache.spec
    BY <1>1, <2>1 DEF TypeOK
  <2>3. Controller!Lag
    BY <1>1, <2>1 DEF Controller!Lag, TypeOK
  <2>4. Controller!Show
    BY <2>1, <2>2, <2>3 DEF Controller!Show
  <2>5. QED
    BY <2>4 DEF Controller!Next
<1>9. CASE UNCHANGED vars
  BY <1>9 DEF vars, objects, Controller!vars
<1>10. QED
  BY <1>2, <1>3, <1>4, <1>5, <1>6, <1>7, <1>8, <1>9, NextCases

\* The DynaKube controller implements LevelTriggered: whatever fails, and
\* however stale the spec and the objects it works from, each object only becomes
\* what that spec allows, and no object that is, and is seen to be, right already
\* is taken away.
THEOREM Refinement == Spec => RefinesLevelTriggered
BY RefinesInit, RefinesNext, Inductive, PTL
   DEF Spec, RefinesLevelTriggered, Controller!Spec

=============================================================================
