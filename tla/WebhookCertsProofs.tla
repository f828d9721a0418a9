------------------------- MODULE WebhookCertsProofs -------------------------
(***************************************************************************)
(* Proofs that IInv is an inductive invariant of WebhookCerts and that it  *)
(* implies the safety properties, for every value of the periods and the   *)
(* lifetimes that satisfies the assumptions of WebhookCerts.               *)
(***************************************************************************)
EXTENDS WebhookCerts, TLAPS

-----------------------------------------------------------------------------
(* What the renewal operators return.                                      *)

\* generateServerCerts leaves the roots alone and makes a matching pair that
\* the current root signed.
LEMMA ServerCertsGenerated ==
    ASSUME NEW d \in Data, now \in Nat, serial \in Nat
    PROVE  /\ generateServerCerts(d) \in Data
           /\ generateServerCerts(d).caCrt = d.caCrt
           /\ generateServerCerts(d).caOld = d.caOld
           /\ generateServerCerts(d).caKey = d.caKey
           /\ generateServerCerts(d).tlsKey = serial + 2
           /\ generateServerCerts(d).tlsCrt.id = serial + 2
           /\ generateServerCerts(d).tlsCrt.issuer = d.caCrt.id
           /\ generateServerCerts(d).tlsCrt.notAfter = now + ServerValidity
<1>1. [id |-> serial + 2, issuer |-> d.caCrt.id,
       notAfter |-> now + ServerValidity] \in Cert
  BY PeriodsAssumption DEF Cert, Data, Root
<1>2. serial + 2 \in Nat
  OBVIOUS
<1>3. generateServerCerts(d) \in Data
  BY <1>1, <1>2 DEF generateServerCerts, Data
<1>4. QED
  BY <1>3 DEF generateServerCerts, Data

\* generateRootCerts keeps the root it replaces as ca.crt.old.
LEMMA RootCertsGenerated ==
    ASSUME NEW d \in Data, now \in Nat, serial \in Nat
    PROVE  /\ generateRootCerts(d) \in Data
           /\ generateRootCerts(d).caCrt.id = serial + 1
           /\ generateRootCerts(d).caCrt.notAfter = now + RootValidity
           /\ generateRootCerts(d).caOld = d.caCrt
           /\ generateRootCerts(d).caKey = serial + 1
           /\ generateRootCerts(d).tlsCrt = d.tlsCrt
           /\ generateRootCerts(d).tlsKey = d.tlsKey
<1>1. [id |-> serial + 1, notAfter |-> now + RootValidity] \in Root
  BY PeriodsAssumption DEF Root
<1>2. serial + 1 \in Nat
  OBVIOUS
<1>3. generateRootCerts(d) \in Data
  BY <1>1, <1>2 DEF generateRootCerts, Data
<1>4. QED
  BY <1>3 DEF generateRootCerts, Data

\* Complete entries that are not about to expire.
Complete(e) ==
    /\ e.caKey # 0 /\ e.caCrt.id # 0 /\ e.tlsKey # 0 /\ e.tlsCrt.id # 0
    /\ now + RenewalThreshold <= e.caCrt.notAfter
    /\ now + RenewalThreshold <= e.tlsCrt.notAfter

\* The server certificate of e was signed by the root of e just now.
NewlySigned(e) ==
    /\ e.tlsCrt.issuer = e.caCrt.id
    /\ e.tlsCrt.notAfter = now + ServerValidity

\* The root of d was replaced because it could not be used any longer.
RolledOver(d, e) ==
    /\ validateRootCerts(d)
    /\ e.caOld = d.caCrt
    /\ e.caCrt.notAfter = now + RootValidity
    /\ NewlySigned(e)

\* The root of d was kept, and its server certificate kept or signed anew.
RootKept(d, e) ==
    /\ e.caCrt = d.caCrt /\ e.caOld = d.caOld
    /\ e.tlsCrt = d.tlsCrt \/ NewlySigned(e)

\* What ValidateCerts returns: complete entries, with the root kept or rolled
\* over.
LEMMA ValidateCertsResult ==
    ASSUME NEW d \in Data, now \in Nat, serial \in Nat
    PROVE  /\ ValidateCerts(d) \in Data
           /\ Complete(ValidateCerts(d))
           /\ RootKept(d, ValidateCerts(d)) \/ RolledOver(d, ValidateCerts(d))
<1>1. CASE validateRootCerts(d)
  <2> DEFINE d1 == generateRootCerts(d)
  <2>1. ValidateCerts(d) = generateServerCerts(d1)
    BY <1>1 DEF ValidateCerts
  <2>2. d1 \in Data
    BY RootCertsGenerated
  <2>3. QED
    BY <1>1, <2>1, <2>2, RootCertsGenerated, ServerCertsGenerated,
       PeriodsAssumption, LifetimesAssumption
       DEF Complete, RolledOver, NewlySigned
<1>2. CASE ~validateRootCerts(d) /\ validateServerCerts(d)
  <2>1. ValidateCerts(d) = generateServerCerts(d)
    BY <1>2 DEF ValidateCerts
  <2>2. QED
    BY <1>2, <2>1, ServerCertsGenerated, PeriodsAssumption,
       LifetimesAssumption
       DEF Complete, RootKept, NewlySigned, validateRootCerts, AboutToExpire,
           Data, Root
<1>3. CASE ~validateRootCerts(d) /\ ~validateServerCerts(d)
  <2>1. ValidateCerts(d) = d
    BY <1>3 DEF ValidateCerts
  <2>2. QED
    BY <1>3, <2>1, PeriodsAssumption
       DEF Complete, RootKept, validateRootCerts, validateServerCerts,
           AboutToExpire, Data, Root, Cert
<1>4. QED
  BY <1>1, <1>2, <1>3

-----------------------------------------------------------------------------
(* Type correctness.                                                       *)

\* The absent entries are values of their types.
LEMMA EmptyTypes ==
    NoRoot \in Root /\ NoCert \in Cert /\ NoData \in Data /\ NoBundle \in Bundle
<1>1. NoRoot \in Root /\ NoCert \in Cert
  BY DEF NoRoot, NoCert, Root, Cert
<1>2. QED
  BY <1>1 DEF NoData, NoBundle, Data, Bundle

\* Editing the Secret by hand leaves a Secret.
LEMMA EditedType ==
    ASSUME NEW d \in Data
    PROVE  Edited(d) \subseteq Data
BY EmptyTypes DEF Edited, Data

\* Every run of UpdateCertificate leaves values of the right types on disk.
LEMMA ChoicesTypes ==
    TypeOK => CrtChoices \subseteq Cert /\ KeyChoices \subseteq Nat
BY EmptyTypes DEF TypeOK, CrtChoices, KeyChoices, Data

\* Every step of the system keeps the variables within their types.
LEMMA TypeStep == TypeOK /\ [Next]_vars => TypeOK'
<1> SUFFICES ASSUME TypeOK, [Next]_vars
             PROVE  TypeOK'
  OBVIOUS
<1> USE PeriodsAssumption, EmptyTypes
<1>1. CASE reconcileCerts
  <2>1. secret' \in Data
    BY <1>1, ValidateCertsResult DEF reconcileCerts, TypeOK
  <2>2. rootCerts' \in Bundle
    BY <1>1, <2>1 DEF reconcileCerts, Bundle, Data
  <2>3. serial' \in Nat
    BY <1>1 DEF reconcileCerts, TypeOK
  <2>4. QED
    BY <1>1, <2>1, <2>2, <2>3 DEF reconcileCerts, TypeOK, podVars
<1>2. CASE reconcileService
  BY <1>2 DEF reconcileService, TypeOK, podVars
<1>3. CASE reconcileWebhookConfig
  BY <1>3 DEF reconcileWebhookConfig, TypeOK, podVars
<1>4. CASE ReconcileError
  BY <1>4 DEF ReconcileError, TypeOK, podVars
<1>5. CASE OperatorRestart
  BY <1>5 DEF OperatorRestart, TypeOK, podVars
<1>6. ASSUME NEW crt \in CrtChoices, NEW key \in KeyChoices, NEW err \in BOOLEAN,
             WatcherRun(crt, key, err)
      PROVE  TypeOK'
  BY <1>6, ChoicesTypes DEF WatcherRun, TypeOK, operatorVars, Synced
<1>7. ASSUME NEW crt \in CrtChoices, NEW key \in KeyChoices,
             StartupRetry(crt, key)
      PROVE  TypeOK'
  BY <1>7, ChoicesTypes DEF StartupRetry, TypeOK, operatorVars
<1>8. ASSUME NEW crt \in CrtChoices, NEW key \in KeyChoices,
             StartupDone(crt, key)
      PROVE  TypeOK'
  BY <1>8, ChoicesTypes DEF StartupDone, TypeOK, operatorVars, Synced
<1>9. CASE ContainerStarts
  BY <1>9 DEF ContainerStarts, TypeOK, operatorVars
<1>10. CASE Tick
  BY <1>10 DEF Tick, TypeOK, operatorVars, podVars
<1>11. CASE EditSecret
  <2>1. secret' \in Data
    BY <1>11, EditedType DEF EditSecret, TypeOK
  <2>2. QED
    BY <1>11, <2>1 DEF EditSecret, TypeOK, podVars
<1>12. CASE DeleteWebhookConfig
  BY <1>12 DEF DeleteWebhookConfig, TypeOK, podVars
<1>13. CASE UNCHANGED vars
  BY <1>13 DEF TypeOK, vars
<1>14. QED
  BY <1>1, <1>2, <1>3, <1>4, <1>5, <1>6, <1>7, <1>8, <1>9, <1>10, <1>11,
     <1>12, <1>13 DEF Next, StartupFails, WebhookRestart

\* The initial state has the right types.
LEMMA TypeInit == Init => TypeOK
<1>1. Init => svc \in BOOLEAN
  BY Zenon DEF Init
<1>2. QED
  BY <1>1, EmptyTypes DEF Init, TypeOK

\* Every reachable state of the webhook's certificates, their controller and
\* the pod has the right types.
THEOREM TypeCorrect == Spec => []TypeOK
BY TypeInit, TypeStep, PTL DEF Spec

-----------------------------------------------------------------------------
(* The inductive invariant, action by action.                              *)

\* The initial state satisfies the inductive invariant.
LEMMA InvInit == Init => IInv
<1> SUFFICES ASSUME Init
             PROVE  IInv
  OBVIOUS
<1> USE PeriodsAssumption DEF Init, NoData, NoCert, NoRoot
<1>1. TypeOK
  BY TypeInit
<1>2. TimingInv
  BY DEF TimingInv
<1>3. ServedInv
  BY DEF ServedInv, PairLoads
<1>4. SecretInv
  BY DEF SecretInv
<1>5. ConfigInv
  BY DEF ConfigInv
<1>6. IssuerInv
  BY DEF IssuerInv
<1>7. QED
  BY <1>1, <1>2, <1>3, <1>4, <1>5, <1>6 DEF IInv

\* Renewing the Secret: the controller replaces entries in time, and a
\* rollover keeps the root of what the pod serves for as long as it matters.
LEMMA InvReconcileCerts == IInv /\ TypeOK' /\ reconcileCerts => IInv'
<1> SUFFICES ASSUME IInv, TypeOK', reconcileCerts
             PROVE  IInv'
  OBVIOUS
<1> USE PeriodsAssumption, LifetimesAssumption
<1>1. /\ secret \in Data /\ served \in Cert
      /\ now \in Nat /\ serial \in Nat /\ rDue \in Nat /\ syncedAt \in Nat
      /\ edits \in Nat
  BY DEF IInv, TypeOK
<1>2. /\ rpc = "idle" /\ now >= rDue /\ rpc' = "service"
      /\ now' = now /\ rDue' = rDue /\ svc' = svc /\ cfg' = cfg
      /\ edits' = edits
      /\ phase' = phase /\ crtFile' = crtFile /\ keyFile' = keyFile
      /\ served' = served /\ syncedAt' = syncedAt
      /\ secret' = ValidateCerts(secret)
      /\ rootCerts' = [ca |-> secret'.caCrt, old |-> secret'.caOld]
  BY DEF reconcileCerts, podVars
<1>3. /\ secret' \in Data
      /\ Complete(secret')
      /\ RootKept(secret, secret') \/ RolledOver(secret, secret')
  BY <1>1, <1>2, ValidateCertsResult
<1>4. TimingInv'
  BY <1>1, <1>2, <1>3
     DEF IInv, TimingInv, Complete, RootKept, RolledOver, NewlySigned, Data,
         Root, Cert
<1>5. ServedInv'
  BY <1>2 DEF IInv, ServedInv, PairLoads
<1>6. SecretInv'
  BY <1>1, <1>2, <1>3
     DEF IInv, SecretInv, Complete, RootKept, RolledOver, NewlySigned, NoData,
         NoCert, NoRoot, Data, Root, Cert
<1>7. ConfigInv'
  BY <1>2 DEF ConfigInv
<1>8. IssuerInv'
  BY <1>1, <1>2, <1>3
     DEF IInv, TimingInv, SecretInv, IssuerInv, FreshRoot, RootKept,
         RolledOver, NewlySigned, validateRootCerts, AboutToExpire, Data, Root,
         Cert
<1>9. QED
  BY <1>4, <1>5, <1>6, <1>7, <1>8 DEF IInv

\* The rest of Reconcile, its failure and the restart of the operator.
LEMMA InvReconcileRest ==
    /\ IInv /\ TypeOK'
    /\ \/ reconcileService \/ reconcileWebhookConfig
       \/ ReconcileError \/ OperatorRestart
    => IInv'
<1> SUFFICES ASSUME IInv, TypeOK',
                    \/ reconcileService \/ reconcileWebhookConfig
                    \/ ReconcileError \/ OperatorRestart
             PROVE  IInv'
  OBVIOUS
<1> USE PeriodsAssumption, LifetimesAssumption
        DEF podVars, reconcileService, reconcileWebhookConfig, ReconcileError,
            OperatorRestart
<1>1. TimingInv'
  <2>1. CASE reconcileWebhookConfig
    BY <2>1 DEF IInv, TypeOK, TimingInv, Data, Cert
  <2>2. CASE OperatorRestart
    BY <2>2 DEF IInv, TypeOK, TimingInv, Data, Cert
  <2>3. CASE reconcileService \/ ReconcileError
    BY <2>3 DEF IInv, TimingInv
  <2>4. QED
    BY <2>1, <2>2, <2>3
<1>2. ServedInv'
  BY DEF IInv, ServedInv, PairLoads
<1>3. SecretInv'
  BY DEF IInv, TypeOK, TimingInv, SecretInv, Data, Root, Cert
<1>4. ConfigInv'
  BY DEF IInv, TypeOK, TimingInv, ConfigInv
<1>5. IssuerInv'
  BY DEF IInv, IssuerInv, FreshRoot
<1>6. QED
  BY <1>1, <1>2, <1>3, <1>4, <1>5 DEF IInv

\* What a server certificate just loaded from the Secret owes to the
\* controller's schedule.
LEMMA LoadedFromSecret ==
    ASSUME IInv, secret.tlsCrt.id # 0
    PROVE  /\ now + RenewalThreshold
                 <= secret.tlsCrt.notAfter + ReconcilePeriod + MaxOutage
           /\ edits = 0
                 => /\ secret.tlsCrt.issuer = secret.caCrt.id
                    /\ now + RenewalThreshold
                          <= secret.caCrt.notAfter + ReconcilePeriod + MaxOutage
BY PeriodsAssumption
   DEF IInv, TypeOK, TimingInv, SecretInv, NoData, NoCert, Data, Root, Cert

\* A run of the pod's certificate watcher, whatever its outcome.
LEMMA InvWatcherRun ==
    ASSUME NEW crt \in CrtChoices, NEW key \in KeyChoices, NEW err \in BOOLEAN,
           IInv, TypeOK', WatcherRun(crt, key, err)
    PROVE  IInv'
<1> USE PeriodsAssumption
<1>1. /\ now' = now /\ phase' = phase /\ phase = "running"
      /\ crtFile' = crt /\ keyFile' = key
      /\ edits' = edits /\ secret' = secret /\ svc' = svc /\ cfg' = cfg
      /\ rpc' = rpc /\ rootCerts' = rootCerts /\ rDue' = rDue
      /\ served' = IF PairLoads(crt, key) THEN crt ELSE served
      /\ syncedAt' = IF served' = secret.tlsCrt THEN now ELSE syncedAt
  BY DEF WatcherRun, operatorVars, Synced
<1>2. served' = served \/ served' = secret.tlsCrt
  <2>1. CASE PairLoads(crt, key) /\ crt # secret.tlsCrt
    <3>1. crt = crtFile /\ key = keyFile
      BY <2>1 DEF WatcherRun, UpdateOutcome, PairLoads, NoCert
    <3>2. served = crtFile
      BY <1>1, <2>1, <3>1 DEF IInv, ServedInv
    <3>3. QED
      BY <1>1, <2>1, <3>1, <3>2
  <2>2. QED
    BY <1>1, <2>1
<1>3. TimingInv'
  BY <1>1, <1>2 DEF IInv, TypeOK, TimingInv, Data, Cert
<1>4. ServedInv'
  BY <1>1, <1>2, LoadedFromSecret DEF IInv, ServedInv, PairLoads
<1>5. SecretInv'
  <2>1. CASE edits = 0 /\ secret = NoData
    BY <1>1, <1>2, <2>1 DEF IInv, SecretInv, NoData, NoCert
  <2>2. QED
    BY <1>1, <2>1 DEF IInv, SecretInv
<1>6. ConfigInv'
  BY <1>1 DEF IInv, ConfigInv
<1>7. IssuerInv'
  BY <1>1, <1>2, LoadedFromSecret DEF IInv, IssuerInv, FreshRoot
<1>8. QED
  BY <1>3, <1>4, <1>5, <1>6, <1>7 DEF IInv

\* The start-up loop of the pod, and its restart.
LEMMA InvStartup ==
    ASSUME NEW crt \in CrtChoices, NEW key \in KeyChoices, IInv, TypeOK',
           StartupRetry(crt, key) \/ StartupDone(crt, key) \/ ContainerStarts
    PROVE  IInv'
<1> USE PeriodsAssumption
<1>1. CASE StartupRetry(crt, key)
  BY <1>1 DEF StartupRetry, UpdateOutcome, operatorVars, IInv, TimingInv,
              ServedInv, SecretInv, ConfigInv, IssuerInv, FreshRoot
<1>2. CASE StartupDone(crt, key)
  <2>0. UpdateOutcome(crt, key, FALSE)
    BY <1>2 DEF StartupDone, LoopEnds, UpdateOutcome, PairLoads, IInv, ServedInv
  <2>1. /\ now' = now /\ crtFile' = crt /\ keyFile' = key
        /\ edits' = edits /\ secret' = secret /\ svc' = svc /\ cfg' = cfg
        /\ rpc' = rpc /\ rootCerts' = rootCerts /\ rDue' = rDue
        /\ served' = secret.tlsCrt /\ syncedAt' = now
        /\ secret # NoData /\ crt = secret.tlsCrt /\ secret.tlsCrt.id # 0
    BY <1>2, <2>0 DEF StartupDone, operatorVars, Synced, UpdateOutcome,
                      PairLoads, SecretExists
  <2>2. TimingInv'
    BY <2>1 DEF IInv, TypeOK, TimingInv, Data, Cert
  <2>3. ServedInv'
    BY <1>2, <2>1, LoadedFromSecret DEF StartupDone, ServedInv
  <2>4. SecretInv'
    BY <2>1 DEF IInv, SecretInv
  <2>5. ConfigInv'
    BY <2>1 DEF IInv, ConfigInv
  <2>6. IssuerInv'
    BY <2>1, LoadedFromSecret DEF IssuerInv, FreshRoot
  <2>7. QED
    BY <2>2, <2>3, <2>4, <2>5, <2>6 DEF IInv
<1>3. CASE ContainerStarts
  BY <1>3 DEF ContainerStarts, operatorVars, IInv, TypeOK, TimingInv, ServedInv,
              SecretInv, ConfigInv, IssuerInv, NoCert, Data, Cert
<1>4. QED
  BY <1>1, <1>2, <1>3

\* The clock, and edits made by hand.
LEMMA InvEnvironment ==
    /\ IInv /\ TypeOK'
    /\ Tick \/ EditSecret \/ DeleteWebhookConfig
    => IInv'
<1> SUFFICES ASSUME IInv, TypeOK', Tick \/ EditSecret \/ DeleteWebhookConfig
             PROVE  IInv'
  OBVIOUS
<1> USE PeriodsAssumption
<1>1. CASE Tick
  <2> USE <1>1 DEF Tick, operatorVars, podVars
  <2>1. TimingInv'
    BY DEF IInv, TypeOK, TimingInv, Data, Cert
  <2>2. ServedInv'
    BY DEF IInv, ServedInv, PairLoads
  <2>3. SecretInv'
    BY DEF IInv, TypeOK, SecretInv
  <2>4. ConfigInv'
    BY DEF IInv, TypeOK, ConfigInv
  <2>5. IssuerInv'
    BY DEF IInv, TypeOK, IssuerInv, FreshRoot, Cert
  <2>6. QED
    BY <2>1, <2>2, <2>3, <2>4, <2>5 DEF IInv
<1>2. CASE EditSecret
  <2>1. /\ edits' # 0
        /\ now' = now /\ rDue' = rDue /\ rpc' = rpc /\ phase' = phase
        /\ crtFile' = crtFile /\ keyFile' = keyFile /\ served' = served
        /\ syncedAt' = syncedAt
    BY <1>2 DEF EditSecret, podVars, IInv, TypeOK
  <2>2. secret' \in Edited(secret)
    BY <1>2 DEF EditSecret
  <2>3. secret'.tlsCrt = secret.tlsCrt \/ secret'.tlsCrt = NoCert
    BY <2>2 DEF Edited, NoData, IInv, TypeOK, Data
  <2>4. TimingInv'
    BY <2>1, <2>3 DEF IInv, TypeOK, TimingInv, NoCert, Data, Cert
  <2>5. ServedInv'
    BY <2>1 DEF IInv, ServedInv, PairLoads
  <2>6. QED
    BY <2>1, <2>4, <2>5 DEF IInv, SecretInv, ConfigInv, IssuerInv
<1>3. CASE DeleteWebhookConfig
  <2>1. edits' # 0
    BY <1>3 DEF DeleteWebhookConfig, IInv, TypeOK
  <2>2. QED
    BY <1>3, <2>1 DEF DeleteWebhookConfig, podVars, IInv, TimingInv, ServedInv,
                      PairLoads, SecretInv, ConfigInv, IssuerInv
<1>4. QED
  BY <1>1, <1>2, <1>3

\* Every step preserves the inductive invariant.
LEMMA InvStep == IInv /\ [Next]_vars => IInv'
<1> SUFFICES ASSUME IInv, [Next]_vars
             PROVE  IInv'
  OBVIOUS
<1>1. TypeOK'
  BY TypeStep DEF IInv
<1>2. CASE UNCHANGED vars
  BY <1>1, <1>2 DEF vars, IInv, TimingInv, ServedInv, PairLoads, SecretInv,
                    ConfigInv, IssuerInv, FreshRoot
<1>3. CASE Next
  <2>1. CASE ContainerStarts
    BY <1>1, <2>1, InvStartup DEF CrtChoices, KeyChoices
  <2>2. QED
    BY <1>1, <1>3, <2>1, InvReconcileCerts, InvReconcileRest, InvWatcherRun,
       InvStartup, InvEnvironment DEF Next, StartupFails, WebhookRestart
<1>4. QED
  BY <1>2, <1>3

\* The inductive invariant holds in every reachable state.
THEOREM Inductive == Spec => []IInv
BY InvInit, InvStep, PTL DEF Spec

-----------------------------------------------------------------------------
(* The safety properties.                                                  *)

\* The webhook server never presents an expired certificate while its watcher
\* synchronised it within RenewalThreshold - ReconcilePeriod - MaxOutage.
THEOREM ServedCertAlwaysValid == Spec => []ServedCertValid
<1>1. IInv => ServedCertValid
  BY PeriodsAssumption
     DEF IInv, TypeOK, ServedInv, ServedCertValid, WithinMargin, Cert
<1>2. QED
  BY <1>1, Inductive, PTL

\* Root rollovers never orphan an unexpired certificate that is being served.
THEOREM NeverOrphaned == Spec => []NoOrphanedCert
<1>1. IInv => NoOrphanedCert
  BY DEF IInv, TypeOK, IssuerInv, NoOrphanedCert, Trusts, Cert
<1>2. QED
  BY <1>1, Inductive, PTL

\* Whenever Reconcile is up to date, the API server accepts the webhook.
THEOREM ChainAlwaysVerifies == Spec => []ChainVerifies
<1>1. IInv => ChainVerifies
  <2> SUFFICES ASSUME IInv, edits = 0, served.id # 0, WithinMargin,
                      rpc = "idle", now < rDue
               PROVE  /\ svc
                      /\ \E r \in {cfg.ca, cfg.old} :
                            r.id = served.issuer /\ now <= r.notAfter
    BY DEF ChainVerifies
  <2> USE PeriodsAssumption
  <2>1. svc /\ cfg.ca = secret.caCrt /\ cfg.old = secret.caOld
    BY DEF IInv, ConfigInv
  <2>2. now <= served.notAfter
    BY DEF IInv, TypeOK, ServedInv, WithinMargin, Cert
  <2>3. ASSUME NEW r \in Root, FreshRoot(r)
        PROVE  now <= r.notAfter
    BY <2>3 DEF FreshRoot, WithinMargin, IInv, TypeOK, Root
  <2>4. \/ served.issuer = secret.caCrt.id /\ FreshRoot(secret.caCrt)
        \/ served.issuer = secret.caOld.id /\ FreshRoot(secret.caOld)
    BY <2>2 DEF IInv, TypeOK, IssuerInv, Cert
  <2>5. secret.caCrt \in Root /\ secret.caOld \in Root
    BY DEF IInv, TypeOK, Data
  <2>6. QED
    BY <2>1, <2>3, <2>4, <2>5
<1>2. QED
  BY <1>1, Inductive, PTL
=============================================================================
