---------------------------- MODULE WebhookCerts ----------------------------
(***************************************************************************)
(* The certificates of the mutating webhook.  Three parties share them:    *)
(*                                                                         *)
(*  - the operator's webhook-certificates controller, which every          *)
(*    ReconcilePeriod hours renews the entries of a Secret, makes sure the *)
(*    Service exists and publishes the root certificates as the CABundle   *)
(*    of the MutatingWebhookConfiguration;                                 *)
(*  - the webhook pod, which every WatchPeriod hours copies tls.crt and    *)
(*    tls.key from the Secret to its certificate directory, from where the *)
(*    webhook server loads them;                                           *)
(*  - the API server, which calls the webhook and accepts its certificate  *)
(*    only if it chains to the CABundle and nothing has expired.           *)
(*                                                                         *)
(* Time is counted in hours.  A certificate is identified by a serial      *)
(* number; a key by the serial number of the certificate it was made for.  *)
(* Serial 0 stands for "no such entry": absent, empty or undecodable.      *)
(***************************************************************************)
EXTENDS Naturals

CONSTANTS
    RenewalThreshold,  \* renew when less than this is left           (12 h)
    ServerValidity,    \* lifetime of a server certificate           (168 h)
    RootValidity,      \* lifetime of a root certificate            (8760 h)
    ReconcilePeriod,   \* the controller's ticker                      (3 h)
    WatchPeriod,       \* the pod's certificate watcher                (6 h)
    MaxOutage,         \* longest a due Reconcile stays unsuccessful
    WriteFaults,       \* may a write to the certificate directory fail?
    MaxEdits,          \* bound: edits of the Secret or the configuration
                       \* made by hand
    MaxTime            \* bound: hours explored

ASSUME PeriodsAssumption ==
    /\ RenewalThreshold \in Nat
    /\ ServerValidity \in Nat
    /\ RootValidity \in Nat
    /\ ReconcilePeriod \in Nat \ {0}
    /\ WatchPeriod \in Nat \ {0}
    /\ MaxOutage \in Nat
    /\ WriteFaults \in BOOLEAN
    /\ MaxEdits \in Nat
    /\ MaxTime \in Nat

\* A renewed certificate is not due for renewal at once, and a root outlives
\* every server certificate it signs before it is itself due for renewal.
ASSUME LifetimesAssumption ==
    /\ RenewalThreshold <= ServerValidity
    /\ ServerValidity + RenewalThreshold <= RootValidity

VARIABLES
    now,       \* the clock
    secret,    \* the Secret dynatrace-webhook-certs
    serial,    \* serial numbers handed out so far
    svc,       \* does the webhook Service exist?
    cfg,       \* the CABundle of the MutatingWebhookConfiguration
    rpc,       \* where the Reconcile in progress is
    rootCerts, \* what its reconcileCerts returned
    rDue,      \* when the queued (or next) Reconcile request is due
    phase,     \* the webhook pod: starting or running
    crtFile,   \* tls.crt in the certificate directory
    keyFile,   \* tls.key in the certificate directory
    served,    \* the certificate the webhook server presents
    wDue,      \* when the certificate watcher wakes up
    syncedAt,  \* history: when a run of UpdateCertificate last left the
               \* pod serving the Secret's certificate
    edits      \* history: edits made by hand so far

vars == <<now, secret, serial, svc, cfg, rpc, rootCerts, rDue, phase,
          crtFile, keyFile, served, wDue, syncedAt, edits>>

operatorVars == <<secret, serial, svc, cfg, rpc, rootCerts, rDue>>
podVars == <<phase, crtFile, keyFile, served, wDue, syncedAt>>

Root == [id : Nat, notAfter : Nat]
Cert == [id : Nat, issuer : Nat, notAfter : Nat]
Data == [caCrt : Root, caOld : Root, caKey : Nat, tlsCrt : Cert, tlsKey : Nat]
Bundle == [ca : Root, old : Root]

NoRoot == [id |-> 0, notAfter |-> 0]
NoCert == [id |-> 0, issuer |-> 0, notAfter |-> 0]
NoData == [caCrt |-> NoRoot, caOld |-> NoRoot, caKey |-> 0,
           tlsCrt |-> NoCert, tlsKey |-> 0]
NoBundle == [ca |-> NoRoot, old |-> NoRoot]

Init ==
    /\ now = 0
    /\ secret = NoData
    /\ serial = 0
    /\ svc = FALSE
    /\ cfg = NoBundle
    /\ rpc = "idle"
    /\ rootCerts = NoBundle
    /\ rDue = 0
    /\ phase = "starting"
    /\ crtFile = NoCert
    /\ keyFile = 0
    /\ served = NoCert
    /\ wDue = 0
    /\ syncedAt = 0
    /\ edits = 0

-----------------------------------------------------------------------------
(* certs.go: the renewal of the entries of the Secret                      *)

\* now.After(NotAfter.Add(-renewalThreshold))
AboutToExpire(c) == now + RenewalThreshold > c.notAfter

validateRootCerts(d) ==
    d.caKey = 0 \/ d.caCrt.id = 0 \/ AboutToExpire(d.caCrt)

\* Mutant of validateServerCerts: renewed only once it has expired.
validateServerCertsMutant(d) ==
    d.tlsKey = 0 \/ d.tlsCrt.id = 0 \/ now > d.tlsCrt.notAfter

validateServerCerts(d) ==
    d.tlsKey = 0 \/ d.tlsCrt.id = 0 \/ AboutToExpire(d.tlsCrt)

\* Mutant of generateRootCerts: ca.crt.old is not written.
generateRootCertsMutant(d) ==
    [d EXCEPT !.caKey = serial + 1,
              !.caCrt = [id |-> serial + 1, notAfter |-> now + RootValidity]]

\* A new key and a new self-signed certificate; the root that is replaced is
\* kept as ca.crt.old.
generateRootCerts(d) ==
    [d EXCEPT !.caKey = serial + 1,
              !.caOld = d.caCrt,
              !.caCrt = [id |-> serial + 1, notAfter |-> now + RootValidity]]

\* A new key and a certificate for it signed by the current root.
generateServerCerts(d) ==
    [d EXCEPT !.tlsKey = serial + 2,
              !.tlsCrt = [id |-> serial + 2, issuer |-> d.caCrt.id,
                          notAfter |-> now + ServerValidity]]

ValidateCerts(d) ==
    LET renewRoot == validateRootCerts(d)
        d1 == IF renewRoot THEN generateRootCerts(d) ELSE d
    IN  IF renewRoot \/ validateServerCerts(d1)
        THEN generateServerCerts(d1)
        ELSE d1

-----------------------------------------------------------------------------
(* controller.go: Reconcile, one action per request it makes.  A request   *)
(* that fails ends the Reconcile (ReconcileError); the work queue then     *)
(* retries it, so rDue only advances when a Reconcile succeeds.            *)

\* Read the Secret, renew it, create or update it if anything changed.
reconcileCerts ==
    /\ rpc = "idle"
    /\ now >= rDue
    /\ secret' = ValidateCerts(secret)
    /\ serial' = IF secret' = secret THEN serial ELSE serial + 2
    /\ rootCerts' = [ca |-> secret'.caCrt, old |-> secret'.caOld]
    /\ rpc' = "service"
    /\ UNCHANGED <<now, svc, cfg, rDue, edits>>
    /\ UNCHANGED podVars

reconcileService ==
    /\ rpc = "service"
    /\ svc' = TRUE
    /\ rpc' = "config"
    /\ UNCHANGED <<now, secret, serial, cfg, rootCerts, rDue, edits>>
    /\ UNCHANGED podVars

\* Mutant of reconcileWebhookConfig: a configuration that exists is never
\* updated.
reconcileWebhookConfigMutant ==
    /\ rpc = "config"
    /\ cfg' = IF cfg = NoBundle THEN rootCerts ELSE cfg
    /\ rpc' = "idle"
    /\ rootCerts' = NoBundle
    /\ rDue' = rDue + ReconcilePeriod
    /\ UNCHANGED <<now, secret, serial, svc, edits>>
    /\ UNCHANGED podVars

\* Create the configuration, or update it unless its CABundle is up to date.
reconcileWebhookConfig ==
    /\ rpc = "config"
    /\ cfg' = rootCerts
    /\ rpc' = "idle"
    /\ rootCerts' = NoBundle
    /\ rDue' = rDue + ReconcilePeriod
    /\ UNCHANGED <<now, secret, serial, svc, edits>>
    /\ UNCHANGED podVars

\* Mutant of ReconcileError: a failed Reconcile waits for the next tick.
ReconcileErrorMutant ==
    /\ rpc # "idle"
    /\ rpc' = "idle"
    /\ rootCerts' = NoBundle
    /\ rDue' = rDue + ReconcilePeriod
    /\ UNCHANGED <<now, secret, serial, svc, cfg, edits>>
    /\ UNCHANGED podVars

\* A request failed, or its answer was lost after it took effect.
ReconcileError ==
    /\ rpc # "idle"
    /\ rpc' = "idle"
    /\ rootCerts' = NoBundle
    /\ UNCHANGED <<now, secret, serial, svc, cfg, rDue, edits>>
    /\ UNCHANGED podVars

\* Mutant of OperatorRestart: no request is queued at the start.
OperatorRestartMutant ==
    /\ rpc' = "idle"
    /\ rootCerts' = NoBundle
    /\ rDue' = now + ReconcilePeriod
    /\ UNCHANGED <<now, secret, serial, svc, cfg, edits>>
    /\ UNCHANGED podVars

\* The operator stops and starts again, or another replica takes the lease:
\* the first Reconcile request is queued right after the start.
OperatorRestart ==
    /\ rpc' = "idle"
    /\ rootCerts' = NoBundle
    /\ rDue' = IF now < rDue THEN now ELSE rDue
    /\ UNCHANGED <<now, secret, serial, svc, cfg, edits>>
    /\ UNCHANGED podVars

-----------------------------------------------------------------------------
(* The webhook pod: UpdateCertificate, its start-up loop and its watcher.  *)

SecretExists == secret # NoData

\* What UpdateCertificate does to the two files and whether it reports an
\* error.  tls.key is looked at only when tls.crt was just rewritten; a write
\* that fails leaves the old contents or a truncated file.
UpdateOutcome(crt, key, err) ==
    LET stale == crtFile # secret.tlsCrt IN
    \/ err /\ crt = crtFile /\ key = keyFile
    \/ /\ SecretExists
       /\ ~err
       /\ crt = secret.tlsCrt
       /\ key = IF stale THEN secret.tlsKey ELSE keyFile
    \/ /\ SecretExists
       /\ err /\ WriteFaults /\ stale
       /\ crt = NoCert /\ key = keyFile
    \/ /\ SecretExists
       /\ err /\ WriteFaults /\ stale /\ keyFile # secret.tlsKey
       /\ crt = secret.tlsCrt /\ key \in {keyFile, 0}

\* The server loads the pair when certificate and key belong together.
PairLoads(crt, key) == crt.id # 0 /\ key = crt.id

Synced(c) == IF c = secret.tlsCrt THEN now ELSE syncedAt

\* The files a run of UpdateCertificate can leave behind.
CrtChoices == {crtFile, secret.tlsCrt, NoCert}
KeyChoices == {keyFile, secret.tlsKey, 0}

\* startCertificateWatcher: one run, then sleep for another WatchPeriod
\* whether or not the run succeeded.
WatcherRun(crt, key, err) ==
    /\ phase = "running"
    /\ now >= wDue
    /\ UpdateOutcome(crt, key, err)
    /\ crtFile' = crt
    /\ keyFile' = key
    /\ served' = IF PairLoads(crt, key) THEN crt ELSE served
    /\ wDue' = now + WatchPeriod
    /\ syncedAt' = Synced(served')
    /\ UNCHANGED <<now, phase, edits>>
    /\ UNCHANGED operatorVars

\* startWebhookServer: an attempt that fails is repeated after 10 seconds.
StartupRetry(crt, key) ==
    /\ phase = "starting"
    /\ UpdateOutcome(crt, key, TRUE)
    /\ crtFile' = crt
    /\ keyFile' = key
    /\ UNCHANGED <<now, phase, served, wDue, syncedAt, edits>>
    /\ UNCHANGED operatorVars

\* The loop ends when an attempt reports no error, or with the attempt after
\* which the five minutes are over.
LoopEnds(crt, key) == \E err \in BOOLEAN : UpdateOutcome(crt, key, err)

\* The server starts with the pair it finds then.
StartupDone(crt, key) ==
    /\ phase = "starting"
    /\ LoopEnds(crt, key)
    /\ PairLoads(crt, key)
    /\ phase' = "running"
    /\ crtFile' = crt
    /\ keyFile' = key
    /\ served' = crt
    /\ wDue' = now + WatchPeriod
    /\ syncedAt' = Synced(crt)
    /\ UNCHANGED <<now, edits>>
    /\ UNCHANGED operatorVars

\* Mutant of ContainerStarts: the certificate directory outlives the
\* container.
ContainerStartsMutant ==
    /\ phase' = "starting"
    /\ served' = NoCert
    /\ wDue' = 0
    /\ syncedAt' = 0
    /\ UNCHANGED <<now, crtFile, keyFile, edits>>
    /\ UNCHANGED operatorVars

\* The container starts over with an empty certificate directory.
ContainerStarts ==
    /\ phase' = "starting"
    /\ crtFile' = NoCert
    /\ keyFile' = 0
    /\ served' = NoCert
    /\ wDue' = 0
    /\ syncedAt' = 0
    /\ UNCHANGED <<now, edits>>
    /\ UNCHANGED operatorVars

\* The loop ended, but the server finds no pair it can load and gives up.
StartupFails(crt, key) ==
    /\ phase = "starting"
    /\ LoopEnds(crt, key)
    /\ ~PairLoads(crt, key)
    /\ ContainerStarts

\* The container is restarted, for whatever reason, at any time.
WebhookRestart == ContainerStarts

-----------------------------------------------------------------------------
(* The environment: time, and people with kubectl.                         *)

\* Time does not pass a watcher wake-up, nor does a due Reconcile stay
\* unsuccessful for longer than MaxOutage.
Tick ==
    /\ now < MaxTime
    /\ now < rDue + MaxOutage
    /\ phase = "running" => now < wDue
    /\ now' = now + 1
    /\ UNCHANGED edits
    /\ UNCHANGED operatorVars
    /\ UNCHANGED podVars

\* What is left of the Secret after it, or one of its entries, was removed.
Edited(d) == {NoData,
              [d EXCEPT !.caCrt = NoRoot], [d EXCEPT !.caKey = 0],
              [d EXCEPT !.tlsCrt = NoCert], [d EXCEPT !.tlsKey = 0]}

EditSecret ==
    /\ edits < MaxEdits
    /\ secret' \in Edited(secret)
    /\ edits' = edits + 1
    /\ UNCHANGED <<now, serial, svc, cfg, rpc, rootCerts, rDue>>
    /\ UNCHANGED podVars

DeleteWebhookConfig ==
    /\ edits < MaxEdits
    /\ cfg' = NoBundle
    /\ edits' = edits + 1
    /\ UNCHANGED <<now, secret, serial, svc, rpc, rootCerts, rDue>>
    /\ UNCHANGED podVars

Next ==
    \/ reconcileCerts
    \/ reconcileService
    \/ reconcileWebhookConfig
    \/ ReconcileError
    \/ OperatorRestart
    \/ \E crt \in CrtChoices, key \in KeyChoices, err \in BOOLEAN :
          WatcherRun(crt, key, err)
    \/ \E crt \in CrtChoices, key \in KeyChoices : StartupRetry(crt, key)
    \/ \E crt \in CrtChoices, key \in KeyChoices : StartupDone(crt, key)
    \/ \E crt \in CrtChoices, key \in KeyChoices : StartupFails(crt, key)
    \/ WebhookRestart
    \/ Tick
    \/ EditSecret
    \/ DeleteWebhookConfig

Spec == Init /\ [][Next]_vars

\* Controllers and pods keep running, and a request that is retried for ever
\* is answered in the end.
Fairness ==
    /\ WF_vars(reconcileCerts)
    /\ SF_vars(reconcileService)
    /\ SF_vars(reconcileWebhookConfig)
    /\ SF_vars(\E crt \in CrtChoices, key \in KeyChoices : StartupDone(crt, key))
    /\ WF_vars(\E crt \in CrtChoices, key \in KeyChoices : StartupFails(crt, key))

FairSpec == Spec /\ Fairness

-----------------------------------------------------------------------------
(* Properties                                                              *)

\* The variables have their types.
TypeOK ==
    /\ now \in Nat
    /\ secret \in Data
    /\ serial \in Nat
    /\ svc \in BOOLEAN
    /\ cfg \in Bundle
    /\ rpc \in {"idle", "service", "config"}
    /\ rootCerts \in Bundle
    /\ rDue \in Nat
    /\ phase \in {"starting", "running"}
    /\ crtFile \in Cert
    /\ keyFile \in Nat
    /\ served \in Cert
    /\ wDue \in Nat
    /\ syncedAt \in Nat
    /\ edits \in Nat

\* The longest the pod may go without a run of UpdateCertificate that left it
\* serving the Secret's certificate.
WithinMargin ==
    now + ReconcilePeriod + MaxOutage <= syncedAt + RenewalThreshold

\* The webhook server never presents an expired certificate as long as its
\* watcher synchronised it within the margin that renewalThreshold leaves
\* after one reconcile period and one outage, whatever fails in between.
ServedCertValid ==
    served.id # 0 /\ WithinMargin => now <= served.notAfter

Trusts(bundle, c) ==
    \E r \in {bundle.ca, bundle.old} : r.id = c.issuer

\* No renewal orphans a certificate that is still in use: as long as nobody
\* edits the Secret, the root that signed an unexpired served certificate is
\* one of the Secret's current and previous roots, across root rollovers.
NoOrphanedCert ==
    (edits = 0 /\ served.id # 0 /\ now <= served.notAfter)
        => Trusts([ca |-> secret.caCrt, old |-> secret.caOld], served)

\* Whenever no Reconcile is due or in progress, the CABundle the API server
\* uses holds the root that signed the served certificate, that root has not
\* expired either, and the Service is there: the webhook can be called.
ChainVerifies ==
    (/\ edits = 0 /\ served.id # 0 /\ WithinMargin
     /\ rpc = "idle" /\ now < rDue)
        => /\ svc
           /\ \E r \in {cfg.ca, cfg.old} :
                 r.id = served.issuer /\ now <= r.notAfter

\* A run of UpdateCertificate that reports no error leaves the files equal to
\* the Secret's entries: "check if new certificates get downloaded if
\* available" (webhook/server/certs_test.go).
DownloadsWhatIsAvailable ==
    [][\A crt \in CrtChoices, key \in KeyChoices :
          WatcherRun(crt, key, FALSE)
              => crtFile' = secret.tlsCrt /\ keyFile' = secret.tlsKey]_vars

\* An unexpired served certificate that the CABundle does not cover (after a
\* rollover whose second half failed, say) is covered again in the end, as
\* long as nobody replaces the Secret's roots by hand.
TrustGapCloses ==
    (served.id # 0 /\ now <= served.notAfter)
        ~> (Trusts(cfg, served) \/ served.id = 0 \/ now > served.notAfter \/ edits > 0)

\* A starting pod gets to serve a certificate, however often Reconcile or the
\* attempts of the start-up loop fail before; a Secret that was edited by hand
\* may hold a pair that does not load.
StartupCompletes == phase = "starting" ~> (phase = "running" \/ edits > 0)

-----------------------------------------------------------------------------
(* The inductive invariant behind the three safety properties.             *)

\* Bounds on how far the clock runs ahead of the controller, and on what the
\* Secret and the server may hold because of that.
TimingInv ==
    /\ now <= rDue + MaxOutage
    /\ rpc # "idle" => now >= rDue
    /\ syncedAt <= now
    /\ secret.tlsCrt.notAfter <= now + ServerValidity
    /\ served.notAfter <= now + ServerValidity
    /\ secret.tlsCrt.id # 0
          => rDue + RenewalThreshold <= secret.tlsCrt.notAfter + ReconcilePeriod
    /\ secret.tlsCrt.id # 0 /\ rpc # "idle"
          => rDue + RenewalThreshold <= secret.tlsCrt.notAfter

\* A starting pod has no key on disk yet.  The running server presents the
\* pair on disk whenever that pair loads, and what it presents was renewed in
\* time when it was last synchronised.
ServedInv ==
    /\ phase = "starting" => keyFile = 0
    /\ phase = "running" /\ PairLoads(crtFile, keyFile) => served = crtFile
    /\ served.id # 0
          => syncedAt + RenewalThreshold
                <= served.notAfter + ReconcilePeriod + MaxOutage

\* An unedited Secret is either not there yet or complete, and its root is as
\* fresh as the controller's schedule promises.
SecretInv ==
    edits = 0 =>
        \/ secret = NoData /\ served.id = 0 /\ rpc = "idle" /\ now >= rDue
        \/ /\ secret.caKey # 0 /\ secret.caCrt.id # 0
           /\ secret.tlsKey # 0 /\ secret.tlsCrt.id # 0
           /\ secret.tlsCrt.issuer = secret.caCrt.id
           /\ rDue + RenewalThreshold
                 <= secret.caCrt.notAfter + ReconcilePeriod
           /\ rpc # "idle"
                 => rDue + RenewalThreshold <= secret.caCrt.notAfter

\* The API server's configuration matches the Secret once Reconcile is done.
ConfigInv ==
    edits = 0 =>
        LET bundle == [ca |-> secret.caCrt, old |-> secret.caOld] IN
        /\ rpc = "idle" /\ now < rDue => cfg = bundle /\ svc
        /\ rpc # "idle" => rootCerts = bundle
        /\ rpc = "config" => svc

\* Where the root of the served certificate is, and how long it lasts: it is
\* the current root, or the previous one (then the certificate is older than
\* the current root), or the certificate has expired.
FreshRoot(r) ==
    syncedAt + RenewalThreshold <= r.notAfter + ReconcilePeriod + MaxOutage

IssuerInv ==
    edits = 0 /\ served.id # 0 =>
        \/ served.issuer = secret.caCrt.id /\ FreshRoot(secret.caCrt)
        \/ /\ served.issuer = secret.caOld.id
           /\ FreshRoot(secret.caOld)
           /\ served.notAfter + RootValidity
                 <= secret.caCrt.notAfter + ServerValidity
        \/ now > served.notAfter

IInv ==
    /\ TypeOK
    /\ TimingInv
    /\ ServedInv
    /\ SecretInv
    /\ ConfigInv
    /\ IssuerInv
=============================================================================
