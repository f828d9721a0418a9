--------------------------- MODULE MCWebhookCerts ---------------------------
(***************************************************************************)
(* Small instances of WebhookCerts.  The proportions of the constants are  *)
(* the code's: a reconcile period, a watcher period and an outage fit in   *)
(* the threshold, a second missed watcher run does not.                    *)
(***************************************************************************)
EXTENDS WebhookCerts
=============================================================================
