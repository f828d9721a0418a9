---------------------------- MODULE MCDynaKube ----------------------------
(* Small instances of DynaKube.                                            *)
EXTENDS DynaKube

\* kubemon, routing with a Service, and inframon; the same without routing, with
\* other labels and properties, an image and an own pull secret; everything else.
Base ==
  [enabled |-> {"kubemon", "routing", "inframon"}, immutable |-> {}, tmpl |-> 1,
   labels |-> 1, props |-> [kind |-> "from", value |-> 0], ownPull |-> FALSE,
   istio |-> FALSE, autoUpdate |-> TRUE, agUpdates |-> TRUE, tokens |-> "tokens"]
Reduced ==
  [Base EXCEPT !.enabled = {"kubemon", "inframon"}, !.immutable = {"inframon"},
               !.tmpl = 2, !.labels = 2, !.props = [kind |-> "value", value |-> 2],
               !.istio = TRUE, !.ownPull = TRUE]
Moved ==
  [Base EXCEPT !.enabled = Caps \cup {"classic"}, !.immutable = {"classic"},
               !.labels = 2, !.props = [kind |-> "value", value |-> 2],
               !.istio = TRUE, !.ownPull = TRUE]
GatesOnly == [Base EXCEPT !.enabled = {"routing"}]

Good ==
  [tok |-> [t \in Tokens |-> "ok"], client |-> TRUE, pull |-> TRUE, props |-> 1,
   ready |-> TRUE, latest |-> 1, image |-> [ag |-> 1, oa |-> 2]]
Newer     == [Good EXCEPT !.latest = 2, !.image = [ag |-> 2, oa |-> 1]]
Spaces    == [Good EXCEPT !.tok["PaaSToken"] = "spaces", !.ready = FALSE]
NoSecret  == [Good EXCEPT !.tok = [t \in Tokens |-> "absent"]]
NoToken   == [Good EXCEPT !.tok["PaaSToken"] = "missing"]
NoClient  == [Good EXCEPT !.client = FALSE, !.pull = FALSE, !.props = Absent]
NoAccess  == [Good EXCEPT !.tok = [t \in Tokens |-> IF t = "PaaSToken" THEN "unauthorized" ELSE "noscope"]]

SpecsOnOff == {Base, Reduced}
SpecsMove  == {Base, Moved}
SpecsGates == {GatesOnly}
ExtGood    == {Good}
ExtRelease == {Good, Newer}
ExtFaulty  == {Newer, NoSecret, NoToken, Spaces, NoClient, NoAccess}
===========================================================================
