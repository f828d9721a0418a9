---------------------------- MODULE MCInjection ----------------------------
(* Small instances of Injection.                                           *)
EXTENDS Injection

On      == [enabled |-> TRUE, reinvoke |-> TRUE, proxy |-> "none", rev |-> 1]
Proxied == [On EXCEPT !.proxy = "set", !.reinvoke = FALSE, !.rev = 2]
Broken  == [On EXCEPT !.proxy = "missing"]
Off     == [On EXCEPT !.enabled = FALSE]

MCDynaKubes   == {On, Proxied, Broken, Off, Absent}
MCDynaKubesOn == {On}
MCPodSpecs  == {[names |-> <<"app">>, inject |-> "unset", policy |-> "fail"],
                [names |-> <<"app", "log">>, inject |-> "true", policy |-> "silent"]}
MCNamespaces == {[label |-> TRUE, inject |-> "unset"], [label |-> FALSE, inject |-> "unset"],
                 [label |-> TRUE, inject |-> "false"]}
MCNamespacesOn == {[label |-> TRUE, inject |-> "unset"]}
=============================================================================
