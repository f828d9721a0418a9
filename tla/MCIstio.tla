------------------------------ MODULE MCIstio ------------------------------
(* A small instance of Istio: two names and an address.                    *)
EXTENDS Istio
CONSTANTS a, b, ip
MCHostLists == {<<a>>, <<a, b>>, <<ip, b>>}
=============================================================================
