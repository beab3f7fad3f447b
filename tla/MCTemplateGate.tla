---------------------------- MODULE MCTemplateGate ----------------------------
(* Names for TLC: two containers, two volumes and two claim templates. *)
EXTENDS TemplateGate

MCContainers == <<"agent", "sidecar">>
MCVolumes == <<"v1", "v2">>
MCClaims == <<"home", "cache">>
===============================================================================
