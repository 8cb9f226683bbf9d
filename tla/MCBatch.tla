------------------------------- MODULE MCBatch -------------------------------
(* An instance of Batch for TLC: three listed hosts, one of them twice.      *)
EXTENDS Batch

HostList == <<"web", "db", "web">>
=============================================================================
