------------------------------ MODULE MCHealth ------------------------------
(* Health for TLC. *)
EXTENDS Health

\* Services added, dropped and put in another order.
MCTrackedLists == {<<"nginx">>, <<"redis", "nginx">>}

MCCPUReadings == {Failed, Empty}
MCMemoryReadings == {1}
MCDiskReadings == {1, 2, Failed}
=============================================================================
