--------------------------- MODULE MCWorkloadHTTP ---------------------------
EXTENDS WorkloadHTTP, TLC

CONSTANTS c1, c2

\* The second call's binding uses both resources, the first call's one of them.
MCUses == (c1 :> {1}) @@ (c2 :> {1, 2})

=============================================================================
