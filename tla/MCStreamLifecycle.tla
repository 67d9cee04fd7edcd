------------------------- MODULE MCStreamLifecycle -------------------------
EXTENDS StreamLifecycle, TLC
CONSTANT ann
OneOwner == [r \in Requests |-> ann]
=============================================================================
