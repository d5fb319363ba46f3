----------------------------- MODULE MCPinning -----------------------------
\* Instances of Pinning for TLC.
EXTENDS Pinning, TLC

CONSTANTS o1, x1, p1

OneOxid == o1 :> x1

OneProcess == x1 :> p1
=============================================================================
