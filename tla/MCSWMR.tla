------------------------------- MODULE MCSWMR -------------------------------
\* Instances of SWMR for TLC.
EXTENDS SWMR, TLC

CONSTANTS t1, t2, t3

\* Every thread makes every call.
AllUses == [t \in Thread |-> {"reader", "writer", "upgrade", "downgrade"}]

\* A reader that upgrades, a writer that downgrades, and a plain reader.
LivenessUses == (t1 :> {"reader", "upgrade"}) @@ (t2 :> {"writer", "downgrade"})
                @@ (t3 :> {"reader"})

ThreadSymmetry == Permutations(Thread)
=============================================================================
