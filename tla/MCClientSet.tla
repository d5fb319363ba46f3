------------------------------ MODULE MCClientSet ------------------------------
\* Instances of ClientSet for TLC.
EXTENDS ClientSet, TLC

\* OIDs are alike, and so are set IDs.
Symmetric == Permutations(Oid) \cup Permutations(SetId)
=============================================================================
