---------------------------- MODULE MCServerOid ----------------------------
\* Instances of ServerOid for TLC.
EXTENDS ServerOid, TLC

CONSTANTS x1, p1

\* All OIDs belong to one apartment.
OneOxid == [o \in Oid |-> x1]

OneProcess == [x \in Oxid |-> p1]

\* The OIDs of one apartment, and the slots for calls, are alike.
OneApartment == Permutations(Oid) \cup Permutations(Call)
=============================================================================
