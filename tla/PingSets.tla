------------------------------ MODULE PingSets ------------------------------
(***************************************************************************)
(* The sets that a resolver keeps for clients on other machines or its own *)
(* (CServerSet, ole32/dcomss/objex): their sequence numbers, owners and    *)
(* timeouts, and the handlers of pings.  What a set does to the lifetime   *)
(* of its OIDs is in ServerOid; here known is what the table of OIDs has.  *)
(*                                                                         *)
(* The handlers run under gpServerLock and are one step each.  They are    *)
(* operators over a request, for the module of the caller to use.          *)
(***************************************************************************)
EXTENDS Naturals, FiniteSets

CONSTANTS
  Oid,
  SetId,              \* what CServerSetTable makes of a slot and its sequence
  NoSet,              \* the set ID of a client that has none yet
  BaseNumberOfPings,  \* how far ahead a sequence number may be
  TimeoutPeriods,     \* BaseTimeoutInterval in units of BasePingInterval
  SeqModulus          \* sequence numbers are USHORT

ASSUME PingSetsAssumption ==
  /\ NoSet \notin SetId
  /\ BaseNumberOfPings \in Nat \ {0} /\ TimeoutPeriods \in Nat \ {0}
  /\ SeqModulus \in Nat /\ SeqModulus > BaseNumberOfPings

VARIABLES
  sets,   \* the CServerSet objects
  known   \* the OIDs in gpServerOidTable

\* owned: there is a SID.  silence: ping periods since the last ping.
Sets == [live : BOOLEAN, oids : SUBSET Oid, sequence : 0..(SeqModulus - 1),
         owned : BOOLEAN, silence : 0..TimeoutPeriods]

Unused == [live |-> FALSE, oids |-> {}, sequence |-> 0, owned |-> FALSE, silence |-> 0]

Requests == [setid : SetId \cup {NoSet}, sequence : 0..(SeqModulus - 1),
             secure : BOOLEAN, adds : SUBSET Oid, dels : SUBSET Oid]

\* sequence - _sequence, in a USHORT.
Ahead(s, n) == (n + SeqModulus - sets[s].sequence) % SeqModulus

\* Mutant: any other number will do.
AcceptsOther(s, n) == Ahead(s, n) # 0

\* CheckAndUpdateSequenceNumber: neither a ping seen before nor one from long
\* ago.
Accepts(s, n) == Ahead(s, n) \in 1..BaseNumberOfPings

\* CheckSecurity: the SID of an unauthenticated caller cannot be had.
MayUse(s, r) == sets[s].owned => r.secure

\* CServerSetTable::Allocate, as the constructor of CServerSet leaves it.
Allocated(r) ==
  [Unused EXCEPT !.live = TRUE, !.owned = r.secure,
                 !.sequence = (r.sequence + SeqModulus - 1) % SeqModulus]

\* Ping, AddObject and RemoveObject: of the additions A were processed.
Updated(set, r, A) ==
  [set EXCEPT !.sequence = r.sequence, !.silence = 0,
              !.oids = (@ \cup (A \cap known)) \ r.dels]

\* ComplexPingInternal, for a set that exists ...
Refused(r, answer) ==
  /\ r.setid # NoSet
  /\ \/ ~ sets[r.setid].live /\ answer = "badset"
     \/ sets[r.setid].live /\ ~ MayUse(r.setid, r) /\ answer = "noaccess"
  /\ UNCHANGED sets

Ignored(r) ==
  /\ r.setid # NoSet
  /\ sets[r.setid].live /\ MayUse(r.setid, r) /\ ~ Accepts(r.setid, r.sequence)
  /\ UNCHANGED sets

\* The additions processed are all, or those before one for which there was
\* no memory; deletions are processed in any case.
Answer(r, A) ==
  IF A # r.adds THEN "nomem" ELSE IF A \subseteq known THEN "ok" ELSE "badoid"

Processes(r, A) ==
  A = r.adds \/ (r.adds \ A) \cap known # {}

Applied(r, A) ==
  /\ r.setid # NoSet
  /\ sets[r.setid].live /\ MayUse(r.setid, r) /\ Accepts(r.setid, r.sequence)
  /\ sets' = [sets EXCEPT ![r.setid] = Updated(@, r, A)]

\* ... and for a client that has none: s is a new ID.
Created(r, s, A) ==
  /\ r.setid = NoSet
  /\ ~ sets[s].live
  /\ sets' = [sets EXCEPT ![s] = Updated(Allocated(r), r, A)]

\* _SimplePing, of a set that exists.
Renewed(s) == sets' = [sets EXCEPT ![s].silence = 0]

\* RundownSetIfNeeded.  A local set is kept as long as it has OIDs.
RundownSet(s, local) ==
  /\ sets[s].live /\ sets[s].silence = TimeoutPeriods
  /\ local => sets[s].oids = {}
  /\ sets' = [sets EXCEPT ![s] = Unused]
  /\ UNCHANGED known

\* One ping period passes.
Aged ==
  [s \in SetId |->
     IF sets[s].live /\ sets[s].silence < TimeoutPeriods
     THEN [sets[s] EXCEPT !.silence = @ + 1] ELSE sets[s]]
=============================================================================
