--------------------------- MODULE ClientSetProofs ---------------------------
(***************************************************************************)
(* For any OIDs, sets, faults and sizes: what a client believes to be in   *)
(* its set is there (BeliefExact), and the types of both sides' state.     *)
(* Then, that no ping is processed late (PingsInOrder), and that nothing   *)
(* is left behind in a set (NothingLeaked).                                *)
(*                                                                         *)
(* What the server does with a request is stated once (Served).  A step of *)
(* the client is then a change of its lists, of the call it is in, or of   *)
(* both, and one part of the invariant is about each.                      *)
(***************************************************************************)
EXTENDS ClientSet, Integers, TLAPS

ClientTypes ==
  /\ local \in BOOLEAN
  /\ listed \subseteq Oid /\ held \subseteq listed /\ in \subseteq listed
  /\ change \in BOOLEAN /\ setid \in SetId \cup {NoSet}
  /\ sequence \in 0..(SeqModulus - 1) /\ failed \in 0..(MaxFailedPings + 1)
  /\ binding \in {"none", "secure", "plain"}
  /\ faults \in 0..MaxFaults

NetTypes == net \subseteq Copies /\ newest \in [SetId -> 0..(MaxAge + 1)]

SetTypes == sets \in [SetId -> Sets] /\ known \subseteq Oid /\ astray \subseteq Oid

\* The changes of a ping are those of listed OIDs that are in the set, or not
\* yet; they change only with the outcome.
PingShape ==
  /\ ping \in Pings
  /\ ping.adds \subseteq listed /\ ping.dels \subseteq listed
  /\ ping.adds \cap in = {} /\ ping.adds \cap ping.dels = {}
  /\ ping.moreAdds \subseteq ping.adds /\ ping.moreDels \subseteq ping.dels
  /\ ping.gone \subseteq ping.dels
  /\ ping.at \notin {"calling", "finish"} => ping.gone = {}
  /\ ping.at = "finish" /\ ping.ok => ping.moreAdds = {} /\ ping.moreDels = {}

Types == ClientTypes /\ NetTypes /\ SetTypes /\ PingShape

-----------------------------------------------------------------------------
(* Requests and what the server does with them *)

\* Sequence numbers: what is left of a sum that passes the modulus once.
LEMMA Modulo ==
  ASSUME NEW n \in Int, NEW M \in Nat, M > 0
  PROVE  /\ n \in 0..(M - 1) => n % M = n
         /\ n \in M..(2 * M - 1) => n % M = n - M
         /\ n % M \in 0..(M - 1)
<1>1. n \in 0..(M - 1) => n % M = n
  OBVIOUS
<1>2. n \in M..(2 * M - 1) => n % M = n - M
  OBVIOUS
<1>3. n % M \in 0..(M - 1)
  OBVIOUS
<1> QED BY <1>1, <1>2, <1>3

LEMMA NextRequest ==
  ASSUME Types, NEW r \in NextRequests
  PROVE  /\ r \in Requests
         /\ r.setid = setid /\ r.sequence = (sequence + 1) % SeqModulus
         /\ r.adds \subseteq ping.moreAdds /\ r.dels \subseteq ping.moreDels
<1>1. PICK A \in Chunks(ping.moreAdds), D \in Chunks(ping.moreDels) :
        r = [setid |-> setid, sequence |-> (sequence + 1) % SeqModulus,
             secure |-> ~ local /\ binding = "secure", adds |-> A, dels |-> D]
  BY DEF NextRequests
<1>2. A \subseteq ping.moreAdds /\ D \subseteq ping.moreDels
  BY DEF Chunks
<1>3. A \in SUBSET Oid /\ D \in SUBSET Oid
  BY <1>2 DEF Types, PingShape, ClientTypes
<1>4. (sequence + 1) % SeqModulus \in 0..(SeqModulus - 1)
  BY Modulo, PingSetsAssumption DEF Types, ClientTypes
<1>5. setid \in SetId \cup {NoSet} /\ (~ local /\ binding = "secure") \in BOOLEAN
  BY DEF Types, ClientTypes
<1> QED BY <1>1, <1>2, <1>3, <1>4, <1>5 DEF Requests

\* A set after a request of which the additions A were processed.
After(oids, r, A) == (oids \cup (A \cap known)) \ r.dels

LEMMA SetRecord ==
  ASSUME NEW x \in Sets, NEW n \in 0..(SeqModulus - 1), NEW O \in SUBSET Oid
  PROVE  [x EXCEPT !.sequence = n, !.silence = 0, !.oids = O] \in Sets
<1>1. 0 \in 0..TimeoutPeriods
  BY PingSetsAssumption
<1> QED BY <1>1 DEF Sets

Processed(r, s, answer, A) ==
  /\ answer # "nomem" => A = r.adds
  /\ r.setid # NoSet => sets'[s].oids = After(sets[s].oids, r, A)
  /\ r.setid = NoSet => sets'[s].oids = After({}, r, A)

LEMMA Served ==
  ASSUME SetTypes, NEW r \in Requests, NEW s \in SetId, NEW answer, NEW age, NEW since,
         Serves(r, s, answer, age, since)
  PROVE  /\ sets' \in [SetId -> Sets]
         /\ \A t \in SetId : t # s => sets'[t] = sets[t]
         /\ sets'[s].live /\ sets'[s].sequence = r.sequence
         /\ \E A \in SUBSET r.adds : Processed(r, s, answer, A)
         /\ r.setid # NoSet => s = r.setid /\ sets[s].live /\ Accepts(s, r.sequence)
         /\ r.setid = NoSet => Free(s)
         /\ Compared([since EXCEPT ![s] = age])
<1>1. PICK A \in SUBSET r.adds :
        /\ answer = Answer(r, A)
        /\ (s = r.setid /\ Applied(r, A)) \/ (Free(s) /\ Created(r, s, A))
        /\ Compared([since EXCEPT ![s] = age])
  BY DEF Serves
<1>2. answer # "nomem" => A = r.adds
  BY <1>1 DEF Answer
<1>3. A \subseteq Oid /\ r.sequence \in 0..(SeqModulus - 1) /\ r.secure \in BOOLEAN /\ r.dels \subseteq Oid
  BY DEF Requests
<1>4. ASSUME NEW x \in Sets
      PROVE  /\ Updated(x, r, A) \in Sets
             /\ Updated(x, r, A).oids = After(x.oids, r, A)
             /\ Updated(x, r, A).sequence = r.sequence
             /\ Updated(x, r, A).live = x.live
  <2>1. (x.oids \cup (A \cap known)) \ r.dels \in SUBSET Oid
    BY <1>3, <1>4 DEF Sets, SetTypes
  <2>2. Updated(x, r, A) \in Sets
    <3>1. Updated(x, r, A) = [x EXCEPT !.sequence = r.sequence, !.silence = 0,
                                       !.oids = (x.oids \cup (A \cap known)) \ r.dels]
      BY <1>4 DEF Updated, Sets
    <3>2. r.sequence \in 0..(SeqModulus - 1)
      BY <1>3
    <3> DEFINE O == (x.oids \cup (A \cap known)) \ r.dels
    <3>3. O \in SUBSET Oid
      BY <2>1
    <3> HIDE DEF O
    <3>4. [x EXCEPT !.sequence = r.sequence, !.silence = 0, !.oids = O] \in Sets
      BY <1>4, <3>2, <3>3, SetRecord
    <3> QED BY <3>1, <3>4 DEF O
  <2>3. Updated(x, r, A).oids = After(x.oids, r, A)
    BY <1>4 DEF Updated, Sets, After
  <2>4. Updated(x, r, A).sequence = r.sequence /\ Updated(x, r, A).live = x.live
    BY <1>4 DEF Updated, Sets
  <2> QED BY <2>2, <2>3, <2>4
<1>5. Allocated(r) \in Sets /\ Allocated(r).oids = {} /\ Allocated(r).live
  <2>1. (r.sequence + SeqModulus - 1) % SeqModulus \in 0..(SeqModulus - 1)
    BY <1>3, Modulo, PingSetsAssumption
  <2>2. Unused \in Sets
    BY PingSetsAssumption DEF Unused, Sets
  <2>3. Allocated(r) \in Sets
    BY <1>3, <2>1, <2>2 DEF Allocated, Sets
  <2>4. Allocated(r).oids = {} /\ Allocated(r).live
    BY DEF Allocated, Unused
  <2> QED BY <2>3, <2>4
<1>6. CASE s = r.setid /\ Applied(r, A)
  <2>1. sets' = [sets EXCEPT ![s] = Updated(sets[s], r, A)] /\ sets[s].live
        /\ Accepts(s, r.sequence) /\ r.setid # NoSet
    BY <1>6 DEF Applied
  <2>2. sets[s] \in Sets
    BY DEF SetTypes
  <2>3. sets'[s] = Updated(sets[s], r, A) /\ \A t \in SetId : t # s => sets'[t] = sets[t]
    BY <2>1 DEF SetTypes
  <2>4. sets' \in [SetId -> Sets]
    BY <1>4, <2>1, <2>2 DEF SetTypes
  <2>5. Processed(r, s, answer, A)
    BY <1>2, <1>4, <1>6, <2>1, <2>2, <2>3 DEF Processed
  <2> QED BY <1>1, <1>4, <1>6, <2>1, <2>2, <2>3, <2>4, <2>5
<1>7. CASE Free(s) /\ Created(r, s, A)
  <2>1. sets' = [sets EXCEPT ![s] = Updated(Allocated(r), r, A)] /\ r.setid = NoSet
    BY <1>7 DEF Created
  <2>2. sets'[s] = Updated(Allocated(r), r, A) /\ \A t \in SetId : t # s => sets'[t] = sets[t]
    BY <2>1 DEF SetTypes
  <2>3. Updated(Allocated(r), r, A) \in Sets
    BY <1>4, <1>5
  <2>4. sets' \in [SetId -> Sets]
    BY <2>1, <2>3 DEF SetTypes
  <2>5. /\ Updated(Allocated(r), r, A).oids = After({}, r, A)
        /\ Updated(Allocated(r), r, A).sequence = r.sequence
        /\ Updated(Allocated(r), r, A).live
    BY <1>4, <1>5
  <2>6. Processed(r, s, answer, A)
    BY <1>2, <2>1, <2>2, <2>5 DEF Processed
  <2> QED BY <1>1, <1>7, <2>1, <2>2, <2>4, <2>5, <2>6
<1> QED BY <1>1, <1>6, <1>7

-----------------------------------------------------------------------------
(* What becomes of a ping in a call: gone is what its deletions are then *)

Kept ==
  /\ ping' \in Pings
  /\ ping'.adds = ping.adds /\ ping'.dels = ping.dels

\* The request r is taken for applied.
Advanced(r, gone) ==
  /\ Kept
  /\ ping'.moreAdds = ping.moreAdds \ r.adds /\ ping'.moreDels = ping.moreDels \ r.dels
  /\ ping'.gone = gone
  /\ ping'.at \in {"calling", "finish"}
  /\ ping'.at = "finish" => ping'.moreAdds = {} /\ ping'.moreDels = {}

Failed(gone) ==
  /\ Kept
  /\ ping'.moreAdds = {} /\ ping'.moreDels = {}
  /\ ping'.gone = gone
  /\ ping'.at = "finish" /\ ~ ping'.ok

Restarted(gone) ==
  /\ Kept
  /\ ping'.moreAdds = ping.adds /\ ping'.moreDels = ping.dels
  /\ ping'.gone = gone
  /\ ping'.at = "calling"

LEMMA PingFields ==
  ASSUME NEW p \in Pings
  PROVE  /\ p.at \in Stages /\ p.ok \in BOOLEAN /\ p.denials \in 0..(MaxDenials + 1)
         /\ p.adds \in SUBSET Oid /\ p.dels \in SUBSET Oid /\ p.gone \in SUBSET Oid
         /\ p.moreAdds \in SUBSET Oid /\ p.moreDels \in SUBSET Oid
BY DEF Pings

LEMMA PingRecord ==
  ASSUME NEW p \in Pings, NEW at \in Stages, NEW ok \in BOOLEAN, NEW A \in SUBSET Oid,
         NEW D \in SUBSET Oid, NEW G \in SUBSET Oid, NEW n \in 0..(MaxDenials + 1)
  PROVE  /\ [p EXCEPT !.at = at, !.ok = ok, !.moreAdds = A, !.moreDels = D] \in Pings
         /\ [p EXCEPT !.at = at, !.ok = ok] \in Pings
         /\ [p EXCEPT !.gone = G] \in Pings
         /\ [p EXCEPT !.moreAdds = A, !.moreDels = D] \in Pings
         /\ [p EXCEPT !.moreAdds = A, !.moreDels = D, !.gone = G] \in Pings
         /\ [p EXCEPT !.denials = n, !.moreAdds = A, !.moreDels = D] \in Pings
<1>1. [p EXCEPT !.at = at, !.ok = ok, !.moreAdds = A, !.moreDels = D] \in Pings
  BY DEF Pings
<1>2. [p EXCEPT !.at = at, !.ok = ok] \in Pings
  BY DEF Pings
<1>3. [p EXCEPT !.gone = G] \in Pings
  BY DEF Pings
<1>4. [p EXCEPT !.moreAdds = A, !.moreDels = D] \in Pings
  BY DEF Pings
<1>5. [p EXCEPT !.moreAdds = A, !.moreDels = D, !.gone = G] \in Pings
  BY DEF Pings
<1>6. [p EXCEPT !.denials = n, !.moreAdds = A, !.moreDels = D] \in Pings
  BY DEF Pings
<1> QED BY <1>1, <1>2, <1>3, <1>4, <1>5, <1>6

LEMMA Continues ==
  ASSUME NEW p \in Pings, p.at = "calling"
  PROVE  /\ Continued(p) \in Pings
         /\ Continued(p).adds = p.adds /\ Continued(p).dels = p.dels
         /\ Continued(p).moreAdds = p.moreAdds /\ Continued(p).moreDels = p.moreDels
         /\ Continued(p).gone = p.gone
         /\ Continued(p).at \in {"calling", "finish"}
         /\ Continued(p).at = "finish" => p.moreAdds = {} /\ p.moreDels = {}
<1>1. CASE p.moreAdds \cup p.moreDels = {}
  <2>1. Continued(p) = [p EXCEPT !.at = "finish", !.ok = TRUE]
    BY <1>1 DEF Continued
  <2>2. "finish" \in Stages /\ TRUE \in BOOLEAN
    BY DEF Stages
  <2>3. [p EXCEPT !.at = "finish", !.ok = TRUE] \in Pings
    BY DEF Pings, Stages
  <2> QED BY <1>1, <2>1, <2>3 DEF Pings
<1>2. CASE p.moreAdds \cup p.moreDels # {}
  BY <1>2 DEF Continued
<1> QED BY <1>1, <1>2

LEMMA Abandons ==
  ASSUME NEW p \in Pings
  PROVE  /\ Abandoned(p) \in Pings
         /\ Abandoned(p).adds = p.adds /\ Abandoned(p).dels = p.dels
         /\ Abandoned(p).moreAdds = {} /\ Abandoned(p).moreDels = {}
         /\ Abandoned(p).gone = p.gone
         /\ Abandoned(p).at = "finish" /\ ~ Abandoned(p).ok
<1>1. Abandoned(p) \in Pings
  BY DEF Abandoned, Pings, Stages
<1> QED BY <1>1 DEF Abandoned, Pings

LEMMA PingOutcomes ==
  ASSUME Types, NEW r \in NextRequests, ping.at = "calling"
  PROVE  /\ ping' = Continued([Rest(r) EXCEPT !.gone = @ \cup r.dels])
              => Advanced(r, ping.gone \cup r.dels)
         /\ ping' = Continued(Rest(r)) => Advanced(r, ping.gone)
         /\ ping' = Abandoned([ping EXCEPT !.gone = @ \cup r.dels])
              => Failed(ping.gone \cup r.dels)
         /\ ping' = Abandoned(ping) => Failed(ping.gone)
         /\ ping' = [ping EXCEPT !.moreAdds = ping.adds, !.moreDels = ping.dels, !.gone = {}]
              => Restarted({})
         /\ ping.denials <= MaxDenials /\ ping' = [ping EXCEPT !.denials = @ + 1,
                                !.moreAdds = ping.adds, !.moreDels = ping.dels]
              => Restarted(ping.gone)
<1>1. ping \in Pings /\ r.dels \in SUBSET Oid /\ r.adds \in SUBSET Oid
  BY NextRequest DEF Types, PingShape, Requests
<1>2. ping.adds \in SUBSET Oid /\ ping.dels \in SUBSET Oid
      /\ ping.gone \cup r.dels \in SUBSET Oid
      /\ ping.moreAdds \ r.adds \in SUBSET Oid /\ ping.moreDels \ r.dels \in SUBSET Oid
  BY <1>1, PingFields
<1>3. Rest(r) = [ping EXCEPT !.moreAdds = ping.moreAdds \ r.adds,
                             !.moreDels = ping.moreDels \ r.dels]
  BY <1>1 DEF Rest, Pings
<1> DEFINE rest == Rest(r)
           sent == [ping EXCEPT !.gone = @ \cup r.dels]
           both == [rest EXCEPT !.gone = @ \cup r.dels]
<1>4. /\ rest \in Pings /\ rest.at = ping.at /\ rest.adds = ping.adds /\ rest.dels = ping.dels
      /\ rest.moreAdds = ping.moreAdds \ r.adds /\ rest.moreDels = ping.moreDels \ r.dels
      /\ rest.gone = ping.gone
  BY <1>1, <1>2, <1>3 DEF Pings
<1> HIDE DEF rest
<1>5. /\ both \in Pings /\ both.at = rest.at /\ both.adds = rest.adds /\ both.dels = rest.dels
      /\ both.moreAdds = rest.moreAdds /\ both.moreDels = rest.moreDels
      /\ both.gone = ping.gone \cup r.dels
  BY <1>2, <1>4 DEF Pings
<1>6. /\ sent \in Pings /\ sent.at = ping.at /\ sent.adds = ping.adds /\ sent.dels = ping.dels
      /\ sent.gone = ping.gone \cup r.dels
  BY <1>1, <1>2 DEF Pings
<1> HIDE DEF sent, both
<1>7. ping' = Continued(both) => Advanced(r, ping.gone \cup r.dels)
  BY <1>4, <1>5, Continues DEF Advanced, Kept
<1>8. ping' = Continued(rest) => Advanced(r, ping.gone)
  BY <1>4, Continues DEF Advanced, Kept
<1>9. ping' = Abandoned(sent) => Failed(ping.gone \cup r.dels)
  BY <1>6, Abandons DEF Failed, Kept
<1>10. ping' = Abandoned(ping) => Failed(ping.gone)
  BY <1>1, Abandons DEF Failed, Kept
<1>11. ping' = [ping EXCEPT !.moreAdds = ping.adds, !.moreDels = ping.dels, !.gone = {}]
         => Restarted({})
  BY <1>1, <1>2 DEF Restarted, Kept, Pings
<1>12. ASSUME ping.denials <= MaxDenials,
              ping' = [ping EXCEPT !.denials = @ + 1, !.moreAdds = ping.adds, !.moreDels = ping.dels]
       PROVE  Restarted(ping.gone)
  <2>1. ping.denials + 1 \in 0..(MaxDenials + 1)
    BY <1>1, <1>12, PingFields, ClientSetAssumption
  <2> QED BY <1>1, <1>2, <1>12, <2>1 DEF Restarted, Kept, Pings
<1> QED BY <1>7, <1>8, <1>9, <1>10, <1>11, <1>12 DEF rest, sent, both

LEMMA OutcomeShape ==
  ASSUME Types, NEW r \in NextRequests, UNCHANGED <<listed, in>>,
         NEW G \in {{}, ping.gone, ping.gone \cup r.dels},
         Advanced(r, G) \/ Failed(G) \/ Restarted(G)
  PROVE  PingShape'
<1>1. r.adds \subseteq ping.moreAdds /\ r.dels \subseteq ping.moreDels
  BY NextRequest
<1>2. G \subseteq ping.dels
  BY <1>1 DEF Types, PingShape
<1> QED BY <1>2 DEF Types, PingShape, Advanced, Failed, Restarted, Kept

-----------------------------------------------------------------------------
(* The network *)

Copy(r) == [request |-> r, age |-> 0]

LEMMA Aging ==
  ASSUME Types
  PROVE  Older \subseteq Copies /\ Since \in [SetId -> 0..(MaxAge + 1)]
<1>1. \A m \in Copies : m.age \in 0..MaxAge /\ m.request \in Requests
  BY DEF Copies
<1>2. ASSUME NEW m \in Copies, m.age < MaxAge PROVE [m EXCEPT !.age = @ + 1] \in Copies
  <2>1. m.age + 1 \in 0..MaxAge
    BY <1>1, <1>2, ClientSetAssumption
  <2> QED BY <1>2, <2>1 DEF Copies
<1>3. Older \subseteq Copies
  BY <1>2 DEF Older, Types, NetTypes
<1>4. \A n \in 0..(MaxAge + 1) : ~ n > MaxAge => n + 1 \in 0..(MaxAge + 1)
  BY ClientSetAssumption
<1>5. \A s \in SetId : newest[s] \in 0..(MaxAge + 1)
  BY DEF Types, NetTypes
<1>6. Since \in [SetId -> 0..(MaxAge + 1)]
  BY <1>4, <1>5 DEF Since
<1> QED BY <1>3, <1>6

LEMMA NetKept ==
  ASSUME NetTypes, NEW N \in SUBSET Copies, net' \subseteq N,
         NEW since \in [SetId -> 0..(MaxAge + 1)], Compared(since)
  PROVE  NetTypes'
<1>1. MaxAge + 1 \in 0..(MaxAge + 1)
  BY ClientSetAssumption
<1> QED BY <1>1 DEF NetTypes, Compared

\* A call leaves behind a copy of its request, or nothing.
CallLeaves(r) == net' = Older \/ net' = Older \cup {Copy(r)}

LEMMA Left ==
  ASSUME Types, NEW r \in Requests
  PROVE  /\ Gone => CallLeaves(r) /\ faults' \in 0..MaxFaults
         /\ \A fault : Leaves(r, fault) => CallLeaves(r) /\ faults' \in 0..MaxFaults
         /\ \A fault : Fault(fault) => faults' \in 0..MaxFaults
<1>1. \A fault : Fault(fault) => faults' \in 0..MaxFaults
  BY ClientSetAssumption DEF Types, ClientTypes, Fault
<1> QED BY <1>1 DEF Gone, Leaves, CallLeaves, Copy, Types, ClientTypes

LEMMA CallNetTypes ==
  ASSUME Types, NEW r \in Requests, CallLeaves(r)
  PROVE  /\ Compared(Since) => NetTypes'
         /\ \A s \in SetId : Compared([Since EXCEPT ![s] = 0]) => NetTypes'
<1>1. Copy(r) \in Copies
  BY ClientSetAssumption DEF Copy, Copies
<1>2. net' \subseteq Older \cup {Copy(r)} /\ Older \cup {Copy(r)} \in SUBSET Copies
  BY <1>1, Aging DEF CallLeaves
<1>3. \A s \in SetId : [Since EXCEPT ![s] = 0] \in [SetId -> 0..(MaxAge + 1)]
  BY Aging, ClientSetAssumption
<1> QED BY <1>2, <1>3, Aging, NetKept DEF Types

-----------------------------------------------------------------------------
(* What a call comes to, for the client and the server *)

\* The request was executed, and the client knows so.
Completed(r) ==
  \E s \in SetId, answer \in {"ok", "badoid", "nomem"} :
    /\ Serves(r, s, answer, 0, Since)
    /\ setid' = s /\ sequence' = r.sequence
    /\ \/ answer # "nomem" /\ Advanced(r, ping.gone \cup r.dels)
       \/ Failed(ping.gone \cup r.dels)
    /\ astray' = astray \ (r.adds \cup r.dels)

\* It was executed, and the client does not know.
Unnoticed(r) ==
  /\ \E s \in SetId, answer \in {"ok", "badoid"} : Serves(r, s, answer, 0, Since)
  /\ UNCHANGED <<setid, sequence>>
  /\ Failed(ping.gone \cup r.dels)
  /\ astray' = astray \ (r.adds \cup r.dels)

\* It was not, and the client does not know.
Mistaken(r) ==
  /\ UNCHANGED <<sets, setid>> /\ Compared(Since)
  /\ r.setid # NoSet
  /\ sequence' = r.sequence
  /\ Advanced(r, ping.gone)
  /\ astray' = astray \cup r.adds \cup r.dels

\* The set is gone.
Forgotten ==
  /\ UNCHANGED sets /\ Compared(Since)
  /\ setid' = NoSet /\ sequence' = 0
  /\ Restarted({})
  /\ astray' = astray \cup in

\* It was not executed, and the client knows so.
Unexecuted(r) ==
  /\ UNCHANGED <<sets, setid, astray>> /\ Compared(Since)
  /\ sequence' \in {sequence, r.sequence}
  /\ Failed(ping.gone) \/ Restarted(ping.gone)

CallEffect(r) ==
  /\ ping.at = "calling" /\ CallLeaves(r)
  /\ UNCHANGED <<local, listed, held, in, change, failed, known>>
  /\ faults' \in 0..MaxFaults /\ binding' \in {"none", "secure", "plain"}
  /\ Completed(r) \/ Unnoticed(r) \/ Mistaken(r) \/ Forgotten \/ Unexecuted(r)

LEMMA CallEffects ==
  ASSUME Types, Call
  PROVE  \E r \in NextRequests : CallEffect(r)
<1> USE DEF AfterServing
<1>0. binding \in {"none", "secure", "plain"} /\ faults \in 0..MaxFaults
      /\ \A r \in NextRequests : r \in Requests /\ r.setid = setid
  BY NextRequest DEF Types, ClientTypes
<1>1. CASE CallSucceeds
  <2>1. PICK r \in NextRequests, s \in SetId, answer \in {"ok", "badoid"} :
          /\ ping.at = "calling"
          /\ Gone \/ Leaves(r, "twice")
          /\ Serves(r, s, answer, 0, Since)
          /\ setid' = s /\ sequence' = r.sequence
          /\ ping' = Continued([Rest(r) EXCEPT !.gone = @ \cup r.dels])
          /\ AfterServing(r) /\ UNCHANGED binding
    BY <1>1 DEF CallSucceeds
  <2>2. CallLeaves(r) /\ faults' \in 0..MaxFaults
    BY <1>0, <2>1, Left
  <2>3. Advanced(r, ping.gone \cup r.dels)
    BY <2>1, PingOutcomes
  <2>4. Completed(r)
    BY <2>1, <2>3 DEF Completed
  <2> QED BY <1>0, <2>1, <2>2, <2>4 DEF CallEffect
<1>2. CASE CallIgnored
  <2>1. PICK r \in NextRequests :
          /\ ping.at = "calling"
          /\ Gone /\ Ignored(r) /\ Compared(Since)
          /\ sequence' = r.sequence
          /\ ping' = Continued(Rest(r))
          /\ astray' = astray \cup r.adds \cup r.dels
          /\ UNCHANGED <<local, listed, held, in, change, setid, failed, binding, known>>
    BY <1>2 DEF CallIgnored
  <2>2. CallLeaves(r) /\ faults' \in 0..MaxFaults
    BY <1>0, <2>1, Left
  <2>3. Mistaken(r)
    BY <2>1, PingOutcomes DEF Mistaken, Ignored
  <2> QED BY <1>0, <2>1, <2>2, <2>3 DEF CallEffect
<1>3. CASE CallShort
  <2>1. PICK r \in NextRequests, s \in SetId :
          /\ ping.at = "calling"
          /\ Fault("nomem") /\ net' = Older
          /\ Serves(r, s, "nomem", 0, Since)
          /\ setid' = s /\ sequence' = r.sequence
          /\ ping' = Abandoned([ping EXCEPT !.gone = @ \cup r.dels])
          /\ AfterServing(r) /\ UNCHANGED binding
    BY <1>3 DEF CallShort
  <2>2. CallLeaves(r) /\ faults' \in 0..MaxFaults
    BY <1>0, <2>1, Left DEF CallLeaves
  <2>3. Failed(ping.gone \cup r.dels)
    BY <2>1, PingOutcomes
  <2>4. Completed(r)
    BY <2>1, <2>3 DEF Completed
  <2> QED BY <1>0, <2>1, <2>2, <2>4 DEF CallEffect
<1>4. CASE CallBadSet
  <2>1. PICK r \in NextRequests :
          /\ ping.at = "calling"
          /\ Gone /\ Refused(r, "badset") /\ Compared(Since)
          /\ setid' = NoSet /\ sequence' = 0
          /\ ping' = [ping EXCEPT !.moreAdds = ping.adds, !.moreDels = ping.dels, !.gone = {}]
          /\ astray' = astray \cup in
          /\ UNCHANGED <<local, listed, held, in, change, failed, binding, known>>
    BY <1>4 DEF CallBadSet
  <2>2. CallLeaves(r) /\ faults' \in 0..MaxFaults
    BY <1>0, <2>1, Left
  <2>3. Forgotten
    BY <2>1, PingOutcomes DEF Forgotten, Refused
  <2> QED BY <1>0, <2>1, <2>2, <2>3 DEF CallEffect
<1>5. CASE CallDenied
  <2>1. PICK r \in NextRequests :
          /\ ping.at = "calling"
          /\ \/ UNCHANGED faults /\ Refused(r, "noaccess")
             \/ r.secure /\ Fault("denied") /\ UNCHANGED sets
          /\ net' = Older /\ Compared(Since)
          /\ IF ping.denials > MaxDenials
             THEN /\ ping' = Abandoned(ping)
                  /\ binding' = "none" /\ UNCHANGED sequence
             ELSE /\ ping' = [ping EXCEPT !.denials = @ + 1, !.moreAdds = ping.adds,
                                          !.moreDels = ping.dels]
                  /\ binding' = "plain" /\ sequence' = r.sequence
          /\ UNCHANGED <<local, listed, held, in, change, setid, failed, astray, known>>
    BY <1>5 DEF CallDenied
  <2>2. CallLeaves(r) /\ faults' \in 0..MaxFaults
    BY <1>0, <2>1, Left DEF CallLeaves
  <2>3. ping.denials \in 0..(MaxDenials + 1) /\ (~ ping.denials > MaxDenials => ping.denials <= MaxDenials)
    BY ClientSetAssumption, PingFields DEF Types, PingShape
  <2>4. UNCHANGED sets
    BY <2>1 DEF Refused
  <2>5. Unexecuted(r)
    BY <2>1, <2>3, <2>4, PingOutcomes DEF Unexecuted
  <2> QED BY <1>0, <2>1, <2>2, <2>5 DEF CallEffect
<1>6. CASE CallBusy
  <2>1. PICK r \in NextRequests :
          /\ ping.at = "calling"
          /\ Fault("busy") \/ UNCHANGED faults
          /\ net' = Older /\ Compared(Since)
          /\ sequence' = r.sequence
          /\ ping' = Abandoned(ping)
          /\ UNCHANGED <<local, listed, held, in, change, setid, failed, binding, astray, sets,
                         known>>
    BY <1>6 DEF CallBusy
  <2>2. CallLeaves(r) /\ faults' \in 0..MaxFaults
    BY <1>0, <2>1, Left DEF CallLeaves
  <2>3. Unexecuted(r)
    BY <2>1, PingOutcomes DEF Unexecuted
  <2> QED BY <1>0, <2>1, <2>2, <2>3 DEF CallEffect
<1>7. CASE CallLost
  <2>1. PICK r \in NextRequests :
          /\ ping.at = "calling"
          /\ (Fault("lost") /\ net' = Older) \/ Leaves(r, "late")
          /\ Compared(Since)
          /\ ping' = Abandoned(ping) /\ binding' = "none"
          /\ UNCHANGED <<local, listed, held, in, change, setid, sequence, failed, astray,
                         sets, known>>
    BY <1>7 DEF CallLost
  <2>2. CallLeaves(r) /\ faults' \in 0..MaxFaults
    BY <1>0, <2>1, Left DEF CallLeaves
  <2>3. Unexecuted(r)
    BY <2>1, PingOutcomes DEF Unexecuted
  <2> QED BY <2>1, <2>2, <2>3 DEF CallEffect
<1>8. CASE CallUnanswered
  <2>1. PICK r \in NextRequests, s \in SetId, answer \in {"ok", "badoid"} :
          /\ ping.at = "calling"
          /\ Fault("noreply") /\ net' = Older
          /\ Serves(r, s, answer, 0, Since)
          /\ ping' = Abandoned([ping EXCEPT !.gone = @ \cup r.dels]) /\ binding' = "none"
          /\ AfterServing(r) /\ UNCHANGED <<setid, sequence>>
    BY <1>8 DEF CallUnanswered
  <2>2. CallLeaves(r) /\ faults' \in 0..MaxFaults
    BY <1>0, <2>1, Left DEF CallLeaves
  <2>3. Unnoticed(r)
    BY <2>1, PingOutcomes DEF Unnoticed
  <2> QED BY <2>1, <2>2, <2>3 DEF CallEffect
<1> QED BY <1>1, <1>2, <1>3, <1>4, <1>5, <1>6, <1>7, <1>8 DEF Call

-----------------------------------------------------------------------------
(* The invariant *)

Live == setid # NoSet /\ sets[setid].live

\* BeliefExact, and what becomes of it while there is no set.
Belief ==
  /\ setid = NoSet => in \subseteq astray \cup ping.gone
  /\ Live => (in \cap known) \ (astray \cup ping.gone) \subseteq sets[setid].oids

\* A ping that has not failed.
Going == ping.at = "calling" \/ (ping.at = "finish" /\ ping.ok)

\* Its additions that need not be sent any more are in the set; without a set,
\* all changes are to be sent.
Sent ==
  Going =>
    /\ setid = NoSet => ping.adds \subseteq ping.moreAdds /\ ping.dels \subseteq ping.moreDels
    /\ Live => ((ping.adds \ ping.moreAdds) \cap known) \ astray \subseteq sets[setid].oids

BInv == Types /\ Belief /\ Sent

\* A set that exists after a step was there before, as it is now.
Quiet ==
  /\ sets' \in [SetId -> Sets]
  /\ \A t \in SetId :
       /\ sets'[t].live => /\ sets[t].live /\ sets'[t].oids = sets[t].oids
                           /\ sets'[t].sequence = sets[t].sequence
       /\ ~ sets'[t].live => sets'[t].oids = IF sets[t].live THEN {} ELSE sets[t].oids

LEMMA QuietKeeps ==
  ASSUME BInv, Quiet, UNCHANGED <<setid, in, astray, known>>,
         ping'.gone = ping.gone, ping'.adds = ping.adds, ping'.dels = ping.dels,
         ping'.moreAdds = ping.moreAdds, ping'.moreDels = ping.moreDels, Going' => Going
  PROVE  Belief' /\ Sent'
<1>1. Live' => Live /\ sets'[setid].oids = sets[setid].oids
  BY DEF Live, Quiet, BInv, Types, ClientTypes
<1>2. Belief'
  BY <1>1 DEF BInv, Belief
<1>3. Sent'
  BY <1>1 DEF BInv, Sent
<1> QED BY <1>2, <1>3

LEMMA CallTypes ==
  ASSUME Types, NEW r \in NextRequests, CallEffect(r)
  PROVE  Types'
<1>1. r \in Requests /\ r.sequence \in 0..(SeqModulus - 1) /\ r.adds \subseteq Oid /\ r.dels \subseteq Oid
  BY NextRequest DEF Requests
<1>2. PingShape'
  <2>1. \E G \in {{}, ping.gone, ping.gone \cup r.dels} : Advanced(r, G) \/ Failed(G) \/ Restarted(G)
    BY DEF CallEffect, Completed, Unnoticed, Mistaken, Forgotten, Unexecuted
  <2> QED BY <2>1, OutcomeShape DEF CallEffect
<1>3. setid' \in SetId \cup {NoSet} /\ sequence' \in 0..(SeqModulus - 1)
  BY <1>1, PingSetsAssumption
  DEF CallEffect, Completed, Unnoticed, Mistaken, Forgotten, Unexecuted, Types, ClientTypes
<1>4. ClientTypes'
  BY <1>3 DEF CallEffect, Types, ClientTypes
<1>5. astray' \subseteq Oid
  BY <1>1
  DEF CallEffect, Completed, Unnoticed, Mistaken, Forgotten, Unexecuted, Types, SetTypes, ClientTypes
<1>6. sets' \in [SetId -> Sets] /\ NetTypes'
  <2>1. CASE \E s \in SetId : \E answer : Serves(r, s, answer, 0, Since)
    <3>1. PICK s \in SetId : \E answer : Serves(r, s, answer, 0, Since)
      BY <2>1
    <3>2. PICK answer : Serves(r, s, answer, 0, Since)
      BY <3>1
    <3>3. sets' \in [SetId -> Sets] /\ Compared([Since EXCEPT ![s] = 0])
      BY <1>1, <3>2, Served DEF Types
    <3> QED BY <1>1, <3>3, CallNetTypes DEF CallEffect
  <2>2. CASE UNCHANGED sets /\ Compared(Since)
    BY <1>1, <2>2, CallNetTypes DEF CallEffect, Types, SetTypes
  <2> QED BY <2>1, <2>2 DEF CallEffect, Completed, Unnoticed, Mistaken, Forgotten, Unexecuted
<1> QED BY <1>2, <1>4, <1>5, <1>6 DEF Types, SetTypes, CallEffect

\* The set of the client after a call that was executed.
LEMMA ServedSet ==
  ASSUME Types, NEW r \in NextRequests, NEW s \in SetId, NEW answer,
         Serves(r, s, answer, 0, Since)
  PROVE  \E A \in SUBSET r.adds :
           /\ answer # "nomem" => A = r.adds
           /\ setid # NoSet => s = setid /\ sets[setid].live
                               /\ sets'[s].oids = After(sets[setid].oids, r, A)
           /\ setid = NoSet => sets'[s].oids = After({}, r, A)
<1>1. r \in Requests /\ r.setid = setid /\ SetTypes
  BY NextRequest DEF Types
<1>2. PICK A \in SUBSET r.adds : Processed(r, s, answer, A)
  BY <1>1, Served
<1>3. r.setid # NoSet => s = r.setid /\ sets[s].live
  BY <1>1, Served
<1> QED BY <1>1, <1>2, <1>3 DEF Processed

LEMMA CallKeeps ==
  ASSUME BInv, NEW r \in NextRequests, CallEffect(r)
  PROVE  BInv'
<1>1. Types'
  BY CallTypes DEF BInv
<1>2. r.adds \subseteq ping.moreAdds /\ r.dels \subseteq ping.moreDels /\ NoSet \notin SetId
      /\ r.setid = setid
  BY NextRequest, PingSetsAssumption DEF BInv
<1>3. /\ ping.at = "calling" /\ Going
      /\ UNCHANGED <<listed, held, in, known>>
  BY DEF CallEffect, Going
<1>4. PingShape
  BY DEF BInv, Types
<1>5. CASE Completed(r)
  <2>1. PICK s \in SetId, answer \in {"ok", "badoid", "nomem"} :
          /\ Serves(r, s, answer, 0, Since)
          /\ setid' = s
          /\ \/ answer # "nomem" /\ Advanced(r, ping.gone \cup r.dels)
             \/ Failed(ping.gone \cup r.dels)
          /\ astray' = astray \ (r.adds \cup r.dels)
    BY <1>5 DEF Completed
  <2>2. PICK A \in SUBSET r.adds :
          /\ answer # "nomem" => A = r.adds
          /\ setid # NoSet => s = setid /\ sets[setid].live
                              /\ sets'[s].oids = After(sets[setid].oids, r, A)
          /\ setid = NoSet => sets'[s].oids = After({}, r, A)
    BY <2>1, ServedSet DEF BInv
  <2>3. ping'.gone = ping.gone \cup r.dels /\ ping'.adds = ping.adds /\ ping'.dels = ping.dels
    BY <2>1 DEF Advanced, Failed, Kept
  <2>4. Belief'
    BY <1>2, <1>3, <1>4, <2>1, <2>2, <2>3 DEF BInv, Belief, PingShape, After, Live
  <2>5. Going' => answer # "nomem" /\ ping'.moreAdds = ping.moreAdds \ r.adds
    BY <2>1 DEF Advanced, Failed, Going
  <2>6. Sent'
    BY <1>2, <1>3, <1>4, <2>1, <2>2, <2>3, <2>5 DEF BInv, Sent, PingShape, After, Live
  <2> QED BY <1>1, <2>4, <2>6 DEF BInv
<1>6. CASE Unnoticed(r)
  <2>1. PICK s \in SetId, answer \in {"ok", "badoid"} : Serves(r, s, answer, 0, Since)
    BY <1>6 DEF Unnoticed
  <2>2. PICK A \in SUBSET r.adds :
          /\ setid # NoSet => s = setid /\ sets[setid].live
                              /\ sets'[s].oids = After(sets[setid].oids, r, A)
    BY <2>1, ServedSet DEF BInv
  <2>3. /\ ping'.gone = ping.gone \cup r.dels /\ ~ Going'
        /\ astray' = astray \ (r.adds \cup r.dels) /\ setid' = setid
    BY <1>6 DEF Unnoticed, Failed, Going
  <2>4. Belief'
    BY <1>2, <1>3, <1>4, <2>2, <2>3 DEF BInv, Belief, PingShape, After, Live
  <2> QED BY <1>1, <2>3, <2>4 DEF BInv, Sent
<1>7. CASE Mistaken(r)
  <2>1. /\ UNCHANGED <<sets, setid>> /\ setid # NoSet
        /\ ping'.gone = ping.gone /\ ping'.adds = ping.adds
        /\ ping'.moreAdds = ping.moreAdds \ r.adds
        /\ astray' = astray \cup r.adds \cup r.dels
    BY <1>2, <1>7 DEF Mistaken, Advanced, Kept
  <2>2. Belief'
    BY <1>3, <2>1 DEF BInv, Belief, Live
  <2>3. Sent'
    BY <1>3, <2>1 DEF BInv, Sent, Live
  <2> QED BY <1>1, <2>2, <2>3 DEF BInv
<1>8. CASE Forgotten
  <2>1. /\ setid' = NoSet /\ ping'.adds = ping'.moreAdds /\ ping'.dels = ping'.moreDels
        /\ astray' = astray \cup in
    BY <1>8 DEF Forgotten, Restarted, Kept
  <2> QED BY <1>1, <1>3, <2>1 DEF BInv, Belief, Sent, Live
<1>9. CASE Unexecuted(r)
  <2>1. /\ UNCHANGED <<sets, setid, astray>> /\ ping'.gone = ping.gone
        /\ Going' => ping'.adds = ping'.moreAdds /\ ping'.dels = ping'.moreDels
    BY <1>9 DEF Unexecuted, Failed, Restarted, Kept, Going
  <2>2. Belief'
    BY <1>3, <2>1 DEF BInv, Belief, Live
  <2>3. Sent'
    BY <1>3, <2>1 DEF BInv, Sent, Live
  <2> QED BY <1>1, <2>2, <2>3 DEF BInv
<1> QED BY <1>5, <1>6, <1>7, <1>8, <1>9 DEF CallEffect

-----------------------------------------------------------------------------
(* The other steps *)

LEMMA AtStage ==
  ASSUME NEW stage \in Stages
  PROVE  /\ At(stage) \in Pings /\ At(stage).at = stage /\ ~ At(stage).ok
         /\ At(stage).adds = {} /\ At(stage).dels = {} /\ At(stage).gone = {}
         /\ At(stage).moreAdds = {} /\ At(stage).moreDels = {}
<1>1. 0 \in 0..(MaxDenials + 1) /\ FALSE \in BOOLEAN
  BY ClientSetAssumption
<1>2. At(stage) \in Pings
  BY <1>1 DEF At, Pings
<1> QED BY <1>2 DEF At

\* A step at whose end there is no ping, or one that failed.
LEMMA StoppedKeeps ==
  ASSUME BInv, ping' \in Pings, ping'.adds \subseteq listed', ping'.dels \subseteq listed',
         ping'.adds \cap in' = {}, ping'.adds \cap ping'.dels = {},
         ping'.moreAdds = {}, ping'.moreDels = {}, ping'.gone = {}, ~ ping'.ok,
         ping'.at # "calling",
         ClientTypes', NetTypes', SetTypes', Belief'
  PROVE  BInv'
<1>1. PingShape'
  BY DEF PingShape
<1>2. Sent'
  BY DEF Sent, Going
<1> QED BY <1>1, <1>2 DEF BInv, Types

LEMMA QueuedKeeps ==
  ASSUME BInv, NEW stage \in Stages, stage # "calling", ping' = At(stage),
         ClientTypes', NetTypes', SetTypes', Belief'
  PROVE  BInv'
BY AtStage, StoppedKeeps

LEMMA UseKeeps ==
  ASSUME BInv, NEW o \in Oid, Use(o)
  PROVE  BInv'
<1>1. /\ held' = held \cup {o} /\ listed' = listed \cup {o} /\ change' = TRUE
      /\ failed' \in 0..(MaxFailedPings + 1)
      /\ ping' = IF ping.at = "none" THEN At("queued") ELSE ping
      /\ UNCHANGED <<local, in, setid, sequence, binding, net, faults, newest, astray, sets, known>>
  BY ClientSetAssumption DEF Use, BInv, Types, ClientTypes, network, history
<1>2. ClientTypes' /\ NetTypes' /\ SetTypes'
  BY <1>1 DEF BInv, Types, ClientTypes, NetTypes, SetTypes
<1>3. CASE ping.at = "none"
  <2>1. "queued" \in Stages /\ ping.gone = {} /\ ping' = At("queued")
    BY <1>1, <1>3 DEF Stages, BInv, Types, PingShape
  <2>2. Belief'
    BY <1>1, <2>1, AtStage DEF BInv, Belief, Live
  <2> QED BY <1>2, <2>1, <2>2, QueuedKeeps
<1>4. CASE ping.at # "none"
  <2>1. ping' = ping
    BY <1>1, <1>4
  <2>2. PingShape'
    BY <1>1, <2>1 DEF BInv, Types, PingShape
  <2>3. Belief' /\ Sent'
    BY <1>1, <2>1 DEF BInv, Belief, Sent, Live, Going
  <2> QED BY <1>2, <2>2, <2>3 DEF BInv, Types
<1> QED BY <1>3, <1>4

LEMMA DropKeeps ==
  ASSUME BInv, NEW o \in Oid, Drop(o)
  PROVE  BInv'
<1>1. /\ held' = held \ {o} /\ change' = TRUE
      /\ UNCHANGED <<local, listed, in, failed, setid, sequence, binding, ping, net, faults,
                     newest, astray, sets, known>>
  BY DEF Drop, network, history
<1>2. Types'
  BY <1>1 DEF BInv, Types, ClientTypes, NetTypes, SetTypes, PingShape
<1>3. Belief' /\ Sent'
  BY <1>1 DEF BInv, Belief, Sent, Live, Going
<1> QED BY <1>2, <1>3 DEF BInv

\* Collecting: without a set no OID is In(), unless it is astray.
LEMMA CollectKeeps ==
  ASSUME BInv, Collect
  PROVE  BInv'
<1> DEFINE stage == IF local \/ Adds \cup Dels # {} THEN "calling" ELSE "finish"
<1>1. /\ ping.at = "due" /\ change' = FALSE
      /\ binding' \in {"none", "secure", "plain"}
      /\ ping' = [At(stage) EXCEPT !.adds = Adds, !.dels = Dels, !.moreAdds = Adds,
                                   !.moreDels = Dels, !.ok = TRUE]
      /\ UNCHANGED <<local, listed, held, in, setid, sequence, failed, net, faults, newest,
                     astray, sets, known>>
  BY DEF Collect, network, history, BInv, Types, ClientTypes
<1>2. stage \in Stages /\ (stage = "finish" => Adds = {} /\ Dels = {})
  BY DEF Stages
<1>3. Adds \in SUBSET Oid /\ Dels \in SUBSET Oid /\ Adds \subseteq listed /\ Dels \subseteq listed
      /\ Adds \cap in = {} /\ Adds \cap Dels = {}
  BY DEF Adds, Dels, BInv, Types, ClientTypes
<1> HIDE DEF stage
<1>4. /\ ping' \in Pings /\ ping'.at = stage /\ ping'.ok /\ ping'.gone = {}
      /\ ping'.adds = Adds /\ ping'.dels = Dels /\ ping'.moreAdds = Adds /\ ping'.moreDels = Dels
  <2>1. At(stage) \in Pings /\ At(stage).at = stage /\ At(stage).gone = {}
    BY <1>2, AtStage
  <2>2. ping' \in Pings
    BY <1>1, <1>3, <2>1 DEF Pings
  <2> QED BY <1>1, <2>1, <2>2 DEF Pings
<1>5. PingShape'
  BY <1>1, <1>2, <1>3, <1>4 DEF PingShape
<1>6. ClientTypes' /\ NetTypes' /\ SetTypes'
  BY <1>1 DEF BInv, Types, ClientTypes, NetTypes, SetTypes
<1>7. Belief'
  <2>1. ping.gone = {}
    BY <1>1 DEF BInv, Types, PingShape
  <2> QED BY <1>1, <1>4, <2>1 DEF BInv, Belief, Live
<1>8. Sent'
  BY <1>4 DEF Sent
<1> QED BY <1>5, <1>6, <1>7, <1>8 DEF BInv, Types

LEMMA CollectFails ==
  ASSUME BInv, CollectUnbound \/ CollectUnbuffered
  PROVE  BInv'
<1>1. /\ ping.at = "due" /\ change' = FALSE
      /\ binding' \in {"none", "secure", "plain"} /\ faults' \in 0..MaxFaults
      /\ UNCHANGED <<local, listed, held, in, setid, sequence, failed, net, newest,
                     astray, sets, known>>
  BY ClientSetAssumption
  DEF CollectUnbound, CollectUnbuffered, Fault, history, BInv, Types, ClientTypes
<1>2. ClientTypes' /\ NetTypes' /\ SetTypes'
  BY <1>1 DEF BInv, Types, ClientTypes, NetTypes, SetTypes
<1>3. ping.gone = {}
  BY <1>1 DEF BInv, Types, PingShape
<1>4. CASE CollectUnbuffered
  <2>1. ping' = At("lost") /\ "lost" \in Stages
    BY <1>4 DEF CollectUnbuffered, Stages
  <2>2. Belief'
    BY <1>1, <1>3, <2>1, AtStage DEF BInv, Belief, Live
  <2> QED BY <1>2, <2>1, <2>2, QueuedKeeps
<1>5. CASE CollectUnbound
  <2>1. ping' = [At("finish") EXCEPT !.adds = Adds, !.dels = Dels] /\ "finish" \in Stages
    BY <1>5 DEF CollectUnbound, Stages
  <2>2. Adds \in SUBSET Oid /\ Dels \in SUBSET Oid /\ Adds \subseteq listed /\ Dels \subseteq listed
        /\ Adds \cap in = {} /\ Adds \cap Dels = {}
    BY DEF Adds, Dels, BInv, Types, ClientTypes
  <2>3. At("finish") \in Pings /\ At("finish").gone = {} /\ At("finish").moreAdds = {}
        /\ At("finish").moreDels = {} /\ ~ At("finish").ok /\ At("finish").at = "finish"
    BY <2>1, AtStage
  <2>4. ping' \in Pings
    BY <2>1, <2>2, <2>3 DEF Pings
  <2>5. /\ ping'.gone = {} /\ ping'.moreAdds = {} /\ ping'.moreDels = {} /\ ~ ping'.ok
        /\ ping'.at = "finish" /\ ping'.adds = Adds /\ ping'.dels = Dels
    BY <2>1, <2>3 DEF Pings
  <2>6. Belief'
    BY <1>1, <1>3, <2>5 DEF BInv, Belief, Live
  <2> QED BY <1>1, <1>2, <2>2, <2>4, <2>5, <2>6, StoppedKeeps
<1> QED BY <1>4, <1>5

LEMMA FinishKeeps ==
  ASSUME BInv, Finish
  PROVE  BInv'
<1>1. /\ ping.at = "finish" /\ ping.ok /\ Going
      /\ in' = (in \cup ping.adds) \ ping.dels
      /\ listed' = listed \ (ping.dels \ held)
      /\ UNCHANGED <<local, held, net, faults, newest, sets, known>>
  BY DEF Finish, network, Going
<1>2. PingShape /\ ping.moreAdds = {} /\ "none" \in Stages /\ "queued" \in Stages
  BY <1>1 DEF BInv, Types, PingShape, Stages
<1>3. held' \subseteq listed' /\ in' \subseteq listed' /\ listed' \subseteq Oid
  BY <1>1, <1>2 DEF BInv, Types, ClientTypes, PingShape
<1>4. CASE listed' # {}
  <2>1. /\ change' = (change \/ ping.adds \ held # {} \/ ping.dels \cap held # {})
        /\ failed' = 0 /\ ping' = At("queued")
        /\ UNCHANGED <<setid, sequence, binding, astray>>
    BY <1>4 DEF Finish
  <2>2. change' \in BOOLEAN /\ failed' \in 0..(MaxFailedPings + 1)
    BY <2>1, ClientSetAssumption
  <2>3. ClientTypes' /\ NetTypes' /\ SetTypes'
    BY <1>1, <1>3, <2>1, <2>2 DEF BInv, Types, ClientTypes, NetTypes, SetTypes
  <2>4. Belief'
    BY <1>1, <1>2, <2>1, AtStage DEF BInv, Belief, Sent, PingShape, Live
  <2> QED BY <1>2, <2>1, <2>3, <2>4, QueuedKeeps
<1>5. CASE listed' = {}
  <2>1. /\ change' = TRUE /\ failed' = 0 /\ ping' = At("none") /\ setid' = NoSet
        /\ sequence' = 0 /\ binding' = "none" /\ astray' = {}
    BY <1>5 DEF Finish
  <2>2. failed' \in 0..(MaxFailedPings + 1) /\ sequence' \in 0..(SeqModulus - 1)
    BY <2>1, ClientSetAssumption, PingSetsAssumption
  <2>3. ClientTypes' /\ NetTypes' /\ SetTypes'
    BY <1>1, <1>3, <2>1, <2>2 DEF BInv, Types, ClientTypes, NetTypes, SetTypes
  <2>4. Belief'
    BY <1>3, <1>5, <2>1 DEF Belief, Live
  <2> QED BY <1>2, <2>1, <2>3, <2>4, QueuedKeeps
<1> QED BY <1>4, <1>5

LEMMA FinishFailedKeeps ==
  ASSUME BInv, FinishFailed
  PROVE  BInv'
<1>1. /\ change' = TRUE /\ ping' = At("queued") /\ astray' = astray \cup ping.gone
      /\ UNCHANGED <<local, listed, held, in, setid, sequence, failed, binding, net, faults,
                     newest, sets, known>>
  BY DEF FinishFailed, network
<1>2. ping.gone \subseteq Oid /\ "queued" \in Stages
  BY PingFields DEF BInv, Types, PingShape, Stages
<1>3. ClientTypes' /\ NetTypes' /\ SetTypes'
  BY <1>1, <1>2 DEF BInv, Types, ClientTypes, NetTypes, SetTypes
<1>4. Belief'
  BY <1>1, <1>2, AtStage DEF BInv, Belief, Live
<1> QED BY <1>1, <1>2, <1>3, <1>4, QueuedKeeps

\* Simple pings, and none.
LEMMA SimpleKeeps ==
  ASSUME BInv, Quiet, faults' \in 0..MaxFaults, (\E ok \in BOOLEAN : Simple(ok)) \/ GivenUp
  PROVE  BInv'
<1>1. /\ ping.at = "due" /\ ping' = At("queued") /\ failed' \in 0..(MaxFailedPings + 1)
      /\ UNCHANGED <<local, listed, held, in, change, setid, sequence, binding, net, newest,
                     astray, known>>
  BY ClientSetAssumption DEF Simple, GivenUp, history, network, BInv, Types, ClientTypes
<1>2. ClientTypes' /\ NetTypes' /\ SetTypes'
  BY <1>1 DEF BInv, Types, ClientTypes, NetTypes, SetTypes, Quiet
<1>3. ping.gone = {} /\ "queued" \in Stages
  BY <1>1 DEF BInv, Types, PingShape, Stages
<1>4. Live' => Live /\ sets'[setid].oids = sets[setid].oids
  BY <1>1 DEF Live, Quiet, BInv, Types, ClientTypes
<1>5. Belief'
  BY <1>1, <1>3, <1>4, AtStage DEF BInv, Belief
<1> QED BY <1>1, <1>2, <1>3, <1>5, QueuedKeeps

\* What the server does of itself, or for a simple ping, is quiet.
LEMMA QuietSteps ==
  ASSUME Types
  PROVE  /\ UNCHANGED sets => Quiet
         /\ \A s \in SetId : Renewed(s) => Quiet
         /\ \A s \in SetId : RundownSet(s, local) => Quiet
         /\ sets' = Aged => Quiet
<1>1. sets \in [SetId -> Sets] /\ 0 \in 0..TimeoutPeriods
  BY PingSetsAssumption DEF Types, SetTypes
<1>2. UNCHANGED sets => Quiet
  BY <1>1 DEF Quiet
<1>3. ASSUME NEW s \in SetId, Renewed(s) PROVE Quiet
  <2>1. sets' = [sets EXCEPT ![s].silence = 0]
    BY <1>3 DEF Renewed
  <2>2. [sets[s] EXCEPT !.silence = 0] \in Sets
    BY <1>1 DEF Sets
  <2>3. sets'[s] = [sets[s] EXCEPT !.silence = 0] /\ \A t \in SetId : t # s => sets'[t] = sets[t]
    BY <1>1, <2>1
  <2>4. sets' \in [SetId -> Sets]
    BY <1>1, <2>1, <2>2
  <2>5. sets'[s].live = sets[s].live /\ sets'[s].oids = sets[s].oids
        /\ sets'[s].sequence = sets[s].sequence
    BY <1>1, <2>3 DEF Sets
  <2> QED BY <2>3, <2>4, <2>5 DEF Quiet
<1>4. ASSUME NEW s \in SetId, RundownSet(s, local) PROVE Quiet
  <2>1. sets' = [sets EXCEPT ![s] = Unused]
    BY <1>4 DEF RundownSet
  <2>2. Unused \in Sets /\ ~ Unused.live /\ Unused.oids = {} /\ sets[s].live
    BY <1>4, PingSetsAssumption DEF Unused, Sets, RundownSet
  <2>3. sets'[s] = Unused /\ \A t \in SetId : t # s => sets'[t] = sets[t]
    BY <1>1, <2>1
  <2>4. sets' \in [SetId -> Sets]
    BY <1>1, <2>1, <2>2
  <2> QED BY <2>2, <2>3, <2>4 DEF Quiet
<1>5. ASSUME sets' = Aged PROVE Quiet
  <2>1. ASSUME NEW s \in SetId
        PROVE  /\ sets'[s] \in Sets /\ sets'[s].live = sets[s].live
               /\ sets'[s].oids = sets[s].oids /\ sets'[s].sequence = sets[s].sequence
    <3>1. sets[s] \in Sets /\ sets[s].silence \in 0..TimeoutPeriods
      BY <1>1 DEF Sets
    <3>2. CASE sets[s].live /\ sets[s].silence < TimeoutPeriods
      <4>1. sets'[s] = [sets[s] EXCEPT !.silence = @ + 1]
        BY <1>5, <3>2 DEF Aged
      <4>2. sets[s].silence + 1 \in 0..TimeoutPeriods
        BY <3>1, <3>2, PingSetsAssumption
      <4> QED BY <3>1, <4>1, <4>2 DEF Sets
    <3>3. CASE ~ (sets[s].live /\ sets[s].silence < TimeoutPeriods)
      BY <1>5, <3>1, <3>3 DEF Aged
    <3> QED BY <3>2, <3>3
  <2>2. sets' = [s \in SetId |-> sets'[s]]
    BY <1>5 DEF Aged
  <2>3. sets' \in [SetId -> Sets]
    BY <2>1, <2>2
  <2> QED BY <2>1, <2>3 DEF Quiet
<1> QED BY <1>2, <1>3, <1>4, <1>5

LEMMA SimpleSteps ==
  ASSUME Types, SimplePing \/ SimpleBadSet \/ SimpleLost \/ SimpleUnanswered \/ GivenUp
  PROVE  /\ Quiet /\ faults' \in 0..MaxFaults
         /\ (\E ok \in BOOLEAN : Simple(ok)) \/ GivenUp
<1>1. TRUE \in BOOLEAN /\ FALSE \in BOOLEAN /\ setid \in SetId \cup {NoSet}
      /\ faults \in 0..MaxFaults
  BY DEF Types, ClientTypes
<1>2. \A fault : Fault(fault) => faults' \in 0..MaxFaults
  BY <1>1, ClientSetAssumption DEF Fault
<1>3. CASE SimplePing
  <2>1. Simple(TRUE) /\ UNCHANGED faults /\ setid \in SetId /\ Renewed(setid)
    BY <1>1, <1>3 DEF SimplePing
  <2> QED BY <1>1, <2>1, QuietSteps
<1>4. CASE SimpleBadSet
  <2>1. Simple(FALSE) /\ UNCHANGED faults /\ UNCHANGED sets
    BY <1>4 DEF SimpleBadSet
  <2> QED BY <1>1, <2>1, QuietSteps
<1>5. CASE SimpleLost
  <2>1. Simple(FALSE) /\ faults' \in 0..MaxFaults /\ UNCHANGED sets
    BY <1>2, <1>5 DEF SimpleLost
  <2> QED BY <1>1, <2>1, QuietSteps
<1>6. CASE SimpleUnanswered
  <2>1. Simple(FALSE) /\ faults' \in 0..MaxFaults /\ setid \in SetId /\ Renewed(setid)
    BY <1>1, <1>2, <1>6 DEF SimpleUnanswered
  <2> QED BY <1>1, <2>1, QuietSteps
<1>7. CASE GivenUp
  <2>1. UNCHANGED faults /\ UNCHANGED sets
    BY <1>7 DEF GivenUp, network
  <2> QED BY <1>1, <1>7, <2>1, QuietSteps
<1> QED BY <1>3, <1>4, <1>5, <1>6, <1>7

LEMMA SimpleStepsKeep ==
  ASSUME BInv, SimplePing \/ SimpleBadSet \/ SimpleLost \/ SimpleUnanswered \/ GivenUp
  PROVE  BInv'
BY SimpleSteps, SimpleKeeps DEF BInv

LEMMA ExpireKeeps ==
  ASSUME BInv, Expire
  PROVE  BInv'
<1>1. UNCHANGED <<local, listed, held, in, change, setid, sequence, failed, binding, ping, net,
                  faults, newest, astray, known>>
  BY DEF Expire, client, network, history, RundownSet
<1>2. Quiet
  BY QuietSteps DEF Expire, BInv
<1>3. Types'
  BY <1>1, <1>2 DEF BInv, Types, ClientTypes, NetTypes, SetTypes, PingShape, Quiet
<1>4. Going' => Going
  BY <1>1 DEF Going
<1>5. Belief' /\ Sent'
  BY <1>1, <1>2, <1>4, QuietKeeps
<1> QED BY <1>3, <1>5 DEF BInv

LEMMA TickKeeps ==
  ASSUME BInv, Tick
  PROVE  BInv'
<1>1. /\ ping' = IF ping.at = "queued" THEN At("due") ELSE ping
      /\ UNCHANGED <<local, listed, held, in, change, setid, sequence, failed, binding, net,
                     faults, newest, astray, known>>
      /\ ping.at \in {"none", "queued", "lost"}
  BY DEF Tick, network, history
<1>2. Quiet
  BY QuietSteps DEF Tick, BInv
<1>3. ClientTypes' /\ NetTypes' /\ SetTypes'
  BY <1>1, <1>2 DEF BInv, Types, ClientTypes, NetTypes, SetTypes, Quiet
<1>4. CASE ping.at = "queued"
  <2>1. ping' = At("due") /\ "due" \in Stages /\ ping.gone = {}
    BY <1>1, <1>4 DEF Stages, BInv, Types, PingShape
  <2>2. Live' => Live /\ sets'[setid].oids = sets[setid].oids
    BY <1>1, <1>2 DEF Live, Quiet, BInv, Types, ClientTypes
  <2>3. Belief'
    BY <1>1, <2>1, <2>2, AtStage DEF BInv, Belief
  <2> QED BY <1>3, <2>1, <2>3, QueuedKeeps
<1>5. CASE ping.at # "queued"
  <2>1. ping' = ping /\ ~ Going'
    BY <1>1, <1>5 DEF Going
  <2>2. Belief' /\ Sent'
    BY <1>1, <1>2, <2>1, QuietKeeps
  <2>3. PingShape'
    BY <1>1, <2>1 DEF BInv, Types, PingShape
  <2> QED BY <1>3, <2>2, <2>3 DEF BInv, Types
<1> QED BY <1>4, <1>5

\* A late request, or a copy, changes the set of the client by its deletions
\* only, if that; and they are astray.
LEMMA StrayKeeps ==
  ASSUME BInv, Stray
  PROVE  BInv'
<1>1. PICK m \in net :
        /\ net' = net \ {m}
        /\ \/ /\ \E s \in SetId, answer \in {"ok", "badoid"} :
                   Serves(m.request, s, answer, m.age, newest)
              /\ astray' = astray \cup m.request.dels
           \/ /\ Ignored(m.request) \/ \E answer \in {"badset", "noaccess"} : Refused(m.request, answer)
              /\ Compared(newest) /\ UNCHANGED astray
        /\ UNCHANGED <<local, client, faults, known>>
  BY DEF Stray
<1>2. Types /\ m \in Copies /\ m.request \in Requests /\ m.age \in 0..MaxAge
      /\ m.request.dels \subseteq Oid
  BY DEF BInv, Types, NetTypes, Copies, Requests
<1>3. /\ UNCHANGED <<local, listed, held, in, change, setid, sequence, failed, binding, ping,
                     faults, known>>
      /\ Going' <=> Going
  BY <1>1 DEF client, Going
<1>4. CASE \E s \in SetId, answer \in {"ok", "badoid"} :
             /\ Serves(m.request, s, answer, m.age, newest)
             /\ astray' = astray \cup m.request.dels
  <2>1. PICK s \in SetId, answer \in {"ok", "badoid"} :
          /\ Serves(m.request, s, answer, m.age, newest)
          /\ astray' = astray \cup m.request.dels
    BY <1>4
  <2>2. /\ sets' \in [SetId -> Sets]
        /\ \A t \in SetId : t # s => sets'[t] = sets[t]
        /\ m.request.setid # NoSet => s = m.request.setid /\ sets[s].live
        /\ m.request.setid = NoSet => Free(s)
        /\ Compared([newest EXCEPT ![s] = m.age])
    BY <1>2, <2>1, Served DEF Types
  <2>3. PICK A \in SUBSET m.request.adds : Processed(m.request, s, answer, A)
    BY <1>2, <2>1, Served DEF Types
  <2>4. NetTypes'
    <3>1. [newest EXCEPT ![s] = m.age] \in [SetId -> 0..(MaxAge + 1)]
      BY <1>2, ClientSetAssumption DEF Types, NetTypes
    <3> QED BY <1>1, <1>2, <2>2, <3>1, NetKept DEF Types, NetTypes
  <2>5. Live' => Live /\ sets[setid].oids \subseteq sets'[setid].oids \cup m.request.dels
    <3>1. CASE s = setid
      <4>1. m.request.setid # NoSet
        BY <2>2, <3>1 DEF Free
      <4> QED BY <1>3, <2>2, <2>3, <3>1, <4>1 DEF Live, After, Processed
    <3>2. CASE s # setid
      BY <1>2, <1>3, <2>2, <3>2 DEF Live, Types, ClientTypes
    <3> QED BY <3>1, <3>2
  <2>6. Types'
    BY <1>2, <1>3, <2>1, <2>2, <2>4 DEF Types, ClientTypes, SetTypes, PingShape
  <2>7. Belief'
    BY <1>3, <2>1, <2>5 DEF BInv, Belief
  <2>8. Sent'
    BY <1>3, <2>1, <2>5 DEF BInv, Sent
  <2> QED BY <2>6, <2>7, <2>8 DEF BInv
<1>5. CASE /\ Ignored(m.request) \/ \E answer \in {"badset", "noaccess"} : Refused(m.request, answer)
           /\ Compared(newest) /\ UNCHANGED astray
  <2>1. UNCHANGED <<sets, astray>>
    BY <1>5 DEF Ignored, Refused
  <2>2. NetTypes'
    BY <1>1, <1>2, <1>5, NetKept DEF Types, NetTypes
  <2>3. Types'
    BY <1>2, <1>3, <2>1, <2>2 DEF Types, ClientTypes, SetTypes, PingShape
  <2>4. Belief' /\ Sent'
    BY <1>3, <2>1 DEF BInv, Belief, Sent, Live
  <2> QED BY <2>3, <2>4 DEF BInv
<1> QED BY <1>1, <1>4, <1>5

-----------------------------------------------------------------------------
(* Theorems *)

LEMMA BInvInit ==
  ASSUME Init
  PROVE  BInv
<1>1. 0 \in 0..(SeqModulus - 1) /\ 0 \in 0..(MaxFailedPings + 1) /\ 0 \in 0..MaxFaults
      /\ MaxAge + 1 \in 0..(MaxAge + 1) /\ "none" \in Stages
  BY PingSetsAssumption, ClientSetAssumption DEF Stages
<1>2. Unused \in Sets
  BY PingSetsAssumption DEF Unused, Sets
<1>3. ClientTypes
  BY <1>1, ClientSetAssumption DEF Init, ClientTypes
<1>4. NetTypes /\ SetTypes
  BY <1>1, <1>2, ClientSetAssumption DEF Init, NetTypes, SetTypes
<1>5. PingShape
  BY <1>1, AtStage DEF Init, PingShape
<1>6. Belief /\ Sent
  BY <1>1, AtStage DEF Init, Belief, Sent, Live, Going
<1> QED BY <1>3, <1>4, <1>5, <1>6 DEF BInv, Types

LEMMA BInvNext ==
  ASSUME BInv, [Next]_vars
  PROVE  BInv'
<1>1. ASSUME NEW o \in Oid, Use(o) \/ Drop(o) PROVE BInv'
  BY <1>1, UseKeeps, DropKeeps
<1>2. CASE PingServer
  <2>1. CASE Call
    BY <2>1, CallEffects, CallKeeps DEF BInv
  <2>2. CASE Collect \/ CollectUnbound \/ CollectUnbuffered \/ Finish \/ FinishFailed
    BY <2>2, CollectKeeps, CollectFails, FinishKeeps, FinishFailedKeeps
  <2>3. CASE SimplePing \/ SimpleBadSet \/ SimpleLost \/ SimpleUnanswered \/ GivenUp
    BY <2>3, SimpleStepsKeep
  <2> QED BY <1>2, <2>1, <2>2, <2>3 DEF PingServer
<1>3. CASE Stray \/ Expire \/ Tick
  BY <1>3, StrayKeeps, ExpireKeeps, TickKeeps
<1>4. CASE UNCHANGED vars
  BY <1>4 DEF vars, client, network, history, BInv, Types, ClientTypes, NetTypes, SetTypes,
              PingShape, Belief, Sent, Live, Going
<1> QED BY <1>1, <1>2, <1>3, <1>4 DEF Next

\* The inductive invariant: the types, what is believed of the set and what
\* the ping under way has done.
THEOREM BInvHolds == Spec => []BInv
<1>1. Init => BInv
  BY BInvInit
<1>2. BInv /\ [Next]_vars => BInv'
  BY BInvNext
<1> QED BY <1>1, <1>2, PTL DEF Spec

\* TypeOK, of the client, the network and the server's sets.
THEOREM TypeOKHolds == Spec => []TypeOK
<1>1. BInv => TypeOK
  BY DEF BInv, Types, ClientTypes, NetTypes, SetTypes, PingShape, TypeOK
<1> QED BY <1>1, BInvHolds, PTL

\* coid.hxx, _fIn: whatever is lost, late, repeated or refused, an OID that is
\* In() is in the set the client has on the server, unless it is one of those
\* that went astray.
THEOREM BeliefExactHolds == Spec => []BeliefExact
<1>1. BInv => BeliefExact
  BY DEF BInv, Belief, BeliefExact, Live
<1> QED BY <1>1, BInvHolds, PTL

-----------------------------------------------------------------------------
(***************************************************************************)
(* No ping is processed after one that was sent later (PingsInOrder), and  *)
(* nothing stays in a set that the client does not know of                 *)
(* (NothingLeaked).                                                        *)
(*                                                                         *)
(* The first is about the numbers of requests, sets and the client, and    *)
(* the second rests on it: only requests that were not overtaken can still *)
(* add an OID that was deleted.                                            *)
(***************************************************************************)

\* The sequence number b is at most n after a.
Later(a, b, n) == b - a \in 0..n \/ b - a + SeqModulus \in 0..n

\* The number of the next request.
Upcoming == (sequence + 1) % SeqModulus

\* A request for the set that the client has comes before the next one.
Sequel(m) ==
  m.request.setid # NoSet /\ m.request.setid = setid =>
    Later(m.request.sequence, Upcoming, m.age + 1)

\* Of two requests for a set, m was sent after n.
InTurn(m, n) ==
  m.request.setid # NoSet /\ m.request.setid = n.request.setid /\ m.age <= n.age =>
    Later(n.request.sequence, m.request.sequence, MaxAge)

\* The set has accepted a request that was sent after m, or m.
Overtaken(m) ==
  m.request.setid # NoSet /\ sets[m.request.setid].live /\ newest[m.request.setid] <= m.age =>
    Later(m.request.sequence, sets[m.request.setid].sequence, MaxAge)

\* Numbers are in the order in which requests were sent.
Ordered ==
  \A m \in net : Sequel(m) /\ Overtaken(m) /\ (\A n \in net : InTurn(m, n))

\* What the set of the client has, or may get from a request in the network.
Reach ==
  {o \in Oid : \/ o \in sets[setid].oids
               \/ \E m \in net : /\ m.request.setid = setid /\ m.age < newest[setid]
                                 /\ o \in m.request.adds}

\* NothingLeaked.  Deletions that need not be sent any more have been executed
\* after all that could add their OIDs again, or these are astray.
Traced ==
  /\ \A s \in SetId : ~ sets[s].live => sets[s].oids = {}
  /\ Live => Reach \subseteq listed \cup astray
  /\ Live /\ Going => Reach \cap (ping.dels \ ping.moreDels) \subseteq astray

OInv == BInv /\ Ordered /\ Traced

-----------------------------------------------------------------------------
(* Sequence numbers *)

LEMMA LaterFacts ==
  ASSUME NEW a \in 0..(SeqModulus - 1), NEW b \in 0..(SeqModulus - 1), NEW n \in 0..MaxAge
  PROVE  /\ Later(a, a, n)
         /\ Later(a, b, n) => Later(a, b, MaxAge) /\ Later(a, b, n + 1)
         /\ Later(a, b, MaxAge) =>
              (a + SeqModulus - b) % SeqModulus \notin 1..BaseNumberOfPings
<1>1. SeqModulus \in Nat /\ SeqModulus > 0 /\ MaxAge \in Nat /\ BaseNumberOfPings \in Nat
      /\ MaxAge + BaseNumberOfPings < SeqModulus
  BY PingSetsAssumption, ClientSetAssumption
<1>2. Later(a, a, n) /\ (Later(a, b, n) => Later(a, b, MaxAge) /\ Later(a, b, n + 1))
  BY <1>1 DEF Later
<1>3. ASSUME Later(a, b, MaxAge)
      PROVE  (a + SeqModulus - b) % SeqModulus \notin 1..BaseNumberOfPings
  <2>1. CASE b = a
    <3>1. a + SeqModulus - b = SeqModulus /\ SeqModulus \in Int
      BY <1>1, <2>1
    <3>2. SeqModulus % SeqModulus = 0
      BY <1>1, Modulo
    <3> QED BY <3>1, <3>2
  <2>2. CASE b > a
    <3> DEFINE d == a + SeqModulus - b
    <3>1. d \in Int /\ d \in 0..(SeqModulus - 1) /\ d > BaseNumberOfPings
      BY <1>1, <1>3, <2>2 DEF Later
    <3> HIDE DEF d
    <3>2. d % SeqModulus = d
      BY <1>1, <3>1, Modulo
    <3> QED BY <1>1, <3>1, <3>2 DEF d
  <2>3. CASE b < a
    <3> DEFINE d == a + SeqModulus - b
    <3>1. d \in Int /\ d \in SeqModulus..(2 * SeqModulus - 1) /\ d - SeqModulus > BaseNumberOfPings
      BY <1>1, <1>3, <2>3 DEF Later
    <3> HIDE DEF d
    <3>2. d % SeqModulus = d - SeqModulus
      BY <1>1, <3>1, Modulo
    <3> QED BY <1>1, <3>1, <3>2 DEF d
  <2> QED BY <1>1, <2>1, <2>2, <2>3
<1> QED BY <1>2, <1>3

\* The next number.
LEMMA UpcomingFacts ==
  ASSUME NEW a \in 0..(SeqModulus - 1), NEW b \in 0..(SeqModulus - 1), NEW n \in Nat,
         Later(a, b, n)
  PROVE  /\ (b + 1) % SeqModulus \in 0..(SeqModulus - 1)
         /\ Later(a, b, n + 1) /\ Later(a, (b + 1) % SeqModulus, n + 1)
<1>1. SeqModulus \in Nat /\ SeqModulus > 1
  BY PingSetsAssumption
<1>2. CASE b = SeqModulus - 1
  <2>1. SeqModulus % SeqModulus = 0 /\ b + 1 = SeqModulus
    BY <1>1, <1>2, Modulo
  <2> QED BY <1>1, <2>1 DEF Later
<1>3. CASE b < SeqModulus - 1
  <2>1. (b + 1) % SeqModulus = b + 1
    BY <1>1, <1>3, Modulo
  <2> QED BY <1>1, <1>3, <2>1 DEF Later
<1> QED BY <1>1, <1>2, <1>3

\* A set accepts no request that was sent before one that it has accepted.
LEMMA OvertakenRefused ==
  ASSUME Types, Ordered, NEW m \in net, m.request.setid # NoSet, sets[m.request.setid].live,
         Accepts(m.request.setid, m.request.sequence)
  PROVE  m.age < newest[m.request.setid]
<1> DEFINE s == m.request.setid
           a == m.request.sequence
           b == sets[s].sequence
<1>1. s \in SetId /\ a \in 0..(SeqModulus - 1) /\ m.age \in 0..MaxAge
  BY DEF Types, NetTypes, Copies, Requests
<1>2. b \in 0..(SeqModulus - 1) /\ newest[s] \in 0..(MaxAge + 1)
  BY <1>1 DEF Types, NetTypes, SetTypes, Sets
<1>3. Later(a, b, MaxAge) => (a + SeqModulus - b) % SeqModulus \notin 1..BaseNumberOfPings
  <2> HIDE DEF a, b
  <2> QED BY <1>1, <1>2, LaterFacts, ClientSetAssumption
<1>4. ~ Later(a, b, MaxAge)
  BY <1>3 DEF Accepts, Ahead
<1>5. ~ newest[s] <= m.age
  BY <1>4 DEF Ordered, Overtaken
<1> QED BY <1>1, <1>2, <1>5, ClientSetAssumption

-----------------------------------------------------------------------------
(* Calls *)

\* What is in the network after a call.
LEMMA AgedCopies ==
  ASSUME Types, NEW r \in Requests, CallLeaves(r), NEW m \in net'
  PROVE  \/ m = Copy(r) /\ m.request = r /\ m.age = 0
         \/ \E n \in net : n.age < MaxAge /\ m.request = n.request /\ m.age = n.age + 1
<1>1. CASE m = Copy(r)
  BY <1>1 DEF Copy
<1>2. CASE m \in Older
  <2>1. PICK n \in net : n.age < MaxAge /\ m = [n EXCEPT !.age = @ + 1]
    BY <1>2 DEF Older
  <2>2. m.request = n.request /\ m.age = n.age + 1
    BY <2>1 DEF Types, NetTypes, Copies
  <2> QED BY <2>1, <2>2
<1> QED BY <1>1, <1>2 DEF CallLeaves

\* The request was executed, by the set s.
Executed(r, s) ==
  /\ sets'[s].live /\ sets'[s].sequence = r.sequence
  /\ \A t \in SetId : t # s => sets'[t] = sets[t]
  /\ Compared([Since EXCEPT ![s] = 0])
  /\ setid # NoSet => s = setid
  /\ setid = NoSet => Free(s)

LEMMA CallServer ==
  ASSUME Types, NEW r \in NextRequests, CallEffect(r)
  PROVE  /\ \/ \E s \in SetId : Executed(r, s) /\ setid' \in {s, setid}
            \/ UNCHANGED sets /\ Compared(Since) /\ setid' \in {setid, NoSet}
         /\ setid' = NoSet \/ sequence' \in {sequence, r.sequence}
<1>1. r \in Requests /\ r.setid = setid /\ SetTypes
  BY NextRequest DEF Types
<1>2. setid' = NoSet \/ sequence' \in {sequence, r.sequence}
  BY DEF CallEffect, Completed, Unnoticed, Mistaken, Forgotten, Unexecuted
<1>3. ASSUME NEW s \in SetId, NEW answer, Serves(r, s, answer, 0, Since)
      PROVE  Executed(r, s)
  BY <1>1, <1>3, Served DEF Executed
<1>4. CASE Completed(r) \/ Unnoticed(r)
  BY <1>2, <1>3, <1>4 DEF Completed, Unnoticed
<1>5. CASE Mistaken(r) \/ Forgotten \/ Unexecuted(r)
  BY <1>2, <1>5 DEF Mistaken, Forgotten, Unexecuted
<1> QED BY <1>4, <1>5 DEF CallEffect

\* Since, and thereby newest, grows with the ages.
LEMMA SinceGrows ==
  ASSUME Types, NEW s \in SetId, NEW n \in 0..MaxAge, n < MaxAge
  PROVE  /\ Since[s] > 0
         /\ Since[s] <= n + 1 => newest[s] <= n
         /\ n + 1 < Since[s] => n < newest[s]
<1>1. newest[s] \in 0..(MaxAge + 1) /\ MaxAge \in Nat
  BY ClientSetAssumption DEF Types, NetTypes
<1>2. Since[s] = IF newest[s] > MaxAge THEN newest[s] ELSE newest[s] + 1
  BY DEF Since
<1> QED BY <1>1, <1>2

\* The numbers of the requests and of the client are numbers.
LEMMA Numbers ==
  ASSUME Types
  PROVE  /\ sequence \in 0..(SeqModulus - 1) /\ Upcoming \in 0..(SeqModulus - 1)
         /\ \A m \in net : m.request.sequence \in 0..(SeqModulus - 1) /\ m.age \in 0..MaxAge
         /\ \A m \in net : m.request.setid \in SetId \cup {NoSet}
<1>1. SeqModulus \in Nat /\ SeqModulus > 0
  BY PingSetsAssumption
<1>2. sequence \in 0..(SeqModulus - 1)
  BY DEF Types, ClientTypes
<1>3. Upcoming \in 0..(SeqModulus - 1)
  BY <1>1, <1>2, Modulo DEF Upcoming
<1> QED BY <1>2, <1>3 DEF Types, NetTypes, Copies, Requests

\* What a request m in the network was before the call.
LEMMA Was ==
  ASSUME Types, NEW r \in NextRequests, CallLeaves(r), NEW m \in net'
  PROVE  \/ m.request = r /\ m.age = 0 /\ r.setid = setid /\ r.sequence = Upcoming
         \/ \E n \in net : n.age < MaxAge /\ m.request = n.request /\ m.age = n.age + 1
BY NextRequest, AgedCopies DEF Upcoming

LEMMA CallSequel ==
  ASSUME Types, Ordered, NEW r \in NextRequests, CallEffect(r), NEW m \in net'
  PROVE  Sequel(m)'
<1> SUFFICES ASSUME m.request.setid # NoSet, m.request.setid = setid'
             PROVE  Later(m.request.sequence, Upcoming', m.age + 1)
  BY DEF Sequel
<1>1. CallLeaves(r) /\ r.sequence = Upcoming /\ r.setid = setid
  BY NextRequest DEF CallEffect, Upcoming
<1>2. setid' = setid
  <2>1. CASE \E s \in SetId : Executed(r, s) /\ setid' = s /\ setid = NoSet
    <3>1. PICK s \in SetId : Free(s) /\ setid' = s /\ setid = NoSet
      BY <2>1 DEF Executed
    <3>2. \A n \in net : n.request.setid # s
      BY <3>1 DEF Free
    <3> QED BY <1>1, <3>1, <3>2, Was
  <2>2. CASE \E s \in SetId : Executed(r, s) /\ setid' = s /\ setid # NoSet
    BY <2>2 DEF Executed
  <2> QED BY <2>1, <2>2, CallServer
<1>3. sequence' \in {sequence, Upcoming}
  BY <1>1, CallServer
<1>4. CASE m.request = r /\ m.age = 0
  <2>1. Later(Upcoming, Upcoming, 0) /\ Upcoming \in 0..(SeqModulus - 1) /\ 0 \in Nat
    BY Numbers, LaterFacts, ClientSetAssumption
  <2>2. Later(Upcoming, Upcoming, 1) /\ Later(Upcoming, (Upcoming + 1) % SeqModulus, 1)
    <3> HIDE DEF Upcoming
    <3>1. Later(Upcoming, Upcoming, 0 + 1) /\ Later(Upcoming, (Upcoming + 1) % SeqModulus, 0 + 1)
      BY <2>1, UpcomingFacts
    <3> QED BY <3>1
  <2>3. Upcoming' \in {Upcoming, (Upcoming + 1) % SeqModulus}
    BY <1>3 DEF Upcoming
  <2> QED BY <1>1, <1>4, <2>2, <2>3
<1>5. CASE \E n \in net : n.age < MaxAge /\ m.request = n.request /\ m.age = n.age + 1
  <2>1. PICK n \in net : n.age < MaxAge /\ m.request = n.request /\ m.age = n.age + 1
    BY <1>5
  <2> DEFINE a == n.request.sequence
             k == n.age + 1
  <2>2. Later(a, Upcoming, k)
    BY <1>2, <2>1 DEF Ordered, Sequel
  <2>3. a \in 0..(SeqModulus - 1) /\ Upcoming \in 0..(SeqModulus - 1) /\ k \in Nat
    BY Numbers, ClientSetAssumption
  <2>4. Upcoming' \in {Upcoming, (Upcoming + 1) % SeqModulus}
    BY <1>3 DEF Upcoming
  <2>5. Later(a, Upcoming, k + 1) /\ Later(a, (Upcoming + 1) % SeqModulus, k + 1)
    <3> HIDE DEF a, k
    <3> QED BY <2>2, <2>3, UpcomingFacts
  <2>6. a = m.request.sequence /\ k = m.age
    BY <2>1
  <2> QED BY <2>4, <2>5, <2>6
<1> QED BY <1>1, <1>4, <1>5, Was

\* A request for the client's set was sent, at most its age ago, before the
\* one of this call.
LEMMA SentBefore ==
  ASSUME Types, Ordered, NEW n \in net, n.age < MaxAge,
         n.request.setid # NoSet, n.request.setid = setid
  PROVE  Later(n.request.sequence, Upcoming, MaxAge)
<1> DEFINE a == n.request.sequence
           k == n.age + 1
<1>1. Later(a, Upcoming, k)
  BY DEF Ordered, Sequel
<1>2. a \in 0..(SeqModulus - 1) /\ Upcoming \in 0..(SeqModulus - 1) /\ k \in 0..MaxAge
  BY Numbers, ClientSetAssumption
<1> HIDE DEF a, k
<1>3. Later(a, Upcoming, MaxAge)
  BY <1>1, <1>2, LaterFacts
<1> QED BY <1>3 DEF a

LEMMA CallInTurn ==
  ASSUME Types, Ordered, NEW r \in NextRequests, CallEffect(r), NEW m \in net', NEW n \in net'
  PROVE  InTurn(m, n)
<1> SUFFICES ASSUME m.request.setid # NoSet, m.request.setid = n.request.setid, m.age <= n.age
             PROVE  Later(n.request.sequence, m.request.sequence, MaxAge)
  BY DEF InTurn
<1>1. CallLeaves(r) /\ r.sequence = Upcoming /\ r.setid = setid
  BY NextRequest DEF CallEffect, Upcoming
<1>2. CASE m.request = r /\ m.age = 0
  <2>1. CASE n.request = r
    <3>1. Upcoming \in 0..(SeqModulus - 1) /\ MaxAge \in 0..MaxAge
      BY Numbers, ClientSetAssumption
    <3> QED BY <1>1, <1>2, <2>1, <3>1, LaterFacts
  <2>2. CASE \E n0 \in net : n0.age < MaxAge /\ n.request = n0.request /\ n.age = n0.age + 1
    BY <1>1, <1>2, <2>2, SentBefore
  <2> QED BY <1>1, <2>1, <2>2, Was
<1>3. CASE \E m0 \in net : m0.age < MaxAge /\ m.request = m0.request /\ m.age = m0.age + 1
  <2>1. PICK m0 \in net : m0.age < MaxAge /\ m.request = m0.request /\ m.age = m0.age + 1
    BY <1>3
  <2>2. m0.age \in 0..MaxAge /\ MaxAge \in Nat
    BY Numbers, ClientSetAssumption
  <2>3. CASE n.age = 0
    BY <2>1, <2>2, <2>3
  <2>4. CASE \E n0 \in net : n0.age < MaxAge /\ n.request = n0.request /\ n.age = n0.age + 1
    <3>1. PICK n0 \in net : n0.age < MaxAge /\ n.request = n0.request /\ n.age = n0.age + 1
      BY <2>4
    <3>2. m0.age <= n0.age
      BY <2>1, <2>2, <3>1, Numbers
    <3> QED BY <2>1, <3>1, <3>2 DEF Ordered, InTurn
  <2> QED BY <1>1, <2>3, <2>4, Was
<1> QED BY <1>1, <1>2, <1>3, Was

LEMMA CallOvertaken ==
  ASSUME Types, Ordered, NEW r \in NextRequests, CallEffect(r), NEW m \in net'
  PROVE  Overtaken(m)'
<1> DEFINE t == m.request.setid
<1> SUFFICES ASSUME t # NoSet, sets'[t].live, newest'[t] <= m.age
             PROVE  Later(m.request.sequence, sets'[t].sequence, MaxAge)
  BY DEF Overtaken
<1>1. CallLeaves(r) /\ r.sequence = Upcoming /\ r.setid = setid
  BY NextRequest DEF CallEffect, Upcoming
<1>2. t \in SetId
  BY CallTypes, Numbers DEF Types, NetTypes, Copies, Requests
<1>3. CASE \E s \in SetId : Executed(r, s) /\ t = s
  <2>1. PICK s \in SetId : Executed(r, s) /\ t = s
    BY <1>3
  <2>2. sets'[t].sequence = Upcoming
    BY <1>1, <2>1 DEF Executed
  <2>3. t = setid
    <3>1. CASE setid = NoSet
      <4>1. \A n \in net : n.request.setid # t
        BY <2>1, <3>1 DEF Executed, Free
      <4> QED BY <1>1, <3>1, <4>1, Was
    <3> QED BY <2>1, <3>1 DEF Executed
  <2>4. CASE m.request = r
    <3>1. Upcoming \in 0..(SeqModulus - 1) /\ MaxAge \in 0..MaxAge
      BY Numbers, ClientSetAssumption
    <3> QED BY <1>1, <2>2, <2>4, <3>1, LaterFacts
  <2>5. CASE \E n \in net : n.age < MaxAge /\ m.request = n.request /\ m.age = n.age + 1
    BY <2>2, <2>3, <2>5, SentBefore
  <2> QED BY <1>1, <2>4, <2>5, Was
<1>4. CASE sets'[t] = sets[t] /\ newest'[t] = Since[t]
  <2>1. CASE m.age = 0
    <3>1. newest[t] \in 0..(MaxAge + 1) /\ MaxAge \in Nat
      BY <1>2, ClientSetAssumption DEF Types, NetTypes
    <3>2. Since[t] > 0
      BY <1>2, <3>1 DEF Since
    <3> QED BY <1>2, <1>4, <2>1, <3>1, <3>2 DEF Since
  <2>2. CASE \E n \in net : n.age < MaxAge /\ m.request = n.request /\ m.age = n.age + 1
    <3>1. PICK n \in net : n.age < MaxAge /\ m.request = n.request /\ m.age = n.age + 1
      BY <2>2
    <3>2. newest[t] <= n.age
      BY <1>2, <1>4, <3>1, SinceGrows, Numbers
    <3> QED BY <1>4, <3>1, <3>2 DEF Ordered, Overtaken
  <2> QED BY <1>1, <2>1, <2>2, Was
<1>5. CASE \E s \in SetId : Executed(r, s) /\ t # s
  <2>1. PICK s \in SetId : Executed(r, s) /\ t # s
    BY <1>5
  <2>2. sets'[t] = sets[t] /\ Compared([Since EXCEPT ![s] = 0])
    BY <1>2, <2>1 DEF Executed
  <2>3. newest'[t] = Since[t]
    BY <1>2, <2>1, <2>2, Aging DEF Compared
  <2> QED BY <1>4, <2>2, <2>3
<1>6. CASE UNCHANGED sets /\ Compared(Since)
  <2>1. newest'[t] = Since[t]
    BY <1>6 DEF Compared
  <2> QED BY <1>4, <1>6, <2>1
<1> QED BY <1>3, <1>5, <1>6, CallServer

LEMMA CallOrdered ==
  ASSUME Types, Ordered, NEW r \in NextRequests, CallEffect(r)
  PROVE  Ordered'
BY CallSequel, CallInTurn, CallOvertaken DEF Ordered, InTurn

-----------------------------------------------------------------------------
(* The other steps *)

\* A step that sends and executes no request.
Calm ==
  /\ UNCHANGED <<net, newest, known>> /\ Quiet
  /\ setid' = NoSet \/ UNCHANGED <<setid, sequence>>

CalmStep ==
  \/ \E o \in Oid : Use(o) \/ Drop(o)
  \/ Collect \/ CollectUnbound \/ CollectUnbuffered \/ Finish \/ FinishFailed
  \/ SimplePing \/ SimpleBadSet \/ SimpleLost \/ SimpleUnanswered \/ GivenUp
  \/ Expire \/ Tick \/ UNCHANGED vars

LEMMA CalmSteps ==
  ASSUME Types, CalmStep
  PROVE  Calm
<1>1. UNCHANGED sets => Quiet
  BY QuietSteps
<1>2. CASE \E o \in Oid : Use(o) \/ Drop(o)
  BY <1>1, <1>2 DEF Use, Drop, network, history, Calm
<1>3. CASE Collect \/ CollectUnbound \/ CollectUnbuffered
  BY <1>1, <1>3 DEF Collect, CollectUnbound, CollectUnbuffered, network, history, Calm
<1>4. CASE Finish \/ FinishFailed
  BY <1>1, <1>4 DEF Finish, FinishFailed, network, Calm
<1>5. CASE SimplePing \/ SimpleBadSet \/ SimpleLost \/ SimpleUnanswered \/ GivenUp
  <2>1. Quiet /\ ((\E ok \in BOOLEAN : Simple(ok)) \/ GivenUp)
    BY <1>5, SimpleSteps
  <2> QED BY <2>1 DEF Simple, GivenUp, network, history, Calm
<1>6. CASE Expire
  BY <1>6, QuietSteps DEF Expire, RundownSet, client, network, history, Calm
<1>7. CASE Tick
  BY <1>7, QuietSteps DEF Tick, network, history, Calm
<1>8. CASE UNCHANGED vars
  BY <1>1, <1>8 DEF vars, client, network, history, Calm
<1> QED BY <1>2, <1>3, <1>4, <1>5, <1>6, <1>7, <1>8 DEF CalmStep

LEMMA CalmOrdered ==
  ASSUME Types, Ordered, Calm
  PROVE  Ordered'
<1> SUFFICES ASSUME NEW m \in net
             PROVE  Sequel(m)' /\ Overtaken(m)' /\ (\A n \in net : InTurn(m, n))
  BY DEF Calm, Ordered, InTurn
<1>1. Sequel(m)'
  BY DEF Ordered, Sequel, Calm, Upcoming
<1>2. Overtaken(m)'
  BY Numbers DEF Ordered, Overtaken, Calm, Quiet
<1>3. \A n \in net : InTurn(m, n)
  BY DEF Ordered
<1> QED BY <1>1, <1>2, <1>3

\* A late request m that the set s executes.
Strayed(m, s) ==
  /\ m \in net /\ net' = net \ {m}
  /\ UNCHANGED <<local, client, faults, known>>
  /\ Compared([newest EXCEPT ![s] = m.age])
  /\ \A t \in SetId : t # s => sets'[t] = sets[t]
  /\ sets'[s].live /\ sets'[s].sequence = m.request.sequence
  /\ \E A \in SUBSET m.request.adds, answer \in {"ok", "badoid"} :
       Processed(m.request, s, answer, A)
  /\ m.request.setid # NoSet =>
       s = m.request.setid /\ sets[s].live /\ m.age < newest[s]
  /\ m.request.setid = NoSet => Free(s)
  /\ astray' = astray \cup m.request.dels

\* One that it does not.
Refusal ==
  /\ net' \subseteq net /\ Compared(newest)
  /\ UNCHANGED <<local, client, faults, known, sets, astray>>

LEMMA StraySteps ==
  ASSUME Types, Ordered, Stray
  PROVE  (\E m \in net, s \in SetId : Strayed(m, s)) \/ Refusal
<1>1. PICK m \in net :
        /\ net' = net \ {m}
        /\ \/ /\ \E s \in SetId, answer \in {"ok", "badoid"} :
                   Serves(m.request, s, answer, m.age, newest)
              /\ astray' = astray \cup m.request.dels
           \/ /\ Ignored(m.request) \/ \E answer \in {"badset", "noaccess"} : Refused(m.request, answer)
              /\ Compared(newest) /\ UNCHANGED astray
        /\ UNCHANGED <<local, client, faults, known>>
  BY DEF Stray
<1>2. m.request \in Requests /\ SetTypes
  BY DEF Types, NetTypes, Copies
<1>3. CASE \E s \in SetId, answer \in {"ok", "badoid"} :
             /\ Serves(m.request, s, answer, m.age, newest)
             /\ astray' = astray \cup m.request.dels
  <2>1. PICK s \in SetId, answer \in {"ok", "badoid"} :
          /\ Serves(m.request, s, answer, m.age, newest)
          /\ astray' = astray \cup m.request.dels
    BY <1>3
  <2>2. /\ \A t \in SetId : t # s => sets'[t] = sets[t]
        /\ sets'[s].live /\ sets'[s].sequence = m.request.sequence
        /\ \E A \in SUBSET m.request.adds : Processed(m.request, s, answer, A)
        /\ m.request.setid # NoSet =>
             s = m.request.setid /\ sets[s].live /\ Accepts(s, m.request.sequence)
        /\ m.request.setid = NoSet => Free(s)
        /\ Compared([newest EXCEPT ![s] = m.age])
    BY <1>2, <2>1, Served
  <2>3. m.request.setid # NoSet => m.age < newest[s]
    BY <2>2, OvertakenRefused
  <2> QED BY <1>1, <2>1, <2>2, <2>3 DEF Strayed
<1>4. CASE /\ Ignored(m.request) \/ \E answer \in {"badset", "noaccess"} : Refused(m.request, answer)
           /\ Compared(newest) /\ UNCHANGED astray
  BY <1>1, <1>4 DEF Ignored, Refused, Refusal
<1> QED BY <1>1, <1>3, <1>4

LEMMA StrayOrdered ==
  ASSUME Types, Ordered, NEW k \in net, NEW s \in SetId, Strayed(k, s)
  PROVE  Ordered'
<1> SUFFICES ASSUME NEW m \in net'
             PROVE  Sequel(m)' /\ Overtaken(m)' /\ (\A n \in net' : InTurn(m, n))
  BY DEF Ordered, InTurn
<1>1. m \in net /\ net' \subseteq net /\ UNCHANGED <<setid, sequence>>
  BY DEF Strayed, client
<1>2. Sequel(m)' /\ \A n \in net' : InTurn(m, n)
  BY <1>1 DEF Ordered, Sequel, Upcoming
<1>3. Overtaken(m)'
  <2> DEFINE t == m.request.setid
  <2> SUFFICES ASSUME t # NoSet, sets'[t].live, newest'[t] <= m.age
               PROVE  Later(m.request.sequence, sets'[t].sequence, MaxAge)
    BY DEF Overtaken
  <2>1. t \in SetId /\ newest' = [newest EXCEPT ![s] = k.age]
    BY <1>1, Numbers DEF Strayed, Compared
  <2>2. CASE t = s
    <3>1. k.request.setid = t
      BY <1>1, <2>2 DEF Strayed, Free
    <3>2. newest'[t] = k.age /\ sets'[t].sequence = k.request.sequence
      BY <2>1, <2>2 DEF Strayed, Types, NetTypes
    <3> QED BY <1>1, <3>1, <3>2 DEF Ordered, InTurn
  <2>3. CASE t # s
    <3>1. newest'[t] = newest[t] /\ sets'[t] = sets[t]
      BY <2>1, <2>3 DEF Strayed, Types, NetTypes
    <3> QED BY <1>1, <3>1 DEF Ordered, Overtaken
  <2> QED BY <2>2, <2>3
<1> QED BY <1>2, <1>3

LEMMA RefusalOrdered ==
  ASSUME Types, Ordered, Refusal
  PROVE  Ordered'
<1> SUFFICES ASSUME NEW m \in net'
             PROVE  Sequel(m)' /\ Overtaken(m)' /\ (\A n \in net' : InTurn(m, n))
  BY DEF Ordered, InTurn
<1>1. m \in net /\ net' \subseteq net /\ newest' = newest /\ UNCHANGED <<setid, sequence, sets>>
  BY DEF Refusal, Compared, client
<1>2. Sequel(m)' /\ Overtaken(m)' /\ \A n \in net' : InTurn(m, n)
  BY <1>1 DEF Ordered, Sequel, Overtaken, Upcoming
<1> QED BY <1>2

-----------------------------------------------------------------------------
(* What is traced *)

LEMMA CalmReach ==
  ASSUME Types, Calm, Live'
  PROVE  Live /\ setid' = setid /\ Reach' \subseteq Reach
<1>1. setid' = setid /\ setid \in SetId
  BY DEF Live, Calm, Types, ClientTypes
<1>2. sets[setid].live /\ sets'[setid].oids = sets[setid].oids
  BY <1>1 DEF Live, Calm, Quiet
<1> QED BY <1>1, <1>2 DEF Live, Reach, Calm

LEMMA StrayReach ==
  ASSUME Types, NEW k \in net, NEW s \in SetId, Strayed(k, s), Live'
  PROVE  Live /\ setid' = setid /\ Reach' \subseteq Reach
<1>1. /\ setid' = setid /\ setid \in SetId /\ net' \subseteq net
      /\ net' # {} => newest' = [newest EXCEPT ![s] = k.age]
  BY DEF Live, Strayed, client, Compared, Types, ClientTypes
<1>2. k.age \in 0..MaxAge /\ newest[s] \in 0..(MaxAge + 1) /\ MaxAge \in Nat
      /\ \A m \in net : m.age \in 0..MaxAge
  BY Numbers, ClientSetAssumption DEF Types, NetTypes
<1>3. CASE s = setid
  <2>1. k.request.setid = setid /\ sets[setid].live /\ k.age < newest[setid]
    BY <1>3 DEF Strayed, Free
  <2>2. sets'[setid].oids \subseteq sets[setid].oids \cup k.request.adds
    <3>1. PICK A \in SUBSET k.request.adds, answer \in {"ok", "badoid"} :
            Processed(k.request, s, answer, A)
      BY DEF Strayed
    <3>2. sets'[s].oids = After(sets[s].oids, k.request, A)
      BY <1>1, <1>3, <2>1, <3>1, PingSetsAssumption DEF Processed
    <3> QED BY <1>3, <3>1, <3>2 DEF After
  <2>3. \A m \in net' : m.age < newest'[setid] => m.age < newest[setid]
    <3> SUFFICES ASSUME NEW m \in net', m.age < newest'[setid]
                 PROVE  m.age < newest[setid]
      OBVIOUS
    <3>1. newest'[setid] = k.age /\ m.age \in 0..MaxAge
      BY <1>1, <1>2, <1>3 DEF Types, NetTypes
    <3> QED BY <1>2, <1>3, <2>1, <3>1
  <2>4. Reach' \subseteq Reach
    BY <1>1, <2>1, <2>2, <2>3 DEF Reach
  <2> QED BY <1>1, <2>1, <2>4 DEF Live
<1>4. CASE s # setid
  <2>1. sets'[setid] = sets[setid]
    BY <1>1, <1>4 DEF Strayed
  <2>2. net' # {} => newest'[setid] = newest[setid]
    BY <1>1, <1>4 DEF Types, NetTypes
  <2>3. Reach' \subseteq Reach
    BY <1>1, <2>1, <2>2 DEF Reach
  <2> QED BY <1>1, <2>1, <2>3 DEF Live
<1> QED BY <1>3, <1>4

LEMMA RefusalReach ==
  ASSUME Types, Refusal, Live'
  PROVE  Live /\ setid' = setid /\ Reach' \subseteq Reach
<1>1. setid' = setid /\ net' \subseteq net /\ UNCHANGED sets /\ (net' # {} => newest' = newest)
  BY DEF Refusal, client, Compared
<1> QED BY <1>1 DEF Live, Reach

\* An executed call leaves nothing in the network that the set would accept.
LEMMA ExecutedReach ==
  ASSUME Types, NEW r \in NextRequests, CallEffect(r), Completed(r) \/ Unnoticed(r), Live'
  PROVE  /\ Reach' \subseteq (IF setid = NoSet THEN r.adds ELSE sets[setid].oids \cup r.adds) \ r.dels
         /\ setid # NoSet => Live
<1>1. PICK s \in SetId : \E answer \in {"ok", "badoid", "nomem"} :
        Serves(r, s, answer, 0, Since) /\ setid' \in {s, setid}
  BY DEF Completed, Unnoticed
<1>2. PICK answer \in {"ok", "badoid", "nomem"} :
        Serves(r, s, answer, 0, Since) /\ setid' \in {s, setid}
  BY <1>1
<1>3. r \in Requests /\ r.setid = setid /\ SetTypes /\ setid \in SetId \cup {NoSet}
      /\ setid' # NoSet /\ NoSet \notin SetId
  BY NextRequest, PingSetsAssumption DEF Types, ClientTypes, Live
<1>4. Compared([Since EXCEPT ![s] = 0]) /\ (setid # NoSet => s = setid /\ sets[s].live)
  BY <1>2, <1>3, Served
<1>5. setid' = s
  BY <1>2, <1>3, <1>4
<1>6. PICK A \in SUBSET r.adds :
        /\ setid # NoSet => sets'[s].oids = After(sets[setid].oids, r, A)
        /\ setid = NoSet => sets'[s].oids = After({}, r, A)
  BY <1>2, ServedSet
<1>7. \A m \in net' : ~ m.age < newest'[s]
  <2> SUFFICES ASSUME NEW m \in net' PROVE ~ m.age < newest'[s]
    OBVIOUS
  <2>1. newest'[s] = 0
    BY <1>4, Aging DEF Compared
  <2>2. m.age \in 0..MaxAge
    BY CallTypes DEF Types, NetTypes, Copies
  <2> QED BY <2>1, <2>2, ClientSetAssumption
<1>8. Reach' \subseteq sets'[s].oids
  BY <1>5, <1>7 DEF Reach
<1> QED BY <1>3, <1>4, <1>6, <1>8 DEF After, Live

\* One that was not adds at most its own additions.
LEMMA UnexecutedReach ==
  ASSUME Types, NEW r \in NextRequests, CallEffect(r), Mistaken(r) \/ Unexecuted(r), Live'
  PROVE  Live /\ setid' = setid /\ Reach' \subseteq Reach \cup r.adds
<1>1. UNCHANGED <<sets, setid>> /\ Compared(Since) /\ CallLeaves(r)
  BY DEF Mistaken, Unexecuted, CallEffect
<1>2. Live /\ setid \in SetId
  BY <1>1 DEF Live, Types, ClientTypes
<1>3. ASSUME NEW m \in net', m.request.setid = setid, m.age < newest'[setid],
             NEW o \in m.request.adds, o \in Oid
      PROVE  o \in Reach \cup r.adds
  <2>1. CASE m.request = r
    BY <1>3, <2>1
  <2>2. CASE \E n \in net : n.age < MaxAge /\ m.request = n.request /\ m.age = n.age + 1
    <3>1. PICK n \in net : n.age < MaxAge /\ m.request = n.request /\ m.age = n.age + 1
      BY <2>2
    <3>2. newest'[setid] = Since[setid]
      BY <1>1, <1>3 DEF Compared
    <3>3. n.age < newest[setid]
      BY <1>2, <1>3, <3>1, <3>2, SinceGrows, Numbers
    <3> QED BY <1>3, <3>1, <3>3 DEF Reach
  <2> QED BY <1>1, <2>1, <2>2, Was
<1>4. Reach' \subseteq Reach \cup r.adds
  BY <1>1, <1>3 DEF Reach
<1> QED BY <1>1, <1>2, <1>4

LEMMA CallTraced ==
  ASSUME Types, Traced, NEW r \in NextRequests, CallEffect(r)
  PROVE  Traced'
<1>1. /\ r.adds \subseteq ping.adds /\ r.adds \subseteq listed /\ r.dels \subseteq ping.dels
      /\ ping.adds \cap ping.dels = {} /\ r.dels \subseteq ping.moreDels
      /\ ping.at = "calling" /\ Going /\ UNCHANGED listed
  BY NextRequest DEF CallEffect, Going, Types, PingShape
<1>2. \A s \in SetId : ~ sets'[s].live => sets'[s].oids = {}
  BY CallServer DEF Executed, Traced
<1>3. CASE Completed(r) \/ Unnoticed(r)
  <2>1. astray' = astray \ (r.adds \cup r.dels)
    BY <1>3 DEF Completed, Unnoticed
  <2>2. setid # NoSet /\ Live => sets[setid].oids \subseteq Reach
    BY DEF Reach, Types, SetTypes, ClientTypes, Sets
  <2>3. Live' => Reach' \subseteq listed \cup astray'
    BY <1>1, <1>3, <2>1, <2>2, ExecutedReach DEF Traced
  <2>4. Live' /\ Going' => Reach' \cap (ping'.dels \ ping'.moreDels) \subseteq astray'
    <3> SUFFICES ASSUME Live', Going'
                 PROVE  Reach' \cap (ping'.dels \ ping'.moreDels) \subseteq astray'
      OBVIOUS
    <3>1. ping'.dels = ping.dels /\ ping'.moreDels = ping.moreDels \ r.dels
      BY <1>3 DEF Completed, Unnoticed, Advanced, Failed, Kept, Going
    <3>2. Reach' \subseteq (IF setid = NoSet THEN r.adds ELSE sets[setid].oids \cup r.adds) \ r.dels
          /\ (setid # NoSet => Live)
      BY <1>3, ExecutedReach
    <3> QED BY <1>1, <2>1, <2>2, <3>1, <3>2 DEF Traced
  <2> QED BY <1>1, <1>2, <2>3, <2>4 DEF Traced
<1>4. CASE Mistaken(r)
  <2>1. astray' = astray \cup r.adds \cup r.dels
        /\ ping'.dels = ping.dels /\ ping'.moreDels = ping.moreDels \ r.dels
    BY <1>4 DEF Mistaken, Advanced, Kept
  <2>2. Live' => Live /\ Reach' \subseteq Reach \cup r.adds
    BY <1>4, UnexecutedReach
  <2> QED BY <1>1, <1>2, <2>1, <2>2 DEF Traced
<1>5. CASE Forgotten
  <2>1. ~ Live'
    BY <1>5 DEF Forgotten, Live
  <2> QED BY <1>2, <2>1 DEF Traced
<1>6. CASE Unexecuted(r)
  <2>1. astray' = astray /\ (Going' => ping'.dels \subseteq ping'.moreDels)
    BY <1>6 DEF Unexecuted, Failed, Restarted, Kept, Going
  <2>2. Live' => Live /\ Reach' \subseteq Reach \cup r.adds
    BY <1>6, UnexecutedReach
  <2> QED BY <1>1, <1>2, <2>1, <2>2 DEF Traced
<1> QED BY <1>3, <1>4, <1>5, <1>6 DEF CallEffect

\* Steps that execute no deletion of a ping under way.
LEMMA SteadyTraced ==
  ASSUME Types, Traced, \A s \in SetId : ~ sets'[s].live => sets'[s].oids = {},
         Live' => Live /\ Reach' \subseteq Reach,
         listed \subseteq listed', astray \subseteq astray',
         Going' => (Going /\ ping'.dels = ping.dels /\ ping'.moreDels = ping.moreDels)
                     \/ ping'.dels \subseteq ping'.moreDels
  PROVE  Traced'
BY DEF Traced

LEMMA StrayTraced ==
  ASSUME Types, Ordered, Traced, Stray
  PROVE  Traced'
<1>1. CASE \E m \in net, s \in SetId : Strayed(m, s)
  <2>1. PICK m \in net, s \in SetId : Strayed(m, s)
    BY <1>1
  <2>2. \A t \in SetId : ~ sets'[t].live => sets'[t].oids = {}
    BY <2>1 DEF Strayed, Traced
  <2>3. UNCHANGED <<listed, ping>> /\ astray \subseteq astray'
    BY <2>1 DEF Strayed, client
  <2>4. Live' => Live /\ Reach' \subseteq Reach
    BY <2>1, StrayReach
  <2> QED BY <2>2, <2>3, <2>4, SteadyTraced DEF Going
<1>2. CASE Refusal
  <2>1. UNCHANGED <<listed, ping, astray, sets>>
    BY <1>2 DEF Refusal, client
  <2>2. Live' => Live /\ Reach' \subseteq Reach
    BY <1>2, RefusalReach
  <2> QED BY <2>1, <2>2, SteadyTraced DEF Going, Traced
<1> QED BY <1>1, <1>2, StraySteps

LEMMA CalmTraced ==
  ASSUME Types, Traced, CalmStep
  PROVE  Traced'
<1>1. Calm
  BY CalmSteps
<1>2. \A s \in SetId : ~ sets'[s].live => sets'[s].oids = {}
  BY <1>1 DEF Calm, Quiet, Traced
<1>3. Live' => Live /\ Reach' \subseteq Reach
  BY <1>1, CalmReach
<1>4. CASE Finish
  <2>1. /\ ping.at = "finish" /\ ping.ok /\ Going /\ ping'.at \in {"queued", "none"}
        /\ listed' = listed \ (ping.dels \ held)
        /\ (listed' # {} /\ astray' = astray) \/ setid' = NoSet
    BY <1>4 DEF Finish, Going, At
  <2>2. ping.moreDels = {}
    BY <2>1 DEF Types, PingShape
  <2>3. ~ Going'
    BY <2>1 DEF Going
  <2>4. Live' => Reach' \subseteq listed' \cup astray'
    BY <1>3, <2>1, <2>2 DEF Traced, Live
  <2> QED BY <1>2, <2>3, <2>4 DEF Traced
<1>5. CASE ~ Finish
  <2>1. listed \subseteq listed' /\ astray \subseteq astray'
    <3>1. CASE \E o \in Oid : Use(o) \/ Drop(o)
      BY <3>1 DEF Use, Drop, history
    <3>2. CASE Collect \/ CollectUnbound \/ CollectUnbuffered \/ FinishFailed \/ Tick
      BY <3>2 DEF Collect, CollectUnbound, CollectUnbuffered, FinishFailed, Tick, history
    <3>3. CASE SimplePing \/ SimpleBadSet \/ SimpleLost \/ SimpleUnanswered \/ GivenUp
      BY <3>3, SimpleSteps DEF Simple, GivenUp, history
    <3>4. CASE Expire \/ UNCHANGED vars
      BY <3>4 DEF Expire, vars, client, history
    <3> QED BY <1>5, <3>1, <3>2, <3>3, <3>4 DEF CalmStep
  <2>2. Going' => (Going /\ ping'.dels = ping.dels /\ ping'.moreDels = ping.moreDels)
                     \/ ping'.dels \subseteq ping'.moreDels
    <3>1. CASE \E o \in Oid : Use(o) \/ Drop(o)
      BY <3>1 DEF Use, Drop, Going, At
    <3>2. CASE Collect
      <4>1. ping' = [At(IF local \/ Adds \cup Dels # {} THEN "calling" ELSE "finish") EXCEPT
                       !.adds = Adds, !.dels = Dels, !.moreAdds = Adds, !.moreDels = Dels,
                       !.ok = TRUE]
        BY <3>2 DEF Collect
      <4>2. ping'.dels = ping'.moreDels
        BY <4>1 DEF At
      <4> QED BY <4>2
    <3>3. CASE CollectUnbound \/ CollectUnbuffered \/ FinishFailed \/ Tick
      <4>1. CASE CollectUnbound
        <5>1. ping' = [At("finish") EXCEPT !.adds = Adds, !.dels = Dels]
          BY <4>1 DEF CollectUnbound
        <5>2. ping'.at = "finish" /\ ~ ping'.ok
          BY <5>1 DEF At
        <5> QED BY <5>2 DEF Going
      <4>2. CASE CollectUnbuffered \/ FinishFailed
        BY <4>2 DEF CollectUnbuffered, FinishFailed, Going, At
      <4>3. CASE Tick
        BY <4>3 DEF Tick, Going, At
      <4> QED BY <3>3, <4>1, <4>2, <4>3
    <3>4. CASE SimplePing \/ SimpleBadSet \/ SimpleLost \/ SimpleUnanswered \/ GivenUp
      BY <3>4, SimpleSteps DEF Simple, GivenUp, Going, At
    <3>5. CASE Expire \/ UNCHANGED vars
      BY <3>5 DEF Expire, vars, client, Going
    <3> QED BY <1>5, <3>1, <3>2, <3>3, <3>4, <3>5 DEF CalmStep
  <2> QED BY <1>2, <1>3, <2>1, <2>2, SteadyTraced
<1> QED BY <1>4, <1>5

-----------------------------------------------------------------------------
(* Theorems *)

LEMMA OInvInit ==
  ASSUME Init
  PROVE  OInv
<1>1. Ordered
  BY DEF Init, Ordered
<1>2. Traced
  BY DEF Init, Traced, Live, Unused
<1> QED BY <1>1, <1>2, BInvInit DEF OInv

LEMMA OInvNext ==
  ASSUME OInv, [Next]_vars
  PROVE  OInv'
<1>1. Types /\ BInv /\ Ordered /\ Traced
  BY DEF OInv, BInv
<1>2. BInv'
  BY <1>1, BInvNext
<1>3. CASE Call
  BY <1>1, <1>2, <1>3, CallEffects, CallOrdered, CallTraced DEF OInv
<1>4. CASE Stray
  <2>1. Ordered'
    BY <1>1, <1>4, StraySteps, StrayOrdered, RefusalOrdered
  <2> QED BY <1>1, <1>2, <1>4, <2>1, StrayTraced DEF OInv
<1>5. CASE CalmStep
  BY <1>1, <1>2, <1>5, CalmSteps, CalmOrdered, CalmTraced DEF OInv
<1>6. Call \/ Stray \/ CalmStep
  BY DEF Next, PingServer, CalmStep
<1> QED BY <1>3, <1>4, <1>5, <1>6

\* The inductive invariant: the numbers of requests, and what the set of the
\* client may come to have.
THEOREM OInvHolds == Spec => []OInv
<1>1. Init => OInv
  BY OInvInit
<1>2. OInv /\ [Next]_vars => OInv'
  BY OInvNext
<1> QED BY <1>1, <1>2, PTL DEF Spec

\* manager.cxx, sset.hxx: CheckAndUpdateSequenceNumber lets no request through
\* that was sent before one that the set has accepted, nor the same again.
THEOREM PingsInOrderHolds == Spec => []PingsInOrder
<1>1. OInv => PingsInOrder
  BY OvertakenRefused DEF OInv, BInv, PingsInOrder
<1> QED BY <1>1, OInvHolds, PTL

\* Whatever requests are lost, late or repeated, what the set has is known to
\* the client or astray.
THEOREM NothingLeakedHolds == Spec => []NothingLeaked
<1>1. OInv => NothingLeaked
  <2> SUFFICES ASSUME OInv, setid # NoSet
               PROVE  sets[setid].oids \subseteq listed \cup astray
    BY DEF NothingLeaked
  <2>1. setid \in SetId /\ sets[setid].oids \subseteq Oid
    BY DEF OInv, BInv, Types, ClientTypes, SetTypes, Sets
  <2>2. CASE sets[setid].live
    BY <2>1, <2>2 DEF OInv, Traced, Live, Reach
  <2>3. CASE ~ sets[setid].live
    BY <2>1, <2>3 DEF OInv, Traced
  <2> QED BY <2>2, <2>3
<1> QED BY <1>1, OInvHolds, PTL

=============================================================================
