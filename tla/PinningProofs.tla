----------------------------- MODULE PinningProofs -----------------------------
(***************************************************************************)
(* For any objects, apartments and clients: the resolver deletes no OID of *)
(* an object that its process said to be pinned and has kept locked,       *)
(* unless a rundown call came while the object's apartment was stopped     *)
(* (LockedKept), and, if unpins do not overtake answers, it holds no OID   *)
(* as pinned whose object is unlocked without an unpin to come             *)
(* (PinsAgree).                                                            *)
(*                                                                         *)
(* The composition is shown to be, seen from each side, the component that *)
(* was modelled alone.  So what was proved of the components holds, and    *)
(* what is left is the invariant that links them.                          *)
(***************************************************************************)
EXTENDS Pinning, TLAPS

\* The components, with what is proved of them.
RP == INSTANCE ServerOidProofs
SP == INSTANCE UnpinProofs WITH Object <- Oid

\* What the components assume of their constants.
LEMMA ResolverAssumed ==
  /\ Oxid # {}
  /\ \A S \in {Oid, Oxid, PingSet, Call} : RP!IsFiniteSet(S)
  /\ OxidOf \in [Oid -> Oxid]
  /\ ProcessOf \in [Oxid -> Process]
  /\ LocalSets \subseteq PingSet
  /\ MaxBatch \in Nat \ {0} /\ MaxCalls \in Nat \ {0}
  /\ Answers \subseteq {"ok", "keep", "pinned"}
  /\ Suspends \in BOOLEAN
  /\ MaxItems \in Nat /\ MaxGuests \in Nat
<1>1. \A S : IsFiniteSet(S) <=> RP!IsFiniteSet(S)
  BY DEF IsFiniteSet, RP!IsFiniteSet
<1> QED BY <1>1, PinningAssumption

LEMMA ServerAssumed ==
  Oid # {} /\ ThreadsFail \in BOOLEAN /\ MaxLocks \in Nat \ {0}
BY PinningAssumption

-----------------------------------------------------------------------------
(* The steps of the components.  Pinning and the modules of proofs each have *)
(* an instance of a component: the definitions are the same.                 *)

LEMMA SharedOfResolver ==
  /\ \A o : Resolver!AllocateOid(o) => RP!AllocateOid(o)
  /\ \A o : Resolver!FreeServerOid(o) => RP!FreeServerOid(o)
  /\ \A c, a : Resolver!ServerAnswers(c, a) => RP!ServerAnswers(c, a)
  /\ \A c : Resolver!ReturnedError(c) => RP!ReturnedError(c)
  /\ \A p : Resolver!ProcessRundown(p) => RP!ProcessRundown(p)
  /\ \A x, F : Resolver!FreeOxid(x, F) => RP!FreeOxid(x, F)
<1>1. \A o : Resolver!AllocateOid(o) => RP!AllocateOid(o)
  BY Zenon
  DEF Resolver!AllocateOid, RP!AllocateOid, Resolver!NoOid, RP!NoOid, Resolver!Release,
      RP!Release
<1>2. \A o : Resolver!FreeServerOid(o) => RP!FreeServerOid(o)
  BY Zenon
  DEF Resolver!FreeServerOid, RP!FreeServerOid, Resolver!Free, RP!Free, Resolver!Unpin,
      RP!Unpin, Resolver!Release, RP!Release, Resolver!NoOid, RP!NoOid, Resolver!Commit,
      RP!Commit, Resolver!Exists, RP!Exists, Resolver!OidsOf, RP!OidsOf, Resolver!Cardinality,
      RP!Cardinality, Resolver!IsFiniteSet, RP!IsFiniteSet
<1>3. \A c, a : Resolver!ServerAnswers(c, a) => RP!ServerAnswers(c, a)
  BY Zenon
  DEF Resolver!ServerAnswers, RP!ServerAnswers
<1>4. \A c : Resolver!ReturnedError(c) => RP!ReturnedError(c)
  BY Zenon
  DEF Resolver!ReturnedError, RP!ReturnedError, Resolver!AllAnswer, RP!AllAnswer
<1>5. \A p : Resolver!ProcessRundown(p) => RP!ProcessRundown(p)
  BY Zenon
  DEF Resolver!ProcessRundown, RP!ProcessRundown, Resolver!Stopped, RP!Stopped,
      Resolver!UnpinOrphans, RP!UnpinOrphans, Resolver!Unpin, RP!Unpin, Resolver!Release,
      RP!Release, Resolver!NoOid, RP!NoOid, Resolver!Commit, RP!Commit, Resolver!Exists,
      RP!Exists, Resolver!OidsOf, RP!OidsOf, Resolver!Cardinality, RP!Cardinality,
      Resolver!IsFiniteSet, RP!IsFiniteSet
<1>6. ASSUME NEW x, NEW F, Resolver!FreeOxid(x, F) PROVE RP!FreeOxid(x, F)
  <2>1. Resolver!UnpinOrphans(oid, {x}) = RP!UnpinOrphans(oid, {x})
    BY Zenon
  DEF Resolver!UnpinOrphans, RP!UnpinOrphans, Resolver!Unpin, RP!Unpin, Resolver!Release,
      RP!Release, Resolver!NoOid, RP!NoOid
  <2>2. Resolver!Stopped({x}) = RP!Stopped({x})
    BY Zenon
  DEF Resolver!Stopped, RP!Stopped
  <2>3. Resolver!NoOid = RP!NoOid
    BY Zenon
  DEF Resolver!NoOid, RP!NoOid
  <2>4. \A q, b : Resolver!Commit(q, b, proc) <=> RP!Commit(q, b, proc)
    BY Zenon
  DEF Resolver!Commit, RP!Commit, Resolver!Exists, RP!Exists, Resolver!OidsOf, RP!OidsOf,
      Resolver!Cardinality, RP!Cardinality, Resolver!IsFiniteSet, RP!IsFiniteSet
  <2> QED BY <1>6, <2>1, <2>2, <2>3, <2>4, Zenon DEF Resolver!FreeOxid, RP!FreeOxid
<1> QED BY <1>1, <1>2, <1>3, <1>4, <1>5, <1>6

\* Only OIDs can be unpinned.
LEMMA UnpinsOfResolver ==
  ASSUME NEW U, Resolver!UnpinOids(U)
  PROVE  RP!UnpinOids(U \cap Oid)
<1> DEFINE hit == {o \in U : oid[o].alive /\ oid[o].pinned /\ oxid[OxidOf[o]].running}
           hitOid == {o \in U \cap Oid : oid[o].alive /\ oid[o].pinned /\ oxid[OxidOf[o]].running}
<1>1. RP!UnpinOids(U)
  BY Zenon
  DEF Resolver!UnpinOids, RP!UnpinOids, Resolver!Unpin, RP!Unpin, Resolver!Release,
      RP!Release, Resolver!NoOid, RP!NoOid, Resolver!Commit, RP!Commit, Resolver!Exists,
      RP!Exists, Resolver!OidsOf, RP!OidsOf, Resolver!Cardinality, RP!Cardinality,
      Resolver!IsFiniteSet, RP!IsFiniteSet
<1>2. [o \in Oid |-> IF o \in hit THEN RP!Unpin(oid[o], TRUE) ELSE oid[o]]
        = [o \in Oid |-> IF o \in hitOid THEN RP!Unpin(oid[o], TRUE) ELSE oid[o]]
  OBVIOUS
<1> QED BY <1>1, <1>2, Zenon DEF RP!UnpinOids

\* An apartment gives up OIDs of its own.
LEMMA FreedOfResolver ==
  ASSUME NEW x \in Oxid, ApartmentEnds(x)
  PROVE  /\ \E F \in SUBSET RP!OidsOf(x) : RP!FreeOxid(x, F)
         /\ \A o \in Oid : OxidOf[o] = x => obj[o].at # "tabled"
         /\ UNCHANGED <<server, disowned>>
<1>1. Resolver!OidsOf(x) = RP!OidsOf(x)
  BY DEF Resolver!OidsOf, RP!OidsOf
<1>2. PICK F \in SUBSET {o \in Resolver!OidsOf(x) : obj[o].at = "absent"} : Resolver!FreeOxid(x, F)
  BY DEF ApartmentEnds
<1>3. F \in SUBSET RP!OidsOf(x) /\ RP!FreeOxid(x, F)
  BY <1>1, <1>2, SharedOfResolver
<1>4. \A o \in Oid : OxidOf[o] = x => obj[o].at # "tabled"
  BY DEF ApartmentEnds, Resolver!OidsOf
<1> QED BY <1>3, <1>4 DEF ApartmentEnds

\* The steps that the resolver takes alone.
Alone ==
  \/ \E p \in Process : RP!Connect(p)
  \/ \E x \in Oxid : RP!AllocateOxid(x)
  \/ RP!Client
  \/ \E x \in Oxid, c \in Call : \E B \in RP!Batches(x) :
       RP!TaskRundown(x, B, c) \/ RP!HelperRundown(x, B, c)
  \/ \E x \in Oxid : RP!HelperIdle(x) \/ RP!HelperDone(x)
  \/ \E c \in Call :
       \/ RP!TakeReferences(c) \/ RP!NoMemory(c)
       \/ RP!Issue(c) \/ RP!IssueFails(c) \/ RP!CallFailed(c)
       \/ RP!Returned(c) \/ RP!ProcessResults(c)
       \/ RP!CheckForMore(c) \/ RP!ReleaseRundownHandle(c)
       \/ RP!DropReferences(c)
  \/ RP!Environment

LEMMA AloneOfResolver ==
  ASSUME ResolverAlone
  PROVE  Alone /\ UNCHANGED <<server, apartment>>
<1>1. ASSUME NEW p, Resolver!Connect(p) PROVE RP!Connect(p)
  BY <1>1, Zenon
  DEF Resolver!Connect, RP!Connect, Resolver!Known, RP!Known
<1>2. ASSUME NEW x, Resolver!AllocateOxid(x) PROVE RP!AllocateOxid(x)
  BY <1>2, Zenon
  DEF Resolver!AllocateOxid, RP!AllocateOxid, Resolver!NoOxid, RP!NoOxid, Resolver!Exists,
      RP!Exists
<1>3. ASSUME Resolver!Client PROVE RP!Client
  <2>1. ASSUME NEW s, Resolver!SimplePing(s) \/ Resolver!RundownSet(s)
        PROVE  RP!SimplePing(s) \/ RP!RundownSet(s)
    BY <2>1, Zenon
    DEF Resolver!SimplePing, RP!SimplePing, Resolver!Stale, RP!Stale, Resolver!ReleaseAll,
        RP!ReleaseAll, Resolver!Release, RP!Release, Resolver!NoOid, RP!NoOid, Resolver!Commit,
        RP!Commit, Resolver!Exists, RP!Exists, Resolver!OidsOf, RP!OidsOf, Resolver!Pinged,
        RP!Pinged, Resolver!RundownSet, RP!RundownSet, Resolver!NoSet, RP!NoSet,
        Resolver!Running, RP!Running, Resolver!Cardinality, RP!Cardinality,
        Resolver!IsFiniteSet, RP!IsFiniteSet
  <2>2. ASSUME NEW s, NEW A, NEW D, Resolver!ComplexPing(s, A, D) PROVE RP!ComplexPing(s, A, D)
    <3>1. \A q, S : Resolver!ReleaseAll(q, S) = RP!ReleaseAll(q, S)
      BY Zenon
      DEF Resolver!ReleaseAll, RP!ReleaseAll, Resolver!Release, RP!Release, Resolver!NoOid,
          RP!NoOid
    <3>2. Resolver!Stale(s) = RP!Stale(s)
      BY
      DEF Resolver!Stale, RP!Stale
    <3>3. Resolver!Swapped(s, A, D) = RP!Swapped(s, A, D)
      BY <3>1, <3>2, Zenon
      DEF Resolver!Swapped, RP!Swapped, Resolver!KeepAlive, RP!KeepAlive,
          Resolver!Reference, RP!Reference
    <3>4. \A M : Resolver!Pinged(s, M) <=> RP!Pinged(s, M)
      BY Zenon
      DEF Resolver!Pinged, RP!Pinged
    <3>5. \A q : Resolver!Commit(q, oxid, proc) <=> RP!Commit(q, oxid, proc)
      BY Zenon
      DEF Resolver!Commit, RP!Commit, Resolver!Exists, RP!Exists, Resolver!OidsOf,
          RP!OidsOf, Resolver!Cardinality, RP!Cardinality, Resolver!IsFiniteSet, RP!IsFiniteSet
    <3> QED BY <2>2, <3>1, <3>2, <3>3, <3>4, <3>5, Zenon DEF Resolver!ComplexPing, RP!ComplexPing
  <2>3. /\ Resolver!Registered = RP!Registered
        /\ \A s : Resolver!Missing(s) = RP!Missing(s)
    BY
    DEF Resolver!Missing, RP!Missing, Resolver!Stale, RP!Stale, Resolver!Registered,
        RP!Registered
  <2> QED BY <1>3, <2>1, <2>2, <2>3 DEF Resolver!Client, RP!Client
<1>4. ASSUME NEW x, NEW c, NEW B \in Resolver!Batches(x),
             Resolver!TaskRundown(x, B, c) \/ Resolver!HelperRundown(x, B, c)
      PROVE  B \in RP!Batches(x) /\ (RP!TaskRundown(x, B, c) \/ RP!HelperRundown(x, B, c))
  BY <1>4, Zenon
  DEF Resolver!TaskRundown, RP!TaskRundown, Resolver!StartRundown, RP!StartRundown,
      Resolver!HandleLeft, RP!HandleLeft, Resolver!Result, RP!Result, Resolver!NoOid, RP!NoOid,
      Resolver!Reference, RP!Reference, Resolver!Commit, RP!Commit, Resolver!Exists, RP!Exists,
      Resolver!OidsOf, RP!OidsOf, Resolver!AllAnswer, RP!AllAnswer, Resolver!Batches,
      RP!Batches, Resolver!Eligible, RP!Eligible, Resolver!OkayForMoreRundownCalls,
      RP!OkayForMoreRundownCalls, Resolver!Running, RP!Running, Resolver!HelperRundown,
      RP!HelperRundown, Resolver!Cardinality, RP!Cardinality, Resolver!IsFiniteSet,
      RP!IsFiniteSet
<1>5. ASSUME NEW x, Resolver!HelperIdle(x) \/ Resolver!HelperDone(x)
      PROVE  RP!HelperIdle(x) \/ RP!HelperDone(x)
  BY <1>5, Zenon
  DEF Resolver!HelperIdle, RP!HelperIdle, Resolver!Eligible, RP!Eligible, Resolver!OidsOf,
      RP!OidsOf, Resolver!OkayForMoreRundownCalls, RP!OkayForMoreRundownCalls, Resolver!Running,
      RP!Running, Resolver!HelperDone, RP!HelperDone, Resolver!Commit, RP!Commit,
      Resolver!Exists, RP!Exists, Resolver!Cardinality, RP!Cardinality, Resolver!IsFiniteSet,
      RP!IsFiniteSet
<1>6. ASSUME NEW c,
             \/ Resolver!TakeReferences(c) \/ Resolver!NoMemory(c)
             \/ Resolver!Issue(c) \/ Resolver!IssueFails(c) \/ Resolver!CallFailed(c)
             \/ Resolver!Returned(c) \/ Resolver!ProcessResults(c)
             \/ Resolver!CheckForMore(c) \/ Resolver!ReleaseRundownHandle(c)
             \/ Resolver!DropReferences(c)
      PROVE  \/ RP!TakeReferences(c) \/ RP!NoMemory(c)
             \/ RP!Issue(c) \/ RP!IssueFails(c) \/ RP!CallFailed(c)
             \/ RP!Returned(c) \/ RP!ProcessResults(c)
             \/ RP!CheckForMore(c) \/ RP!ReleaseRundownHandle(c)
             \/ RP!DropReferences(c)
  BY <1>6, Zenon
  DEF Resolver!TakeReferences, RP!TakeReferences, Resolver!To, RP!To, Resolver!NoMemory,
      RP!NoMemory, Resolver!Issue, RP!Issue, Resolver!IssueFails, RP!IssueFails,
      Resolver!Commit, RP!Commit, Resolver!Exists, RP!Exists, Resolver!OidsOf, RP!OidsOf,
      Resolver!CallFailed, RP!CallFailed, Resolver!NoCall, RP!NoCall, Resolver!AllAnswer,
      RP!AllAnswer, Resolver!HandleLeft, RP!HandleLeft, Resolver!Result, RP!Result,
      Resolver!NoOid, RP!NoOid, Resolver!Reference, RP!Reference, Resolver!Returned,
      RP!Returned, Resolver!ProcessResults, RP!ProcessResults, Resolver!CheckForMore,
      RP!CheckForMore, Resolver!Eligible, RP!Eligible, Resolver!ReleaseRundownHandle,
      RP!ReleaseRundownHandle, Resolver!DropReferences, RP!DropReferences, Resolver!Cardinality,
      RP!Cardinality, Resolver!IsFiniteSet, RP!IsFiniteSet
<1>7. ASSUME Resolver!Environment PROVE RP!Environment
  BY <1>7, Zenon
  DEF Resolver!Environment, RP!Environment, Resolver!Resume, RP!Resume,
      Resolver!ResetAllOidTimeouts, RP!ResetAllOidTimeouts, Resolver!Running, RP!Running,
      Resolver!PingAllSets, RP!PingAllSets, Resolver!Release, RP!Release, Resolver!NoOid,
      RP!NoOid, Resolver!Commit, RP!Commit, Resolver!Exists, RP!Exists, Resolver!OidsOf,
      RP!OidsOf, Resolver!Stale, RP!Stale, Resolver!CriticalSleep, RP!CriticalSleep,
      Resolver!Suspend, RP!Suspend, Resolver!SetDue, RP!SetDue, Resolver!Later, RP!Later,
      Resolver!OidDue, RP!OidDue, Resolver!Cardinality, RP!Cardinality, Resolver!IsFiniteSet,
      RP!IsFiniteSet
<1> QED BY <1>1, <1>2, <1>3, <1>4, <1>5, <1>6, <1>7, Zenon DEF ResolverAlone, Alone

\* A step of the composition is one of the resolver, or leaves it alone.
LEMMA ResolverStep ==
  ASSUME Next
  PROVE  RP!Next \/ UNCHANGED resolver
<1>1. ASSUME NEW o \in Oid, Marshal(o) \/ FreeOid(o) PROVE RP!Next
  BY <1>1, SharedOfResolver DEF Marshal, FreeOid, RP!Next, RP!Server
<1>2. ASSUME NEW c \in Call, NEW a \in [Oid -> Answers], ServeRundown(c, a) PROVE RP!Next
  BY <1>2, SharedOfResolver DEF ServeRundown, RP!Next, RP!Rundown
<1>3. ASSUME ServeUnpins PROVE RP!Next
  <2>1. RP!UnpinOids(worker.batch \cap Oid)
    BY <1>3, UnpinsOfResolver DEF ServeUnpins
  <2> QED BY <2>1 DEF RP!Next, RP!Server
<1>4. ASSUME NEW p \in Process, ProcessEnds(p) PROVE RP!Next
  BY <1>4, SharedOfResolver DEF ProcessEnds, RP!Next, RP!Server
<1>5. ASSUME ResolverAlone PROVE RP!Next
  <2>1. Alone
    BY <1>5, AloneOfResolver
  <2> QED BY <2>1, Zenon DEF Alone, RP!Next, RP!Server, RP!Rundown
<1>6. ASSUME NEW c \in Call, CallLost(c) PROVE RP!Next
  BY <1>6, SharedOfResolver DEF CallLost, RP!Next, RP!Rundown
<1>7. ASSUME NEW x \in Oxid, ApartmentEnds(x) PROVE RP!Next
  <2>1. \E F \in SUBSET RP!OidsOf(x) : RP!FreeOxid(x, F)
    BY <1>7, FreedOfResolver
  <2> QED BY <2>1, Zenon DEF RP!Next, RP!Server
<1>8. ASSUME ServerAlone \/ \E x \in Oxid : StopServer(x) \/ RestartServer(x)
      PROVE  UNCHANGED resolver
  BY <1>8 DEF ServerAlone, StopServer, RestartServer
<1> QED BY <1>1, <1>2, <1>3, <1>4, <1>5, <1>6, <1>7, <1>8 DEF Next, Both

LEMMA ResolverInit == Init => RP!Init
<1>1. Resolver!Init => RP!Init
  BY
  DEF Resolver!Init, RP!Init, Resolver!NoCall, RP!NoCall, Resolver!AllAnswer, RP!AllAnswer,
      Resolver!NoSet, RP!NoSet, Resolver!NoOxid, RP!NoOxid, Resolver!NoOid, RP!NoOid
<1> QED BY <1>1 DEF Init

\* Seen from the resolver, the composition is the resolver alone: a server
\* process does nothing to it that ServerOid does not allow.
THEOREM ResolverImplemented == Spec => RP!Spec
<1>1. [Next]_vars => [RP!Next]_RP!vars
  BY ResolverStep DEF vars, resolver, RP!vars
<1> QED BY <1>1, ResolverInit, PTL DEF Spec, RP!Spec

\* What holds of the resolver.
LEMMA ResolverInvariant == Spec => [](RP!IInv /\ RP!LInv)
BY ResolverAssumed, ResolverImplemented, RP!LInvHolds, PTL

-----------------------------------------------------------------------------
(* The server process *)

LEMMA SharedOfServer ==
  /\ \A o : Server!Marshal(o) => SP!Marshal(o)
  /\ \A B, a : Server!RundownOids(B, a) => SP!RundownOids(B, a)
  /\ Server!UnpinsHandled => SP!UnpinsHandled
  /\ Server!ProcessEnds => SP!ProcessEnds
<1>1. \A o : Server!Marshal(o) => SP!Marshal(o)
  BY Zenon
  DEF Server!Marshal, SP!Marshal, Server!Absent, SP!Absent
<1>2. \A B, a : Server!RundownOids(B, a) => SP!RundownOids(B, a)
  BY Zenon
  DEF Server!RundownOids, SP!RundownOids, Server!Removable, SP!Removable, Server!Unlisted,
      SP!Unlisted, Server!Without, SP!Without, Server!CanRunDown, SP!CanRunDown,
      Server!Cardinality, SP!Cardinality, Server!IsFiniteSet, SP!IsFiniteSet
<1>3. Server!UnpinsHandled => SP!UnpinsHandled
  BY Zenon
  DEF Server!UnpinsHandled, SP!UnpinsHandled
<1>4. Server!ProcessEnds => SP!ProcessEnds
  BY Zenon
  DEF Server!ProcessEnds, SP!ProcessEnds, Server!NoWorker, SP!NoWorker, Server!Idle,
      SP!Idle, Server!Absent, SP!Absent
<1> QED BY <1>1, <1>2, <1>3, <1>4

\* The answers for a set of objects are looked at for no other.
LEMMA AnswersForBatch ==
  ASSUME NEW B \in SUBSET Oid, NEW a \in [Oid -> Answers], SP!RundownOids(B, a)
  PROVE  SP!RundownOids(B, [o \in B |-> a[o]])
<1> DEFINE b == [o \in B |-> a[o]]
<1>1. \A o \in B : b[o] = a[o]
  OBVIOUS
<1> HIDE DEF b
<1>2. {o \in B : a[o] = "pinned"} = {o \in B : b[o] = "pinned"}
  BY <1>1
<1>3. \A o \in B : SP!CanRunDown(o, a[o]) = SP!CanRunDown(o, b[o])
  BY <1>1
<1> QED BY <1>2, <1>3, Zenon DEF SP!RundownOids, b

\* The steps that the server process takes alone.
LEMMA AloneOfServer ==
  ASSUME ServerAlone
  PROVE  /\ \/ \E o \in Oid : \/ SP!IncTableCnt(o) \/ SP!FindToUnlock(o)
                              \/ SP!RevokeOID(o) \/ SP!ThreadCleanup(o)
                              \/ SP!Destroy(o)
            \/ SP!DecTableCnt \/ SP!NotifyOIDIsUnpinned
            \/ SP!WorkerExits \/ SP!WorkerCounts \/ SP!GetServerOidsToUnpin
            \/ SP!BulkUpdateReturns \/ SP!NotifyUnpinOutcome
         /\ \A o \in Oid : obj'[o].at = "tabled" /\ o \in disowned => o \in disowned'
         /\ UNCHANGED resolver
<1>1. ASSUME NEW o, \/ Server!IncTableCnt(o) \/ Server!FindToUnlock(o)
                    \/ Server!RevokeOID(o) \/ Server!ThreadCleanup(o) \/ Server!Destroy(o)
      PROVE  \/ SP!IncTableCnt(o) \/ SP!FindToUnlock(o)
             \/ SP!RevokeOID(o) \/ SP!ThreadCleanup(o) \/ SP!Destroy(o)
  BY <1>1, Zenon
  DEF Server!IncTableCnt, SP!IncTableCnt, Server!FindToUnlock, SP!FindToUnlock,
      Server!RevokeOID, SP!RevokeOID, Server!ThreadCleanup, SP!ThreadCleanup, Server!Unlisted,
      SP!Unlisted, Server!Without, SP!Without, Server!Destroy, SP!Destroy, Server!Absent,
      SP!Absent, Server!Cardinality, SP!Cardinality, Server!IsFiniteSet, SP!IsFiniteSet
<1>2. ASSUME Server!DecTableCnt \/ Server!NotifyOIDIsUnpinned
      PROVE  SP!DecTableCnt \/ SP!NotifyOIDIsUnpinned
  BY <1>2, Zenon
  DEF Server!DecTableCnt, SP!DecTableCnt, Server!Idle, SP!Idle, Server!NotifyOIDIsUnpinned,
      SP!NotifyOIDIsUnpinned, Server!NotifyWorkWaiting, SP!NotifyWorkWaiting, Server!AddRequest,
      SP!AddRequest
<1>3. ASSUME Server!WorkerExits \/ Server!WorkerCounts \/ Server!GetServerOidsToUnpin
      PROVE  SP!WorkerExits \/ SP!WorkerCounts \/ SP!GetServerOidsToUnpin
  BY <1>3, Zenon
  DEF Server!WorkerExits, SP!WorkerExits, Server!NoWorker, SP!NoWorker, Server!WorkerCounts,
      SP!WorkerCounts, Server!GetServerOidsToUnpin, SP!GetServerOidsToUnpin, Server!FirstOf,
      SP!FirstOf
<1>4. ASSUME Server!BulkUpdateReturns \/ Server!NotifyUnpinOutcome
      PROVE  SP!BulkUpdateReturns \/ SP!NotifyUnpinOutcome
  BY <1>4, Zenon
  DEF Server!BulkUpdateReturns, SP!BulkUpdateReturns, Server!Replies, SP!Replies,
      Server!NotifyUnpinOutcome, SP!NotifyUnpinOutcome, Server!NoWorker, SP!NoWorker,
      Server!Without, SP!Without, Server!Settled, SP!Settled, Server!Cardinality,
      SP!Cardinality, Server!IsFiniteSet, SP!IsFiniteSet
<1>5. \A o \in Oid : obj'[o].at = "tabled" /\ o \in disowned => o \in disowned'
  BY DEF ServerAlone
<1> QED BY <1>1, <1>2, <1>3, <1>4, <1>5, Zenon DEF ServerAlone

\* A call that is out has OIDs, of one apartment.
LEMMA BatchOfCall ==
  ASSUME RP!IInv, RP!LInv, NEW c \in Call, call[c].at \in {"out", "replying", "answered"}
  PROVE  call[c].oids # {} /\ call[c].oids \in SUBSET Oid
BY DEF RP!LInv, RP!CallShape, RP!Unsettled, RP!OidsOf

\* A step of the composition is one of the server process, or leaves it alone.
LEMMA ServerStep ==
  ASSUME RP!IInv, RP!LInv, Next
  PROVE  SP!Next \/ UNCHANGED server
<1>1. ASSUME NEW o \in Oid, Marshal(o) PROVE SP!Next
  BY <1>1, SharedOfServer DEF Marshal, SP!Next
<1>2. ASSUME NEW c \in Call, NEW a \in [Oid -> Answers], ServeRundown(c, a) PROVE SP!Next
  <2> DEFINE B == call[c].oids
             b == [o \in B |-> a[o]]
  <2>1. call[c].at = "out" /\ SP!RundownOids(B, a)
    BY <1>2, SharedOfServer, SharedOfResolver DEF ServeRundown, RP!ServerAnswers
  <2>2. B # {} /\ B \in SUBSET Oid
    BY <2>1, BatchOfCall
  <2>3. SP!RundownOids(B, b)
    BY <2>1, <2>2, AnswersForBatch
  <2>4. b \in [B -> {"ok", "keep", "pinned"}]
    BY <2>2, PinningAssumption
  <2> QED BY <2>2, <2>3, <2>4, Zenon DEF SP!Next
<1>3. ASSUME ServeUnpins PROVE SP!Next
  BY <1>3, SharedOfServer DEF ServeUnpins, SP!Next, SP!Worker
<1>4. ASSUME NEW p \in Process, ProcessEnds(p) PROVE SP!Next
  BY <1>4, SharedOfServer DEF ProcessEnds, SP!Next
<1>5. ASSUME ServerAlone PROVE SP!Next
  BY <1>5, AloneOfServer, Zenon DEF SP!Next, SP!Worker
<1>6. ASSUME \/ \E o \in Oid : FreeOid(o)
             \/ \E x \in Oxid : ApartmentEnds(x)
             \/ ResolverAlone
             \/ \E c \in Call : CallLost(c)
             \/ \E x \in Oxid : StopServer(x) \/ RestartServer(x)
      PROVE  UNCHANGED server
  BY <1>6 DEF FreeOid, ApartmentEnds, ResolverAlone, CallLost, StopServer, RestartServer
<1> QED BY <1>1, <1>2, <1>3, <1>4, <1>5, <1>6 DEF Next, Both

LEMMA ServerInit == Init => SP!Init
<1>1. Server!Init => SP!Init
  BY
  DEF Server!Init, SP!Init, Server!NoWorker, SP!NoWorker, Server!Idle, SP!Idle,
      Server!Absent, SP!Absent
<1> QED BY <1>1 DEF Init

\* Seen from the server process, the composition is the process alone: the
\* resolver that UnpinRequests reduces to a set of OIDs is that of ServerOid.
THEOREM ServerImplemented == Spec => SP!Spec
<1>1. RP!IInv /\ RP!LInv /\ [Next]_vars => [SP!Next]_SP!vars
  BY ServerStep DEF vars, server, SP!vars
<1> QED BY <1>1, ServerInit, ResolverInvariant, PTL DEF Spec, SP!Spec

\* What holds of the server process.
LEMMA ServerInvariant == Spec => []SP!UInv
BY ServerAssumed, ServerImplemented, SP!UInvHolds, PTL

-----------------------------------------------------------------------------
(* What the resolver does to the OIDs of the process *)

LEMMA AnswersWait == \A o, answer : RP!Waiting(o, answer) <=> Answered(o, answer)
BY DEF RP!Waiting, Answered

\* Alone, the resolver pins an OID and deletes it only by an answer.
LEMMA AloneQuiet ==
  ASSUME RP!IInv, RP!LInv, Alone, NEW o \in Oid
  PROVE  RP!Quiet(o)
<1>0. RP!Lives /\ RP!CallShape /\ RP!CallsCounted
  BY DEF RP!LInv
<1>1. ASSUME NEW p \in Process, RP!Connect(p) PROVE RP!Quiet(o)
  BY <1>0, <1>1, ResolverAssumed, RP!ServerQuiet
<1>2. ASSUME NEW x \in Oxid, RP!AllocateOxid(x) PROVE RP!Quiet(o)
  BY <1>0, <1>2, ResolverAssumed, RP!ServerQuiet
<1>3. ASSUME RP!Client PROVE RP!Quiet(o)
  BY <1>0, <1>3, ResolverAssumed, RP!ClientQuiet
<1>4. ASSUME NEW x \in Oxid, NEW c \in Call, NEW B \in RP!Batches(x),
             RP!TaskRundown(x, B, c) \/ RP!HelperRundown(x, B, c)
      PROVE  RP!Quiet(o)
  BY <1>0, <1>4, ResolverAssumed, RP!StartQuiet
<1>5. ASSUME NEW x \in Oxid, RP!HelperIdle(x) \/ RP!HelperDone(x) PROVE RP!Quiet(o)
  BY <1>0, <1>5, ResolverAssumed, RP!HelpersQuiet
<1>6. ASSUME NEW c \in Call,
             \/ RP!TakeReferences(c) \/ RP!NoMemory(c) \/ RP!Issue(c) \/ RP!IssueFails(c)
             \/ RP!Returned(c) \/ RP!CheckForMore(c) \/ RP!ReleaseRundownHandle(c)
             \/ RP!DropReferences(c)
      PROVE  RP!Quiet(o)
  BY <1>0, <1>6, ResolverAssumed, RP!StagesQuiet
<1>7. ASSUME NEW c \in Call, RP!CallFailed(c) \/ RP!ProcessResults(c) PROVE RP!Quiet(o)
  BY <1>0, <1>7, ResolverAssumed, RP!SettledQuiet
<1>8. ASSUME RP!Environment PROVE RP!Quiet(o)
  BY <1>0, <1>8, ResolverAssumed, RP!EnvironmentQuiet
<1> QED BY <1>1, <1>2, <1>3, <1>4, <1>5, <1>6, <1>7, <1>8, Zenon DEF Alone

\* A registration or a return of an OID, and an unpin, leave the others so.
LEMMA OthersQuiet ==
  ASSUME RP!IInv, RP!LInv, NEW o \in Oid,
         \/ \E p \in Oid \ {o} : RP!AllocateOid(p) \/ RP!FreeServerOid(p)
         \/ \E U \in SUBSET Oid : RP!UnpinOids(U)
  PROVE  RP!Quiet(o)
BY ResolverAssumed, RP!ServerQuiet, Zenon DEF RP!LInv

-----------------------------------------------------------------------------
(* The link between the two *)

\* Of an object in the table: its OID was not given up, and its apartment runs,
\* as long as the resolver has the OID.  If the resolver lost the OID or is
\* about to lose it, the object was unlocked since it was reported as pinned,
\* or a rundown call did not reach its apartment.
\* What the resolver takes or will take for pinned was not unpinned since, if
\* unpins do not overtake answers.
Linked(o) ==
  obj[o].at = "tabled" =>
    /\ oid[o].alive => oxid[OxidOf[o]].running /\ ~ oid[o].freed
    /\ obj[o].pinned /\ (~ oid[o].alive \/ Answered(o, "ok")) =>
         unlock = [at |-> "notify", of |-> o] \/ o \in disowned
    /\ ~ Overtakes /\ (oid[o].pinned \/ OnTheWay(o)) => o \in believed

AllLinked == \A o \in Oid : Linked(o)

\* The invariants of the components.
Invariants == RP!IInv /\ RP!LInv /\ SP!UInv

\* An OID that the resolver knows as pinned is there, one that is not there is
\* in no call, and no OID is in two calls.
LEMMA OidsInCalls ==
  ASSUME RP!IInv, NEW o \in Oid
  PROVE  /\ oid[o].pinned => oid[o].alive
         /\ \A c \in Call : o \in call[c].oids /\ call[c].at \in {"out", "replying", "answered"} =>
              /\ oid[o].alive
              /\ \A d \in Call : o \in call[d].oids /\ call[d].at \in {"out", "replying", "answered"} =>
                   d = c
<1>1. RP!Good(oid[o])
  BY DEF RP!IInv, RP!AllGood
<1>2. \A c \in Call : o \in call[c].oids /\ call[c].at \in {"out", "replying", "answered"} => RP!Has(c, o)
  BY DEF RP!Has, RP!Unsettled
<1>3. \A c \in Call : RP!Has(c, o) => oid[o].down
  BY DEF RP!IInv, RP!TakenOnce
<1>4. \A c, d \in Call : RP!Has(c, o) /\ RP!Has(d, o) => c = d
  BY DEF RP!IInv, RP!TakenOnce
<1>5. /\ oid[o].down => oid[o].alive
      /\ oid[o].pinned => oid[o].alive
  BY <1>1 DEF RP!Good, RP!OidObjects
<1> QED BY <1>2, <1>3, <1>4, <1>5

\* Nothing is said of an object that is not in the table.
LEMMA LinkedGone == \A o : obj[o].at # "tabled" => Linked(o)
BY DEF Linked

\* What leaves an OID to the server, and its object alone, keeps the link.
LEMMA QuietLinked ==
  ASSUME NEW o \in Oid, Linked(o), RP!Quiet(o), obj'[o].at = "tabled" => obj'[o] = obj[o],
         UNCHANGED unlock, o \in believed => o \in believed',
         o \in disowned => o \in disowned'
  PROVE  Linked(o)'
<1> SUFFICES ASSUME obj'[o].at = "tabled" PROVE Linked(o)'
  BY DEF Linked
<1>1. obj'[o] = obj[o] /\ obj[o].at = "tabled"
  OBVIOUS
<1>2. \A answer \in {"ok", "pinned"} : Answered(o, answer)' => Answered(o, answer)
  BY DEF RP!Quiet, RP!Waiting, Answered
<1>3. /\ oid'[o].alive => oid[o].alive
      /\ oid'[o].pinned => oid[o].pinned \/ Answered(o, "pinned")
      /\ oxid[OxidOf[o]].running /\ oid[o].alive /\ ~ oid[o].freed =>
           /\ oxid'[OxidOf[o]].running
           /\ oid'[o].alive => ~ oid'[o].freed
           /\ oid'[o].alive \/ Answered(o, "ok")
  BY DEF RP!Quiet, RP!Waiting, Answered
<1> HIDE DEF Answered
<1> QED BY <1>1, <1>2, <1>3 DEF Linked, OnTheWay

\* An object is registered.
LEMMA MarshalLinked ==
  ASSUME Invariants, AllLinked, NEW p \in Oid, Marshal(p)
  PROVE  AllLinked'
<1> USE DEF Invariants
<1>1. RP!AllocateOid(p) /\ SP!Marshal(p)
  BY SharedOfResolver, SharedOfServer DEF Marshal
<1>2. /\ obj' = [obj EXCEPT ![p] = [SP!Absent EXCEPT !.at = "tabled"]]
      /\ UNCHANGED <<unlock, believed, disowned>>
      /\ obj \in [Oid -> SP!Objects]
  BY <1>1 DEF SP!Marshal, SP!UInv, SP!Shapes, Marshal, apartment
<1>3. ASSUME NEW o \in Oid \ {p} PROVE Linked(o)'
  <2>1. RP!Quiet(o)
    BY <1>1, OthersQuiet
  <2>2. obj'[o] = obj[o]
    BY <1>2
  <2> QED BY <1>2, <2>1, <2>2, QuietLinked DEF AllLinked
<1>4. Linked(p)'
  <2> DEFINE x == OxidOf[p]
  <2>1. /\ oxid[x].running /\ ~ oid[p].alive
        /\ oid' = [oid EXCEPT ![p] = RP!Release([RP!NoOid EXCEPT !.alive = TRUE, !.refs = 1], TRUE)]
        /\ oxid' = [oxid EXCEPT ![x].refs = @ + 1]
        /\ UNCHANGED call
    BY <1>1 DEF RP!AllocateOid
  <2>2. x \in Oxid /\ oxid \in [Oxid -> RP!OxidObjects] /\ oid \in [Oid -> RP!OidObjects]
    BY PinningAssumption DEF RP!LInv, RP!Lives, RP!Typed, RP!IInv, RP!Shapes
  <2>3. oxid'[x].running
    BY <2>1, <2>2 DEF RP!OxidObjects
  <2>4. ~ oid'[p].freed /\ ~ oid'[p].pinned /\ oid'[p].alive
    BY <2>1, <2>2 DEF RP!Release, RP!NoOid
  <2>5. ~ obj'[p].pinned
    BY <1>2 DEF SP!Absent
  <2>6. ~ OnTheWay(p)'
    BY <2>1, OidsInCalls DEF OnTheWay, Answered
  <2> QED BY <2>3, <2>4, <2>5, <2>6 DEF Linked
<1> QED BY <1>3, <1>4 DEF AllLinked

\* The OID of an object that is gone is given up.
LEMMA FreeOidLinked ==
  ASSUME Invariants, AllLinked, NEW p \in Oid, FreeOid(p)
  PROVE  AllLinked'
<1> SUFFICES ASSUME NEW o \in Oid PROVE Linked(o)'
  BY DEF AllLinked
<1>1. RP!FreeServerOid(p) /\ obj[p].at = "absent" /\ UNCHANGED <<obj, unlock, believed, disowned>>
  BY SharedOfResolver DEF FreeOid, server, apartment
<1>2. CASE o = p
  BY <1>1, <1>2, LinkedGone DEF Linked
<1>3. CASE o # p
  <2>1. RP!Quiet(o)
    BY <1>1, <1>3, OthersQuiet DEF Invariants
  <2> QED BY <1>1, <2>1, QuietLinked DEF AllLinked
<1> QED BY <1>2, <1>3

\* A rundown call is served: who is reported as pinned is locked, and the
\* resolver still has its OID; who is not is unlocked.
LEMMA ServeRundownLinked ==
  ASSUME Invariants, AllLinked, NEW c \in Call, NEW a \in [Oid -> Answers], ServeRundown(c, a)
  PROVE  AllLinked'
<1> USE DEF Invariants
<1> DEFINE B == call[c].oids
           b == [o \in Oid |-> IF o \in B THEN a[o] ELSE "keep"]
           P == {o \in B : a[o] = "pinned"}
<1>1. RP!ServerAnswers(c, a) /\ SP!RundownOids(B, a)
  BY SharedOfResolver, SharedOfServer DEF ServeRundown
<1>2. /\ call[c].at = "out"
      /\ call' = [call EXCEPT ![c].at = "replying", ![c].answer = b]
      /\ UNCHANGED <<oid, oxid>>
  BY <1>1 DEF RP!ServerAnswers
<1>3. /\ \A o \in B : SP!CanRunDown(o, a[o])
      /\ obj' = [o \in Oid |-> IF o \in P THEN [obj[o] EXCEPT !.pinned = TRUE] ELSE obj[o]]
      /\ believed' = believed \cup P
      /\ UNCHANGED <<unlock, disowned>>
  BY <1>1, Zenon DEF SP!RundownOids, ServeRundown, apartment
<1>4. call \in [Call -> RP!Calls] /\ obj \in [Oid -> SP!Objects]
  BY DEF RP!IInv, RP!Shapes, SP!UInv, SP!Shapes
<1>5. /\ \A d \in Call \ {c} : call'[d] = call[d]
      /\ call'[c].at = "replying" /\ call'[c].oids = B /\ call'[c].answer = b
  BY <1>2, <1>4 DEF RP!Calls
<1>6. \A o \in B : b[o] = a[o] \/ o \notin Oid
  OBVIOUS
<1> HIDE DEF b
<1> SUFFICES ASSUME NEW o \in Oid, obj'[o].at = "tabled" PROVE Linked(o)'
  BY DEF AllLinked, Linked
<1>7. /\ obj'[o].at = obj[o].at /\ obj'[o].locks = obj[o].locks
      /\ obj'[o].pinned => obj[o].pinned \/ o \in P
      /\ obj[o] \in SP!Objects
  BY <1>3, <1>4 DEF SP!Objects
<1>8. CASE o \in B
  <2>1. /\ oid[o].alive
        /\ \A d \in Call : o \in call[d].oids /\ call[d].at \in {"out", "replying", "answered"} => d = c
    BY <1>2, <1>8, OidsInCalls
  <2>2. \A answer : Answered(o, answer)' => a[o] = answer
    BY <1>5, <1>6, <1>8, <2>1 DEF Answered
  <2>3. a[o] = "ok" /\ obj'[o].pinned => unlock' = [at |-> "notify", of |-> o]
    <3> SUFFICES ASSUME a[o] = "ok", obj'[o].pinned PROVE unlock = [at |-> "notify", of |-> o]
      BY <1>3
    <3>1. obj[o].pinned
      BY <1>7
    <3>2. ~ (obj[o].locks > 0)
      BY <1>3, <1>7, <1>8 DEF SP!CanRunDown
    <3>3. unlock.at = "notify" /\ unlock.of = o
      BY <1>7, <3>1, <3>2 DEF SP!UInv, SP!AllPromised, SP!PinnedLocked
    <3> QED BY <3>3 DEF SP!UInv, SP!Shapes, SP!Idle
  <2>4. ~ Overtakes /\ (oid[o].pinned \/ a[o] = "pinned") => o \in believed'
    BY <1>3, <1>7, <1>8 DEF AllLinked, Linked
  <2>5. Linked(o)
    BY DEF AllLinked
  <2> HIDE DEF Answered, P, B
  <2> QED BY <1>2, <1>7, <2>1, <2>2, <2>3, <2>4, <2>5 DEF Linked, OnTheWay
<1>9. CASE o \notin B
  <2>1. \A answer : Answered(o, answer)' => Answered(o, answer)
    BY <1>5, <1>9 DEF Answered
  <2>2. Linked(o) /\ o \notin P
    BY <1>9 DEF AllLinked
  <2>3. o \in believed => o \in believed'
    BY <1>3
  <2> HIDE DEF Answered, P, B
  <2> QED BY <1>2, <1>3, <1>7, <2>1, <2>2, <2>3 DEF Linked, OnTheWay
<1> QED BY <1>8, <1>9

\* Unpins are served.  The OIDs of a batch that are pinned are there, so that
\* they are unpinned; and no answer that pins them is on the way.
LEMMA ServeUnpinsLinked ==
  ASSUME Invariants, AllLinked, ServeUnpins
  PROVE  AllLinked'
<1> USE DEF Invariants
<1> DEFINE U == worker.batch
<1>1. RP!UnpinOids(U \cap Oid) /\ SP!UnpinsHandled
  BY UnpinsOfResolver, SharedOfServer DEF ServeUnpins
<1>2. believed' = believed \ U /\ UNCHANGED <<obj, unlock, disowned>>
  BY <1>1 DEF SP!UnpinsHandled, ServeUnpins, apartment
<1> SUFFICES ASSUME NEW o \in Oid, obj'[o].at = "tabled" PROVE Linked(o)'
  BY DEF AllLinked, Linked
<1>3. RP!Quiet(o)
  <2>1. \E V \in SUBSET Oid : RP!UnpinOids(V)
    BY <1>1
  <2> QED BY <2>1, OthersQuiet
<1>4. CASE o \notin U
  BY <1>2, <1>3, <1>4, QuietLinked DEF AllLinked
<1>5. CASE o \in U
  <2> DEFINE hit == {p \in U \cap Oid : oid[p].alive /\ oid[p].pinned /\ oxid[OxidOf[p]].running}
  <2>1. /\ oid' = [p \in Oid |-> IF p \in hit THEN RP!Unpin(oid[p], TRUE) ELSE oid[p]]
        /\ UNCHANGED call
    BY <1>1 DEF RP!UnpinOids, RP!Commit
  <2>2. obj[o].at = "tabled" /\ Linked(o) /\ oid[o] \in RP!OidObjects
    BY <1>2 DEF AllLinked, RP!IInv, RP!Shapes
  <2>3. ~ oid'[o].pinned
    <3>1. ~ RP!Unpin(oid[o], TRUE).pinned
      BY <2>2 DEF RP!Unpin, RP!Release, RP!NoOid, RP!OidObjects
    <3>2. oid[o].pinned => o \in hit
      BY <1>5, <2>2, OidsInCalls DEF Linked
    <3>3. oid'[o] = IF o \in hit THEN RP!Unpin(oid[o], TRUE) ELSE oid[o]
      BY <2>1
    <3> QED BY <3>1, <3>2, <3>3
  <2>4. ~ Overtakes => ~ OnTheWay(o)'
    BY <1>5, <2>1 DEF ServeUnpins, OnTheWay, Answered
  <2>5. /\ \A answer \in {"ok", "pinned"} : Answered(o, answer)' => Answered(o, answer)
        /\ oid'[o].alive => oid[o].alive
        /\ oxid[OxidOf[o]].running /\ oid[o].alive /\ ~ oid[o].freed =>
             /\ oxid'[OxidOf[o]].running
             /\ oid'[o].alive => ~ oid'[o].freed
             /\ oid'[o].alive \/ Answered(o, "ok")
    BY <1>3 DEF RP!Quiet, RP!Waiting, Answered
  <2> HIDE DEF Answered
  <2> QED BY <1>2, <2>2, <2>3, <2>4, <2>5 DEF Linked
<1> QED BY <1>4, <1>5

\* The process dies, and its objects with it.
LEMMA ProcessEndsLinked ==
  ASSUME NEW p \in Process, ProcessEnds(p)
  PROVE  AllLinked'
<1>1. \A o \in Oid : obj'[o].at = "absent"
  BY SharedOfServer DEF ProcessEnds, SP!ProcessEnds, SP!Absent
<1> QED BY <1>1 DEF AllLinked, Linked

\* An apartment ends, when none of its objects is in the table.
LEMMA ApartmentEndsLinked ==
  ASSUME Invariants, AllLinked, NEW x \in Oxid, ApartmentEnds(x)
  PROVE  AllLinked'
<1> SUFFICES ASSUME NEW o \in Oid, obj'[o].at = "tabled" PROVE Linked(o)'
  BY DEF AllLinked, Linked
<1>1. PICK F \in SUBSET RP!OidsOf(x) : RP!FreeOxid(x, F)
  BY FreedOfResolver
<1>2. UNCHANGED <<obj, unlock, believed, disowned>> /\ OxidOf[o] # x
  BY FreedOfResolver DEF server
<1>3. RP!Quiet(o)
  BY <1>1, <1>2, ResolverAssumed, RP!StopQuiet DEF Invariants, RP!LInv
<1> QED BY <1>2, <1>3, QuietLinked DEF AllLinked

\* The resolver takes a step alone.
LEMMA AloneLinked ==
  ASSUME Invariants, AllLinked, ResolverAlone
  PROVE  AllLinked'
<1> SUFFICES ASSUME NEW o \in Oid PROVE Linked(o)'
  BY DEF AllLinked
<1>1. Alone /\ UNCHANGED <<obj, unlock, believed, disowned>>
  BY AloneOfResolver DEF server, apartment
<1>2. RP!Quiet(o)
  BY <1>1, AloneQuiet DEF Invariants
<1> QED BY <1>1, <1>2, QuietLinked DEF AllLinked

\* A call or its answers are lost: what is used is kept, unless the call found
\* the apartment stopped.
LEMMA CallLostLinked ==
  ASSUME Invariants, AllLinked, NEW c \in Call, CallLost(c)
  PROVE  AllLinked'
<1> DEFINE given == {o \in call[c].oids : call'[c].answer[o] = "ok"}
<1> SUFFICES ASSUME NEW o \in Oid, obj'[o].at = "tabled" PROVE Linked(o)'
  BY DEF AllLinked, Linked
<1>1. PICK answer \in {"ok", "keep"} :
        call' = [call EXCEPT ![c].at = "answered", ![c].answer = RP!AllAnswer(answer)]
  BY SharedOfResolver DEF CallLost, RP!ReturnedError
<1>2. UNCHANGED <<oid, oxid, obj, unlock, believed>>
  BY SharedOfResolver DEF CallLost, RP!ReturnedError, server
<1>3. disowned' = disowned \cup {p \in given : obj[p].at = "tabled"}
  BY DEF CallLost
<1>4. call \in [Call -> RP!Calls]
  BY DEF Invariants, RP!IInv, RP!Shapes
<1>5. /\ \A d \in Call \ {c} : call'[d] = call[d]
      /\ call'[c].oids = call[c].oids /\ call'[c].answer = RP!AllAnswer(answer)
  BY <1>1, <1>4 DEF RP!Calls
<1>6. call'[c].answer[o] = answer
  BY <1>5 DEF RP!AllAnswer
<1>7. Answered(o, "pinned")' => Answered(o, "pinned")
  BY <1>5, <1>6 DEF Answered
<1>8. Answered(o, "ok")' => Answered(o, "ok") \/ o \in disowned'
  <2> SUFFICES ASSUME Answered(o, "ok")' PROVE Answered(o, "ok") \/ o \in disowned'
    OBVIOUS
  <2>1. PICK d \in Call : call'[d].at \in {"replying", "answered"} /\ o \in call'[d].oids
                           /\ call'[d].answer[o] = "ok"
    BY DEF Answered
  <2>2. CASE d = c
    BY <1>2, <1>3, <1>5, <2>1, <2>2
  <2>3. CASE d # c
    BY <1>5, <2>1, <2>3 DEF Answered
  <2> QED BY <2>2, <2>3
<1>9. Linked(o) /\ (o \in disowned => o \in disowned')
  BY <1>3 DEF AllLinked
<1> HIDE DEF Answered, given
<1> QED BY <1>2, <1>7, <1>8, <1>9 DEF Linked, OnTheWay

\* An apartment stops, or is restarted: no OID and no object is touched.
LEMMA StopLinked ==
  ASSUME AllLinked, NEW x \in Oxid, StopServer(x) \/ RestartServer(x)
  PROVE  AllLinked'
<1>1. UNCHANGED <<oid, oxid, call, obj, unlock, believed, disowned>>
  BY DEF StopServer, RestartServer, resolver, server
<1> QED BY <1>1 DEF AllLinked, Linked, OnTheWay, Answered

\* The server process takes a step alone.  While a thread is to report that an
\* object is unlocked, it is neither locked nor taken out of the table by
\* Disconnect; the report ends that the object counts as pinned.
LEMMA ServerLinked ==
  ASSUME Invariants, AllLinked, ServerAlone
  PROVE  AllLinked'
<1> USE DEF Invariants
<1> SUFFICES ASSUME NEW o \in Oid, obj'[o].at = "tabled" PROVE Linked(o)'
  BY DEF AllLinked, Linked
<1>1. Linked(o) /\ UNCHANGED <<oid, oxid, call>> /\ (o \in disowned => o \in disowned')
  BY AloneOfServer DEF AllLinked, resolver
<1>2. obj \in [Oid -> SP!Objects]
  BY DEF SP!UInv, SP!Shapes
<1>3. ASSUME obj[o].at = "tabled", obj'[o].pinned => obj[o].pinned,
             obj'[o].pinned /\ unlock = [at |-> "notify", of |-> o] => unlock' = unlock,
             o \in believed => o \in believed'
      PROVE  Linked(o)'
  <2>1. \A answer : Answered(o, answer)' <=> Answered(o, answer)
    BY <1>1 DEF Answered
  <2> HIDE DEF Answered
  <2> QED BY <1>1, <1>3, <2>1 DEF Linked, OnTheWay
<1>4. ASSUME NEW p \in Oid, SP!IncTableCnt(p) \/ SP!FindToUnlock(p) PROVE Linked(o)'
  BY <1>2, <1>3, <1>4 DEF SP!IncTableCnt, SP!FindToUnlock, SP!Objects
<1>5. ASSUME NEW p \in Oid, SP!RevokeOID(p) \/ SP!ThreadCleanup(p) PROVE Linked(o)'
  BY <1>2, <1>3, <1>5 DEF SP!RevokeOID, SP!ThreadCleanup, SP!Objects
<1>6. ASSUME NEW p \in Oid, SP!Destroy(p) PROVE Linked(o)'
  BY <1>2, <1>3, <1>6 DEF SP!Destroy, SP!Objects, SP!Absent
<1>7. ASSUME SP!DecTableCnt PROVE Linked(o)'
  BY <1>2, <1>3, <1>7 DEF SP!DecTableCnt, SP!Objects
<1>8. ASSUME SP!NotifyOIDIsUnpinned PROVE Linked(o)'
  <2>1. obj' = [obj EXCEPT ![unlock.of].pinned = FALSE] /\ UNCHANGED believed
    BY <1>8 DEF SP!NotifyOIDIsUnpinned
  <2> QED BY <1>2, <1>3, <2>1 DEF SP!Objects
<1>9. ASSUME \/ SP!WorkerExits \/ SP!WorkerCounts \/ SP!GetServerOidsToUnpin
             \/ SP!BulkUpdateReturns \/ SP!NotifyUnpinOutcome
      PROVE  Linked(o)'
  <2>1. UNCHANGED <<obj, unlock, believed>>
    BY <1>9, Zenon DEF SP!WorkerExits, SP!WorkerCounts, SP!GetServerOidsToUnpin,
                       SP!BulkUpdateReturns, SP!NotifyUnpinOutcome
  <2> QED BY <1>3, <2>1
<1> QED BY <1>4, <1>5, <1>6, <1>7, <1>8, <1>9, AloneOfServer, Zenon

LEMMA LinkedInit == Init => AllLinked
<1> SUFFICES ASSUME Init, NEW o \in Oid PROVE Linked(o)
  BY DEF AllLinked
<1>1. obj[o].at = "absent"
  BY ServerInit DEF SP!Init, SP!Absent
<1> QED BY <1>1 DEF Linked

-----------------------------------------------------------------------------
(* The theorems *)

LEMMA LinkedHolds == Spec => [](Invariants /\ AllLinked)
<1>1. Invariants /\ AllLinked /\ [Next]_vars => AllLinked'
  <2> SUFFICES ASSUME Invariants, AllLinked, [Next]_vars PROVE AllLinked'
    OBVIOUS
  <2>1. CASE UNCHANGED vars
    BY <2>1 DEF AllLinked, Linked, OnTheWay, Answered, vars, resolver, server, apartment
  <2> QED
    BY <2>1, MarshalLinked, FreeOidLinked, ServeRundownLinked, ServeUnpinsLinked,
       ProcessEndsLinked, ApartmentEndsLinked, AloneLinked, CallLostLinked, StopLinked,
       ServerLinked DEF Next, Both
<1>2. Spec => []Invariants
  BY ResolverInvariant, ServerInvariant, PTL DEF Invariants
<1> QED BY <1>1, <1>2, LinkedInit, PTL DEF Spec

\* The resolver deletes no OID of an object that its process said to be pinned
\* and has kept locked since: neither because clients are gone, nor by an
\* answer that was lost, given twice or given before the object was locked
\* (CServerOxid::ProcessRundownResultsInternal, CStdMarshal::CanRunDown).  It
\* does so only by a call that came while the object's apartment was stopped
\* (CRemoteUnknown::RundownOidWorker, for any CComApartment::RestartServer).
THEOREM LockedKeptHolds == Spec => []LockedKept
<1>1. Invariants /\ AllLinked => LockedKept
  <2> SUFFICES ASSUME Invariants, AllLinked, NEW o \in Oid,
                      obj[o].pinned, obj[o].locks > 0, obj[o].at = "tabled", o \notin disowned
               PROVE  oid[o].alive
    BY DEF LockedKept
  <2>1. Linked(o)
    BY DEF AllLinked
  <2>2. unlock = [at |-> "notify", of |-> o] => obj[o].locks = 0
    BY DEF Invariants, SP!UInv, SP!LockHeld
  <2> QED BY <2>1, <2>2 DEF Linked
<1> QED BY <1>1, LinkedHolds, PTL

\* If unpins do not overtake answers, an OID is pinned in the resolver only
\* while its object is locked, or its unpin is still to come: none is left
\* that nobody would run down again (_BulkUpdateOIDs, COIDTable).
THEOREM PinsAgreeHolds ==
  ASSUME ~ Overtakes
  PROVE  Spec => []PinsAgree
<1>1. Invariants /\ AllLinked => PinsAgree
  <2> SUFFICES ASSUME Invariants, AllLinked, NEW o \in Oid,
                      oid[o].pinned, obj[o].at = "tabled", obj[o].locks = 0
               PROVE  Unpinning(o)
    BY DEF PinsAgree
  <2>1. o \in believed
    BY DEF AllLinked, Linked
  <2>2. SP!PinnedLocked(o) /\ SP!PendingSent(o) /\ SP!Promised(o)
    BY DEF Invariants, SP!UInv, SP!AllPromised
  <2>3. unlock.at = "notify" /\ unlock.of = o => unlock = [at |-> "notify", of |-> o]
    BY DEF Invariants, SP!UInv, SP!Shapes, SP!Idle
  <2>4. obj[o].pinned => Unpinning(o)
    BY <2>2, <2>3 DEF SP!PinnedLocked, Unpinning
  <2> QED BY <2>1, <2>2, <2>4 DEF SP!Promised, SP!Unserved, Unpinning
<1> QED BY <1>1, LinkedHolds, PTL
=============================================================================
