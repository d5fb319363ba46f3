------------------------------- MODULE Pinning -------------------------------
(***************************************************************************)
(* The resolver (ServerOid) and one server process (UnpinRequests)         *)
(* together: the answer of a rundown call and the unpins that take it back *)
(* travel in calls of opposite directions, and may be served in either     *)
(* order.  The objects of the process are those whose OIDs its apartments  *)
(* registered.  An apartment that stopped serving calls may be restarted   *)
(* with its objects as they are.                                           *)
(***************************************************************************)
EXTENDS Naturals, Sequences, FiniteSets

CONSTANTS
  Oid, Oxid, Process, PingSet, OxidOf, ProcessOf, LocalSets, Call,
  MaxBatch, MaxCalls, Answers, Suspends, MaxItems, MaxGuests,
  ThreadsFail, MaxLocks,
  Overtakes   \* whether unpins may be served before an earlier answer

ASSUME PinningAssumption ==
  /\ Oid # {} /\ Oxid # {}
  /\ \A S \in {Oid, Oxid, PingSet, Call} : IsFiniteSet(S)
  /\ OxidOf \in [Oid -> Oxid]
  /\ ProcessOf \in [Oxid -> Process]
  /\ LocalSets \subseteq PingSet
  /\ MaxBatch \in Nat \ {0} /\ MaxCalls \in Nat \ {0}
  /\ Answers \subseteq {"ok", "keep", "pinned"}
  /\ MaxItems \in Nat /\ MaxGuests \in Nat /\ MaxLocks \in Nat \ {0}
  /\ {Suspends, ThreadsFail, Overtakes} \subseteq BOOLEAN

VARIABLES oid, oxid, proc, set, call, power
VARIABLES obj, req, list, count, unlock, worker, believed
VARIABLES
  stopped,   \* the apartments whose OXIDEntry is OXIDF_STOPPED
  disowned   \* objects in the table whose OIDs the resolver was told to drop,
             \* because their apartment did not serve a rundown call

Resolver == INSTANCE ServerOid
Server == INSTANCE UnpinRequests WITH Object <- Oid

resolver == <<oid, oxid, proc, set, call, power>>
server == <<obj, req, list, count, unlock, worker, believed>>
apartment == <<stopped, disowned>>
vars == <<resolver, server, apartment>>

Init ==
  /\ Resolver!Init /\ Server!Init
  /\ stopped = {} /\ disowned = {}

-----------------------------------------------------------------------------
(* Steps of both *)

\* An OID is registered for an object that is marshaled.
Marshal(o) == Resolver!AllocateOid(o) /\ Server!Marshal(o) /\ UNCHANGED apartment

\* The server gives up the OID of an object that is gone.
FreeOid(o) ==
  /\ obj[o].at = "absent"
  /\ Resolver!FreeServerOid(o)
  /\ UNCHANGED <<server, apartment>>

\* A rundown call is served; the answers then travel to the resolver.  (It may
\* have been dispatched before its apartment was stopped.)
ServeRundown(c, a) ==
  /\ Resolver!ServerAnswers(c, a)
  /\ Server!RundownOids(call[c].oids, a)
  /\ UNCHANGED apartment

\* Answers that the resolver has not processed yet.
Answered(o, answer) ==
  \E c \in Call : /\ call[c].at \in {"replying", "answered"}
                  /\ o \in call[c].oids /\ call[c].answer[o] = answer

OnTheWay(o) == Answered(o, "pinned")

\* The unpins of a bulk update are served.
ServeUnpins ==
  /\ Overtakes \/ \A o \in worker.batch : ~ OnTheWay(o)
  /\ Server!UnpinsHandled
  /\ Resolver!UnpinOids(worker.batch)
  /\ UNCHANGED apartment

\* The process dies.
ProcessEnds(p) ==
  /\ Resolver!ProcessRundown(p) /\ Server!ProcessEnds
  /\ stopped' = {} /\ disowned' = {}

\* A stopped apartment ends: after its objects have left the OID table it gives
\* up its OXID, with OIDs that no object has.
ApartmentEnds(x) ==
  /\ x \in stopped
  /\ \A o \in Resolver!OidsOf(x) : obj[o].at # "tabled"
  /\ \E F \in SUBSET {o \in Resolver!OidsOf(x) : obj[o].at = "absent"} : Resolver!FreeOxid(x, F)
  /\ stopped' = stopped \ {x}
  /\ UNCHANGED <<server, disowned>>

Both ==
  \/ \E o \in Oid : Marshal(o) \/ FreeOid(o)
  \/ \E c \in Call : \E a \in [Oid -> Answers] : ServeRundown(c, a)
  \/ ServeUnpins
  \/ \E x \in Oxid : ApartmentEnds(x)
  \/ \E p \in Process : ProcessEnds(p)

-----------------------------------------------------------------------------
(* Steps of one *)

ResolverAlone ==
  /\ \/ \E p \in Process : Resolver!Connect(p)
     \/ \E x \in Oxid : Resolver!AllocateOxid(x)
     \/ Resolver!Client
     \/ \E x \in Oxid, c \in Call : \E B \in Resolver!Batches(x) :
          Resolver!TaskRundown(x, B, c) \/ Resolver!HelperRundown(x, B, c)
     \/ \E x \in Oxid : Resolver!HelperIdle(x) \/ Resolver!HelperDone(x)
     \/ \E c \in Call :
          \/ Resolver!TakeReferences(c) \/ Resolver!NoMemory(c)
          \/ Resolver!Issue(c) \/ Resolver!IssueFails(c) \/ Resolver!CallFailed(c)
          \/ Resolver!Returned(c) \/ Resolver!ProcessResults(c)
          \/ Resolver!CheckForMore(c) \/ Resolver!ReleaseRundownHandle(c)
          \/ Resolver!DropReferences(c)
     \/ Resolver!Environment
  /\ UNCHANGED <<server, apartment>>

\* The call or its answers are lost, or the call finds its apartment stopped or
\* gone: RPC_E_DISCONNECTED gives all its OIDs up, whatever becomes of the
\* objects.
CallLost(c) ==
  LET given == {o \in call[c].oids : call'[c].answer[o] = "ok"}
  IN /\ Resolver!ReturnedError(c)
     /\ given # {} => call[c].oxid \in stopped \/ ~ oxid[call[c].oxid].running
     /\ disowned' = disowned \cup {o \in given : obj[o].at = "tabled"}
     /\ UNCHANGED <<server, stopped>>

\* OXIDEntry::StopServer, when the last thread leaves the apartment.
StopServer(x) ==
  /\ oxid[x].running /\ x \notin stopped
  /\ stopped' = stopped \cup {x}
  /\ UNCHANGED <<resolver, server, disowned>>

\* CComApartment::RestartServer: the apartment was initialized again meanwhile.
RestartServer(x) ==
  /\ x \in stopped
  /\ stopped' = stopped \ {x}
  /\ UNCHANGED <<resolver, server, disowned>>

\* The OID table is cleaned up for an apartment that is stopped.
ServerAlone ==
  /\ \/ \E o \in Oid : \/ Server!IncTableCnt(o) \/ Server!FindToUnlock(o)
                       \/ Server!RevokeOID(o) \/ Server!Destroy(o)
                       \/ OxidOf[o] \in stopped /\ Server!ThreadCleanup(o)
     \/ Server!DecTableCnt \/ Server!NotifyOIDIsUnpinned
     \/ Server!WorkerExits \/ Server!WorkerCounts \/ Server!GetServerOidsToUnpin
     \/ Server!BulkUpdateReturns \/ Server!NotifyUnpinOutcome
  /\ disowned' = {o \in disowned : obj'[o].at = "tabled"}
  /\ UNCHANGED <<resolver, stopped>>

Next ==
  \/ Both \/ ResolverAlone \/ ServerAlone
  \/ \E c \in Call : CallLost(c)
  \/ \E x \in Oxid : StopServer(x) \/ RestartServer(x)

Spec == Init /\ [][Next]_vars

-----------------------------------------------------------------------------
(* Properties *)

\* The unpin of an object in the table is still to come: a thread is about to
\* request it, or the resolver has yet to serve the request.
Unpinning(o) ==
  \/ unlock = [at |-> "notify", of |-> o]
  \/ "requested" \in req[o]
  \/ "pending" \in req[o] /\ worker.at \in {"calling", "answered"}

\* manager.cxx: an unpin that was reported as a success was executed.  So an
\* OID is pinned in the resolver only while its object is locked, or its unpin
\* is still to come; else nobody would run it down again.
PinsAgree ==
  \A o \in Oid :
    oid[o].pinned /\ obj[o].at = "tabled" /\ obj[o].locks = 0 => Unpinning(o)

\* The resolver deletes no OID of an object that its process said to be pinned
\* and has kept locked since, whatever answers are lost or repeated; unless a
\* rundown call came while the apartment of the object was stopped.
LockedKept ==
  \A o \in Oid :
    obj[o].pinned /\ obj[o].locks > 0 /\ obj[o].at = "tabled" /\ o \notin disowned =>
      oid[o].alive
=============================================================================
