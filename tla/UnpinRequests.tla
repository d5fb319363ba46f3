---------------------------- MODULE UnpinRequests ----------------------------
(***************************************************************************)
(* How a COM server process (ole32/com/dcomrem) takes back what it said of *)
(* its objects.  Asked whether an object may be run down, the process      *)
(* answers "pinned" as long as the object is locked (table marshals,       *)
(* CoLockObjectExternal).  When the last lock goes it requests an unpin;   *)
(* a worker thread of the process sends the requests to the resolver.      *)
(*                                                                         *)
(* The locks gComLock and gIPIDLock make a section under one of them a     *)
(* step.  The resolver is reduced to what it believes to be pinned: it     *)
(* takes an answer as it is given (Pinning composes the real one).  An     *)
(* object name stands for a slot; another object in it has another OID.    *)
(***************************************************************************)
EXTENDS Naturals, Sequences, FiniteSets

CONSTANTS
  Object,       \* CIDObjects, with the CStdMarshal of each
  ThreadsFail,  \* whether the creation of the worker thread may fail
  MaxLocks      \* bound: locks of one object

ASSUME UnpinAssumption ==
  /\ Object # {}
  /\ ThreadsFail \in BOOLEAN
  /\ MaxLocks \in Nat \ {0}

VARIABLES
  obj,      \* the objects
  req,      \* their _dwOidUnpinReqState
  list,     \* s_OIDUnpinRequests, from its head
  count,    \* s_UnpinReqsPending
  unlock,   \* a thread that unlocks an object
  worker,   \* the worker thread of the CROIDTable
  believed  \* the objects that the resolver holds as pinned

vars == <<obj, req, list, count, unlock, worker, believed>>

\* at: "tabled" is in the OID table, "revoked" no more.  locks: _cTableRefs,
\* and SMFLAGS_IGNORERUNDOWN while it is not zero.  pinned:
\* IDFLAG_OID_IS_PINNED.
Objects == [at : {"absent", "tabled", "revoked"}, locks : 0..MaxLocks, pinned : BOOLEAN]

Absent == [at |-> "absent", locks |-> 0, pinned |-> FALSE]

\* OIDUPREQ_*
Flags == {"listed", "requested", "pending"}

Replies == {"ok", "partial", "error"}

\* "counted" has read the number of requests, "calling" is in
\* CRpcResolver::BulkUpdateOIDs, "done" was served by the resolver, "answered"
\* has its status.
Workers == [at : {"none", "sleeping", "counted", "calling", "done", "answered"},
            want : Nat, batch : SUBSET Object, reply : Replies]

NoWorker == [at |-> "none", want |-> 0, batch |-> {}, reply |-> "error"]

Idle == [at |-> "idle", of |-> CHOOSE o \in Object : TRUE]

Init ==
  /\ obj = [o \in Object |-> Absent]
  /\ req = [o \in Object |-> {}]
  /\ list = <<>>
  /\ count = 0
  /\ unlock = Idle
  /\ worker = NoWorker
  /\ believed = {}

-----------------------------------------------------------------------------
(* The list of requests: sections under gComLock *)

\* Mutant: a request that the worker has is queued a second time.
AddTwice(o) ==
  /\ list' = <<o>> \o list
  /\ count' = count + 1
  /\ req' = [req EXCEPT ![o] = @ \cup {"listed", "requested"}]

\* COIDTable::AddOIDUnpinRequest: a new request goes to the head of the list.
AddRequest(o) ==
  /\ IF "listed" \in req[o] THEN UNCHANGED <<list, count>>
     ELSE list' = <<o>> \o list /\ count' = count + 1
  /\ req' = [req EXCEPT ![o] = @ \cup {"listed", "requested"}]

\* The list without the objects S.  (A recursive function, because the proofs
\* can unfold it, which they cannot do with SelectSeq.)
Without(s, S) ==
  LET kept[n \in 0..Len(s)] ==
        IF n = 0 THEN <<>>
        ELSE IF s[n] \in S THEN kept[n - 1]
        ELSE Append(kept[n - 1], s[n])
  IN kept[Len(s)]

\* The requests of the objects S leave the list.
Unlisted(S) ==
  /\ list' = Without(list, S)
  /\ count' = count - Cardinality({o \in S : "listed" \in req[o]})
  /\ req' = [o \in Object |-> IF o \in S THEN {} ELSE req[o]]

\* COIDTable::RemoveOIDUnpinRequest: a request that the worker has stays.
Removable(o) == "listed" \in req[o] /\ "pending" \notin req[o]

\* Mutant: the request that was sent takes the one made since with it.
SettledAll(o, fOutcome) == fOutcome

\* COIDTable::NotifyUnpinOutcome, for a request that the worker had.
Settled(o, fOutcome) == fOutcome /\ "requested" \notin req[o]

\* Mutant: an existing worker is assumed.
NoWorkWaiting == UNCHANGED worker

\* CROIDTable::NotifyWorkWaiting.
NotifyWorkWaiting ==
  \/ worker' = IF worker.at = "none" THEN [worker EXCEPT !.at = "sleeping"] ELSE worker
  \/ ThreadsFail /\ worker.at = "none" /\ UNCHANGED worker

-----------------------------------------------------------------------------
(* Objects and their locks *)

\* An object is marshaled for the first time.
Marshal(o) ==
  /\ obj[o].at = "absent"
  /\ obj' = [obj EXCEPT ![o] = [Absent EXCEPT !.at = "tabled"]]
  /\ UNCHANGED <<req, list, count, unlock, worker, believed>>

\* IncTableCnt, under gIPIDLock.
IncTableCnt(o) ==
  /\ unlock.at # "notify"
  /\ obj[o].at = "tabled" /\ obj[o].locks < MaxLocks
  /\ obj' = [obj EXCEPT ![o].locks = @ + 1]
  /\ UNCHANGED <<req, list, count, unlock, worker, believed>>

\* Mutant: an object is unlocked more often than it was locked.
FindAny(o) ==
  /\ unlock.at = "idle"
  /\ obj[o].at = "tabled"
  /\ unlock' = [at |-> "found", of |-> o]
  /\ UNCHANGED <<obj, req, list, count, worker, believed>>

\* CoLockObjectExternal, or the release of a table marshal, finds the object.
FindToUnlock(o) ==
  /\ unlock.at = "idle"
  /\ obj[o].at = "tabled" /\ obj[o].locks > 0
  /\ unlock' = [at |-> "found", of |-> o]
  /\ UNCHANGED <<obj, req, list, count, worker, believed>>

\* DecTableCnt, under gIPIDLock, which it keeps for the notification.  After a
\* disconnection there may be no identity object to notify.
DecTableCnt ==
  LET o == unlock.of IN
  /\ unlock.at = "found"
  /\ obj' = [obj EXCEPT ![o].locks = @ - 1]
  /\ \/ obj[o].locks = 1 /\ unlock' = [unlock EXCEPT !.at = "notify"]
     \/ obj[o].locks > 1 /\ unlock' = Idle
     \/ obj[o].at = "revoked" /\ unlock' = Idle
  /\ UNCHANGED <<req, list, count, worker, believed>>

\* CIDObject::NotifyOIDIsUnpinned, under gIPIDLock and gComLock.
NotifyOIDIsUnpinned ==
  LET o == unlock.of IN
  /\ unlock.at = "notify"
  /\ IF obj[o].pinned THEN AddRequest(o) /\ NotifyWorkWaiting
     ELSE UNCHANGED <<req, list, count, worker>>
  /\ obj' = [obj EXCEPT ![o].pinned = FALSE]
  /\ unlock' = Idle
  /\ UNCHANGED believed

\* Mutant: an object that was reported as pinned is not examined again.
ExaminedOnce(o, answer) ==
  IF obj[o].at = "tabled" /\ obj[o].locks > 0 /\ ~ obj[o].pinned
  THEN answer = "pinned" ELSE answer # "pinned"

\* CStdMarshal::CanRunDown.
CanRunDown(o, answer) ==
  IF obj[o].at = "tabled" /\ obj[o].locks > 0 THEN answer = "pinned" ELSE answer # "pinned"

\* CRemoteUnknown::RundownOid: the answers for the objects B, under gComLock;
\* CIDObject::NotifyOIDIsPinned for those that are pinned.
RundownOids(B, answers) ==
  LET P == {o \in B : answers[o] = "pinned"} IN
  /\ \A o \in B : CanRunDown(o, answers[o])
  /\ obj' = [o \in Object |-> IF o \in P THEN [obj[o] EXCEPT !.pinned = TRUE] ELSE obj[o]]
  /\ Unlisted({o \in P : Removable(o)})
  /\ believed' = believed \cup P
  /\ UNCHANGED <<unlock, worker>>

\* CStdMarshal::Disconnect takes the object out of the OID table.
RevokeOID(o) ==
  /\ unlock.at # "notify"
  /\ obj[o].at = "tabled"
  /\ obj' = [obj EXCEPT ![o].at = "revoked"]
  /\ UNCHANGED <<req, list, count, unlock, worker, believed>>

\* COIDTable::ThreadCleanup of the apartment does so too.
ThreadCleanup(o) ==
  /\ obj[o].at = "tabled"
  /\ obj' = [obj EXCEPT ![o].at = "revoked"]
  /\ Unlisted({o})
  /\ UNCHANGED <<unlock, worker, believed>>

\* The object is deleted, and its OID with it.
Destroy(o) ==
  /\ obj[o].at = "revoked"
  /\ unlock.at = "idle" \/ unlock.of # o
  /\ obj' = [obj EXCEPT ![o] = Absent]
  /\ Unlisted({o})
  /\ worker' = [worker EXCEPT !.batch = @ \ {o}]
  /\ believed' = believed \ {o}
  /\ UNCHANGED unlock

\* The process ends, and with it everything the resolver knew of it.
ProcessEnds ==
  /\ obj' = [o \in Object |-> Absent]
  /\ req' = [o \in Object |-> {}]
  /\ list' = <<>> /\ count' = 0
  /\ unlock' = Idle /\ worker' = NoWorker
  /\ believed' = {}

-----------------------------------------------------------------------------
(* The worker thread *)

\* CROIDTable::WorkerThreadLoop, under gIPIDLock: nothing to do (that other
\* work may keep the thread alive is a stuttering step), ...
WorkerExits ==
  /\ worker.at = "sleeping" /\ unlock.at # "notify"
  /\ count = 0
  /\ worker' = NoWorker
  /\ UNCHANGED <<obj, req, list, count, unlock, believed>>

\* ... or memory for so many requests.
WorkerCounts ==
  /\ worker.at = "sleeping" /\ unlock.at # "notify"
  /\ count > 0
  /\ worker' = [worker EXCEPT !.at = "counted", !.want = count]
  /\ UNCHANGED <<obj, req, list, count, unlock, believed>>

\* The first n of a sequence, or all of it.
FirstOf(n, s) == {s[i] : i \in 1..(IF n < Len(s) THEN n ELSE Len(s))}

\* COIDTable::GetServerOidsToUnpin.
GetServerOidsToUnpin ==
  LET B == FirstOf(worker.want, list) IN
  /\ worker.at = "counted"
  /\ req' = [o \in Object |-> IF o \in B THEN {"listed", "pending"} ELSE req[o]]
  /\ worker' = IF B = {} THEN [NoWorker EXCEPT !.at = "sleeping"]
               ELSE [NoWorker EXCEPT !.at = "calling", !.batch = B]
  /\ UNCHANGED <<obj, list, count, unlock, believed>>

\* The resolver serves the call (_BulkUpdateOIDs).
UnpinsHandled ==
  /\ worker.at = "calling"
  /\ worker' = [worker EXCEPT !.at = "done"]
  /\ believed' = believed \ worker.batch
  /\ UNCHANGED <<obj, req, list, count, unlock>>

\* The call returns; it may fail before or after it was served, and is
\* "partial" when additions of the same call failed.
BulkUpdateReturns ==
  /\ worker.at \in {"calling", "done"}
  /\ \E reply \in IF worker.at = "done" THEN Replies ELSE {"error"} :
       worker' = [worker EXCEPT !.at = "answered", !.reply = reply]
  /\ UNCHANGED <<obj, req, list, count, unlock, believed>>

\* COIDTable::NotifyUnpinOutcome, for SUCCEEDED(hr): CheckStatus has made an
\* error of every status but RPC_S_OK.
NotifyUnpinOutcome ==
  LET pending == {o \in Object : "pending" \in req[o]}
      gone == {o \in pending : Settled(o, worker.reply = "ok")}
  IN /\ worker.at = "answered"
     /\ list' = Without(list, gone)
     /\ count' = count - Cardinality(gone)
     /\ req' = [o \in Object |-> IF o \in gone THEN {}
                                 ELSE IF o \in pending THEN {"listed", "requested"}
                                 ELSE req[o]]
     /\ worker' = [NoWorker EXCEPT !.at = "sleeping"]
     /\ UNCHANGED <<obj, unlock, believed>>

Worker ==
  \/ WorkerExits \/ WorkerCounts \/ GetServerOidsToUnpin
  \/ UnpinsHandled \/ BulkUpdateReturns \/ NotifyUnpinOutcome

Next ==
  \/ \E o \in Object : \/ Marshal(o) \/ IncTableCnt(o) \/ FindToUnlock(o)
                       \/ RevokeOID(o) \/ ThreadCleanup(o) \/ Destroy(o)
  \/ DecTableCnt \/ NotifyOIDIsUnpinned
  \/ \E B \in SUBSET Object : B # {} /\
       \E a \in [B -> {"ok", "keep", "pinned"}] : RundownOids(B, a)
  \/ ProcessEnds
  \/ Worker

Spec == Init /\ [][Next]_vars

\* The worker gets the locks, and the resolver serves a call, again and again.
FairSpec ==
  /\ Spec
  /\ SF_vars(Worker) /\ WF_vars(NotifyOIDIsUnpinned)
  /\ SF_vars(UnpinsHandled) /\ SF_vars(BulkUpdateReturns /\ worker'.reply = "ok")

-----------------------------------------------------------------------------
(* Properties *)

TypeOK ==
  /\ obj \in [Object -> Objects]
  /\ req \in [Object -> SUBSET Flags]
  /\ list \in Seq(Object) /\ count \in Nat
  /\ unlock \in [at : {"idle", "found", "notify"}, of : Object]
  /\ worker \in Workers
  /\ believed \subseteq Object

\* What COIDTable asserts of its list: an object is in it once, exactly when
\* its state says so, to be sent or sent but not both unless it was requested
\* again; no request is pending when the worker comes for more; and the count,
\* by which the worker decides to exit, is the length.
ListExact ==
  /\ count = Len(list)
  /\ \A o \in Object :
       /\ Cardinality({i \in 1..Len(list) : list[i] = o}) = IF "listed" \in req[o] THEN 1 ELSE 0
       /\ "listed" \in req[o] <=> req[o] # {}
       /\ "listed" \in req[o] => req[o] \cap {"requested", "pending"} # {}
       /\ "pending" \in req[o] => o \in worker.batch
  /\ worker.at \in {"none", "sleeping", "counted"} => worker.batch = {}

\* The purpose of the requests: an object in the table that is not locked, but
\* that the resolver holds as pinned, is about to be reported, or its report
\* is on the way or will be repeated; whatever calls fail, and however locks,
\* rundown calls and the worker interleave.
NoLostUnpin ==
  \A o \in believed :
    obj[o].at = "tabled" /\ obj[o].locks = 0 =>
      \/ unlock = [at |-> "notify", of |-> o]
      \/ "requested" \in req[o]
      \/ "pending" \in req[o] /\ ~ (worker.at = "answered" /\ worker.reply = "ok")

\* The worker thread does not exit past a request that was made meanwhile (if
\* threads can be created).
WorkHasWorker ==
  list # <<>> => worker.at # "none"

\* When objects are no longer unlocked, all requests are sent and acknowledged
\* in the end.
Drained ==
  []<><<unlock'.at = "notify">>_vars \/ <>[](list = <<>>)
=============================================================================
