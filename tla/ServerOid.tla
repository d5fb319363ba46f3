------------------------------ MODULE ServerOid ------------------------------
(***************************************************************************)
(* The object exporter side of the DCOM resolver (ole32/dcomss/objex): the *)
(* OIDs that processes of this machine registered (CServerOid), the OXIDs  *)
(* of their apartments (CServerOxid), the processes, the sets in which     *)
(* clients keep OIDs alive by pinging (CServerSet), and the asynchronous   *)
(* calls by which OIDs that nobody pings are run down.                     *)
(*                                                                         *)
(* A section under gpServerLock is one step.  The lock is not held while a *)
(* rundown call is issued and is outstanding, nor in the tail of its       *)
(* notification: each of those parts is a step of its own.                 *)
(*                                                                         *)
(* An identifier stands for a slot: an object that was deleted may be      *)
(* followed by another with the same name, which the code would give a     *)
(* new ID.  Time is a flag: a listed OID or a set may come due at any      *)
(* moment after its timeout was set.                                       *)
(***************************************************************************)
EXTENDS Naturals, FiniteSets

CONSTANTS
  Oid, Oxid, Process, PingSet,
  OxidOf,     \* the OXID that registers each OID
  ProcessOf,  \* the process that registers each OXID
  LocalSets,  \* the sets of clients on this machine
  Call,       \* slots for rundown calls (ASYNCRUNDOWNOID_STUFF)
  MaxBatch,   \* MAX_OID_RUNDOWNS_PER_CALL
  MaxCalls,   \* MAX_SIMULTANEOUS_RUNDOWNS_PER_APT
  Answers,    \* what servers may answer: "ok", "keep", "pinned"
  Suspends,   \* whether the machine is suspended and resumed
  MaxItems,   \* bound: work items of one OXID queued or ending
  MaxGuests   \* bound: calls to LazyUseProtseq for one OXID at once

ASSUME ServerOidAssumption ==
  /\ Oxid # {}
  /\ \A S \in {Oid, Oxid, PingSet, Call} : IsFiniteSet(S)
  /\ OxidOf \in [Oid -> Oxid]
  /\ ProcessOf \in [Oxid -> Process]
  /\ LocalSets \subseteq PingSet
  /\ MaxBatch \in Nat \ {0} /\ MaxCalls \in Nat \ {0}
  /\ Answers \subseteq {"ok", "keep", "pinned"}
  /\ Suspends \in BOOLEAN
  /\ MaxItems \in Nat /\ MaxGuests \in Nat

VARIABLES
  oid,     \* the CServerOid objects
  oxid,    \* the CServerOxid objects
  proc,    \* the CProcess objects
  set,     \* the CServerSet objects
  call,    \* the rundown calls in progress
  power    \* the machine's sleep, gPowerState and NotifyCOMOnResume

vars == <<oid, oxid, proc, set, call, power>>

-----------------------------------------------------------------------------
(* Objects *)

\* Where an OID or a set stands with its timeout: "out" of the list, waiting,
\* due, or due because of time that passed while the machine slept.
Timers == {"out", "fresh", "due", "slept"}

\* refs: set and pin references.  down: _fRunningDown.  timer: the place in
\* gpServerOidPList.
OidObjects == [alive : BOOLEAN, refs : Nat, down : BOOLEAN, freed : BOOLEAN,
               pinned : BOOLEAN, timer : Timers]

NoOid == [alive |-> FALSE, refs |-> 0, down |-> FALSE, freed |-> FALSE,
          pinned |-> FALSE, timer |-> "out"]

\* An OXID is deleted when its last reference goes.  calls:
\* _dwRundownCallsInProgress.  items: queued RundownHelperThreadProc.
\* leaving: helpers that have yet to release their reference.  guests: calls
\* to LazyUseProtseq.
OxidObjects == [running : BOOLEAN, refs : Nat, calls : Nat, handle : BOOLEAN,
                items : Nat, leaving : Nat, guests : Nat]

NoOxid == [running |-> FALSE, refs |-> 0, calls |-> 0, handle |-> FALSE,
           items |-> 0, leaving |-> 0, guests |-> 0]

\* up: the process holds its context handle.
Processes == [up : BOOLEAN, refs : Nat]

\* pings: the ping count modulo BaseNumberOfPings.
Sets == [timer : Timers, members : SUBSET Oid, pings : 0..2]

NoSet == [timer |-> "out", members |-> {}, pings |-> 0]

Stages == {"free", "sending", "referenced", "failed", "out", "replying",
           "answered", "check", "handle", "drop"}

\* oxid and oids of a free slot mean nothing; helper: a helper thread sends.
Calls == [at : Stages, oxid : Oxid, oids : SUBSET Oid,
          answer : [Oid -> {"ok", "keep", "pinned"}], helper : BOOLEAN]

AllAnswer(a) == [o \in Oid |-> a]

NoCall == [at |-> "free", oxid |-> CHOOSE x \in Oxid : TRUE, oids |-> {},
           answer |-> AllAnswer("keep"), helper |-> FALSE]

\* state: gPowerState.  asleep: the machine went to sleep, and no resume was
\* handled since.  resume: how far NotifyCOMOnResume has come.
Powers == [state : {"running", "suspended"}, asleep : BOOLEAN,
           resume : {"no", "pinged", "reset"}]

Running == power.state = "running"

OidsOf(x) == {o \in Oid : OxidOf[o] = x}

Exists(x) == oxid[x].refs > 0
Known(p) == proc[p].refs > 0

-----------------------------------------------------------------------------
(* One OID *)

\* CServerOid::Reference: the first reference takes the OID out of the list.
Reference(r) ==
  [r EXCEPT !.refs = @ + 1, !.timer = IF r.refs = 0 THEN "out" ELSE @]

\* Mutant: an OID that is being run down is listed again.
ReleaseWhileDown(r, running) ==
  IF r.refs > 1 THEN [r EXCEPT !.refs = @ - 1]
  ELSE IF r.freed \/ ~ running THEN NoOid
  ELSE [r EXCEPT !.refs = 0, !.timer = "fresh"]

\* CServerOid::Release.
Release(r, running) ==
  IF r.refs > 1 THEN [r EXCEPT !.refs = @ - 1]
  ELSE IF r.down THEN [r EXCEPT !.refs = 0]
  ELSE IF r.freed \/ ~ running THEN NoOid
  ELSE [r EXCEPT !.refs = 0, !.timer = "fresh"]

KeepAlive(r) ==
  IF ~ r.down /\ r.refs = 0 THEN [r EXCEPT !.timer = "fresh"] ELSE r

Unpin(r, running) == Release([r EXCEPT !.pinned = FALSE], running)

\* FreeServerOids, for an OID that is not being run down.
Free(r, running) ==
  IF r.refs = 0 THEN NoOid
  ELSE IF r.pinned THEN Unpin([r EXCEPT !.freed = TRUE], running)
  ELSE [r EXCEPT !.freed = TRUE]

\* Mutant: references taken while the call was out are not looked at.
ResultUnchecked(r, answer) ==
  IF answer = "pinned" THEN [Reference(r) EXCEPT !.pinned = TRUE, !.down = FALSE]
  ELSE IF answer = "ok" THEN NoOid
  ELSE [r EXCEPT !.down = FALSE, !.timer = "fresh"]

\* CServerOxid::ProcessRundownResultsInternal, for one OID.
Result(r, answer) ==
  IF answer = "pinned" THEN [Reference(r) EXCEPT !.pinned = TRUE, !.down = FALSE]
  ELSE IF r.refs # 0 THEN [r EXCEPT !.down = FALSE]
  ELSE IF answer = "ok" THEN NoOid
  ELSE [r EXCEPT !.down = FALSE, !.timer = "fresh"]

-----------------------------------------------------------------------------
(* Deleting objects *)

\* A step leaves the OIDs q, the OXIDs b and the processes d, before the
\* destructors: a deleted OID releases its OXID, and a deleted OXID its
\* process.
Commit(q, b, d) ==
  LET deleted(x) == {o \in OidsOf(x) : oid[o].alive /\ ~ q[o].alive}
      left == [x \in Oxid |-> [b[x] EXCEPT !.refs = @ - Cardinality(deleted(x))]]
      ended(p) == {x \in Oxid : ProcessOf[x] = p /\ Exists(x) /\ left[x].refs = 0}
  IN /\ oid' = q
     /\ oxid' = left
     /\ proc' = [p \in Process |-> [d[p] EXCEPT !.refs = @ - Cardinality(ended(p))]]

Init ==
  /\ oid = [o \in Oid |-> NoOid]
  /\ oxid = [x \in Oxid |-> NoOxid]
  /\ proc = [p \in Process |-> [up |-> FALSE, refs |-> 0]]
  /\ set = [s \in PingSet |-> NoSet]
  /\ call = [c \in Call |-> NoCall]
  /\ power = [state |-> "running", asleep |-> FALSE, resume |-> "no"]

-----------------------------------------------------------------------------
(* Servers: the calls of processes on this machine *)

\* A process connects.
Connect(p) ==
  /\ ~ Known(p)
  /\ proc' = [proc EXCEPT ![p] = [up |-> TRUE, refs |-> 1]]
  /\ UNCHANGED <<oid, oxid, set, call, power>>

\* _ServerAllocateOXIDAndOIDs; the new OXID ends with the reference of its
\* process.
AllocateOxid(x) ==
  /\ proc[ProcessOf[x]].up /\ ~ Exists(x)
  /\ oxid' = [oxid EXCEPT ![x] = [NoOxid EXCEPT !.running = TRUE, !.refs = 1]]
  /\ proc' = [proc EXCEPT ![ProcessOf[x]].refs = @ + 1]
  /\ UNCHANGED <<oid, set, call, power>>

\* ServerAllocateOIDsInternal: the creator's reference is released at once,
\* so that the OID is run down unless a set takes it.
AllocateOid(o) ==
  LET x == OxidOf[o] IN
  /\ oxid[x].running /\ ~ oid[o].alive
  /\ oid' = [oid EXCEPT ![o] =
       Release([NoOid EXCEPT !.alive = TRUE, !.refs = 1], TRUE)]
  /\ oxid' = [oxid EXCEPT ![x].refs = @ + 1]
  /\ UNCHANGED <<proc, set, call, power>>

\* FreeServerOids.  An OID that is being run down is left to the result.
FreeServerOid(o) ==
  LET x == OxidOf[o] IN
  /\ oid[o].alive /\ ~ oid[o].down /\ oxid[x].running
  /\ Commit([oid EXCEPT ![o] = Free(@, TRUE)], oxid, proc)
  /\ UNCHANGED <<set, call, power>>

\* The unpins of _BulkUpdateOIDs, for the OIDs U of a process.
UnpinOids(U) ==
  LET hit == {o \in U : oid[o].alive /\ oid[o].pinned /\ oxid[OxidOf[o]].running}
  IN /\ Commit([o \in Oid |-> IF o \in hit THEN Unpin(oid[o], TRUE) ELSE oid[o]],
               oxid, proc)
     /\ UNCHANGED <<set, call, power>>

\* ScanForOrphanedPinnedOids, for OXIDs that no longer run.
UnpinOrphans(q, X) ==
  [o \in Oid |-> IF OxidOf[o] \in X /\ q[o].pinned THEN Unpin(q[o], FALSE) ELSE q[o]]

\* CServerOxid::ProcessRelease: the OXIDs X no longer run, and their process
\* no longer references them.
Stopped(X) ==
  [x \in Oxid |-> IF x \in X THEN [oxid[x] EXCEPT !.running = FALSE, !.refs = @ - 1]
                  ELSE oxid[x]]

\* _ServerFreeOXIDAndOIDs, with the OIDs F.
FreeOxid(x, F) ==
  /\ oxid[x].running
  /\ LET q == UnpinOrphans(oid, {x})
         freed == {o \in F : q[o].alive /\ ~ q[o].down /\ q[o].refs = 0}
     IN Commit([o \in Oid |-> IF o \in freed THEN NoOid ELSE q[o]],
               Stopped({x}), proc)
  /\ UNCHANGED <<set, call, power>>

\* CProcess::Rundown: the process died or disconnected.
ProcessRundown(p) ==
  /\ proc[p].up
  /\ LET X == {x \in Oxid : ProcessOf[x] = p /\ oxid[x].running}
     IN Commit(UnpinOrphans(oid, X), Stopped(X),
               [proc EXCEPT ![p] = [up |-> FALSE, refs |-> @.refs - 1]])
  /\ UNCHANGED <<set, call, power>>

\* CServerOxid::LazyUseProtseq: the OXID is referenced while its process is
\* called without the lock.
BeginUseProtseq(x) ==
  /\ oxid[x].running /\ oxid[x].guests < MaxGuests
  /\ oxid' = [oxid EXCEPT ![x].refs = @ + 1, ![x].guests = @ + 1]
  /\ UNCHANGED <<oid, proc, set, call, power>>

EndUseProtseq(x) ==
  /\ oxid[x].guests > 0
  /\ Commit(oid, [oxid EXCEPT ![x].refs = @ - 1, ![x].guests = @ - 1], proc)
  /\ UNCHANGED <<set, call, power>>

-----------------------------------------------------------------------------
(* Clients: pings *)

\* CServerSet::Ping: every third ping drops the OIDs of OXIDs that no longer
\* run (ValidateObjects).
Stale(s) ==
  IF (set[s].pings + 1) % 3 # 0 THEN {}
  ELSE {o \in set[s].members : ~ oxid[OxidOf[o]].running}

ReleaseAll(q, S) ==
  [o \in Oid |-> IF o \in S THEN Release(q[o], oxid[OxidOf[o]].running) ELSE q[o]]

\* A new set's ping count is not initialized.
Pinged(s, M) ==
  \E n \in IF set[s].timer = "out" THEN 0..2 ELSE {(set[s].pings + 1) % 3} :
    set' = [set EXCEPT ![s] = [timer |-> "fresh", members |-> M, pings |-> n]]

\* _SimplePing.  That it may also run down another set is RundownSet.
SimplePing(s) ==
  /\ set[s].timer # "out"
  /\ Pinged(s, set[s].members \ Stale(s))
  /\ Commit(ReleaseAll(oid, Stale(s)), oxid, proc)
  /\ UNCHANGED <<call, power>>

\* What a ping does to the OIDs: drop the stale ones, add A (AddObject), then
\* remove D (RemoveObject); an OID that was not in the set is kept alive.
Swapped(s, A, D) ==
  LET q1 == ReleaseAll(oid, Stale(s))
      kept == set[s].members \ Stale(s)
      added == {o \in A \ kept : q1[o].alive}
      q2 == [o \in Oid |-> IF o \in added THEN Reference(q1[o]) ELSE q1[o]]
      q3 == ReleaseAll(q2, D \cap (kept \cup added))
  IN [o \in Oid |-> IF o \in D \ (kept \cup added) /\ q3[o].alive
                    THEN KeepAlive(q3[o]) ELSE q3[o]]

\* ComplexPingInternal, with a sequence number that is accepted; the first
\* ping of a client allocates its set.  A is what could be added: an insertion
\* that fails for lack of memory ends the additions.
ComplexPing(s, A, D) ==
  /\ Pinged(s, ((set[s].members \ Stale(s)) \cup
                {o \in A : ReleaseAll(oid, Stale(s))[o].alive}) \ D)
  /\ Commit(Swapped(s, A, D), oxid, proc)
  /\ UNCHANGED <<call, power>>

\* gpServerOidTable.  To name another OID (OR_BADOID) changes nothing.
Registered == {o \in Oid : oid[o].alive}

\* What a ping may add to a set: naming a member again changes nothing.
Missing(s) == Registered \ (set[s].members \ Stale(s))

\* RundownSetIfNeeded, by a ping or by the worker thread: the client of a set
\* that missed its pings is taken for dead.
RundownSet(s) ==
  /\ Running
  /\ set[s].timer \in {"due", "slept"}
  /\ s \in LocalSets => set[s].members = {}
  /\ set' = [set EXCEPT ![s] = NoSet]
  /\ Commit(ReleaseAll(oid, set[s].members), oxid, proc)
  /\ UNCHANGED <<call, power>>

-----------------------------------------------------------------------------
(* Rundown calls *)

\* The listed OIDs of x whose timeout has expired.
Eligible(x) == {o \in OidsOf(x) : oid[o].timer \in {"due", "slept"}}

\* RundownOidsHelper takes eligible OIDs until there is no more or the batch
\* is full.  (Which OIDs of the list come first is left open.)
Batches(x) ==
  {B \in SUBSET Eligible(x) :
     /\ B # {} /\ Cardinality(B) <= MaxBatch
     /\ B = Eligible(x) \/ Cardinality(B) = MaxBatch}

OkayForMoreRundownCalls(x) == oxid[x].calls < MaxCalls

\* Mutant: the handle is closed although calls use it.
HandleNever(r) == FALSE

\* ReleaseRundownHandle, in a section under the lock.
HandleLeft(r) == r.handle /\ r.calls > 0

\* RundownOidsHelper and the part of CServerOxid::RundownOids under the lock.
\* A call goes out if the OXID runs and a binding handle can be had; else the
\* OIDs wait another timeout, or are deleted with their dead OXID.
StartRundown(x, B, c, b, helper) ==
  \/ /\ oxid[x].running
     /\ oid' = [o \in Oid |-> IF o \in B THEN [oid[o] EXCEPT !.down = TRUE, !.timer = "out"]
                              ELSE oid[o]]
     /\ oxid' = [b EXCEPT ![x].calls = @ + 1, ![x].handle = TRUE]
     /\ call' = [call EXCEPT ![c] = [at |-> "sending", oxid |-> x, oids |-> B,
                                     answer |-> AllAnswer("keep"), helper |-> helper]]
     /\ UNCHANGED proc
  \/ /\ ~ oxid[x].running \/ ~ oxid[x].handle
     /\ LET answer == IF oxid[x].running THEN "keep" ELSE "ok"
            r == [b[x] EXCEPT !.leaving = @ + (IF helper THEN 1 ELSE 0)]
        IN Commit([o \in Oid |-> IF o \in B
                    THEN Result([oid[o] EXCEPT !.down = TRUE, !.timer = "out"], answer)
                    ELSE oid[o]],
                  [oxid EXCEPT ![x] = [r EXCEPT !.handle = HandleLeft(r)]], proc)
     /\ UNCHANGED call

\* A task thread (ObjectExporterTaskThread).
TaskRundown(x, B, c) ==
  /\ Running /\ call[c].at = "free"
  /\ OkayForMoreRundownCalls(x) /\ B \in Batches(x)
  /\ StartRundown(x, B, c, oxid, FALSE)
  /\ UNCHANGED <<set, power>>

\* RundownHelperThreadProc, queued by the notification of a call.
HelperRundown(x, B, c) ==
  /\ Running /\ call[c].at = "free"
  /\ oxid[x].items > 0
  /\ OkayForMoreRundownCalls(x) /\ B \in Batches(x)
  /\ StartRundown(x, B, c, [oxid EXCEPT ![x].items = @ - 1], TRUE)
  /\ UNCHANGED <<set, power>>

\* The helper finds nothing to do.
HelperIdle(x) ==
  /\ oxid[x].items > 0
  /\ ~ Running \/ ~ OkayForMoreRundownCalls(x) \/ Eligible(x) = {}
  /\ oxid' = [oxid EXCEPT ![x].items = @ - 1, ![x].leaving = @ + 1]
  /\ UNCHANGED <<oid, proc, set, call, power>>

\* It releases the reference it was given.
HelperDone(x) ==
  /\ oxid[x].leaving > 0
  /\ Commit(oid, [oxid EXCEPT ![x].leaving = @ - 1, ![x].refs = @ - 1], proc)
  /\ UNCHANGED <<set, call, power>>

To(c, stage) == call' = [call EXCEPT ![c].at = stage]

\* Mutant: a call is sent without references.
TakesNone(c) ==
  /\ call[c].at = "sending"
  /\ To(c, "referenced")
  /\ UNCHANGED <<oid, oxid, proc, set, power>>

\* CProcess::RundownOids, without the lock: references for the call ...
TakeReferences(c) ==
  LET x == call[c].oxid IN
  /\ call[c].at = "sending"
  /\ oxid' = [oxid EXCEPT ![x].refs = @ + 1]
  /\ proc' = [proc EXCEPT ![ProcessOf[x]].refs = @ + 1]
  /\ To(c, "referenced")
  /\ UNCHANGED <<oid, set, power>>

\* ... or no memory for the call,
NoMemory(c) ==
  /\ call[c].at = "sending"
  /\ To(c, "failed")
  /\ UNCHANGED <<oid, oxid, proc, set, power>>

\* then RawRundownOid, after which a helper thread is done with the call
Issue(c) ==
  LET x == call[c].oxid IN
  /\ call[c].at = "referenced"
  /\ call' = [call EXCEPT ![c].at = "out", ![c].helper = FALSE]
  /\ oxid' = IF call[c].helper THEN [oxid EXCEPT ![x].leaving = @ + 1] ELSE oxid
  /\ UNCHANGED <<oid, proc, set, power>>

\* which may fail: the references are released again.
IssueFails(c) ==
  LET x == call[c].oxid IN
  /\ call[c].at = "referenced"
  /\ Commit(oid, [oxid EXCEPT ![x].refs = @ - 1],
            [proc EXCEPT ![ProcessOf[x]].refs = @ - 1])
  /\ To(c, "failed")
  /\ UNCHANGED <<set, power>>

\* Mutant: a call that was not sent still counts.
FailureCounted(c) ==
  LET x == call[c].oxid
      answer == IF oxid[x].running THEN "keep" ELSE "ok"
      r == [oxid[x] EXCEPT !.leaving = @ + (IF call[c].helper THEN 1 ELSE 0)]
  IN /\ call[c].at = "failed"
     /\ Commit([o \in Oid |-> IF o \in call[c].oids THEN Result(oid[o], answer) ELSE oid[o]],
               [oxid EXCEPT ![x] = r], proc)
     /\ call' = [call EXCEPT ![c] = NoCall]
     /\ UNCHANGED <<set, power>>

\* Mutant: a call that was not sent is taken for an answer.
FailureTakenForOk(c) ==
  LET x == call[c].oxid
      r == [oxid[x] EXCEPT !.calls = @ - 1,
                           !.leaving = @ + (IF call[c].helper THEN 1 ELSE 0)]
  IN /\ call[c].at = "failed"
     /\ Commit([o \in Oid |-> IF o \in call[c].oids THEN Result(oid[o], "ok") ELSE oid[o]],
               [oxid EXCEPT ![x] = [r EXCEPT !.handle = HandleLeft(r)]], proc)
     /\ call' = [call EXCEPT ![c] = NoCall]
     /\ UNCHANGED <<set, power>>

\* The end of CServerOxid::RundownOids for a call that was not sent.
CallFailed(c) ==
  LET x == call[c].oxid
      answer == IF oxid[x].running THEN "keep" ELSE "ok"
      r == [oxid[x] EXCEPT !.calls = @ - 1,
                           !.leaving = @ + (IF call[c].helper THEN 1 ELSE 0)]
  IN /\ call[c].at = "failed"
     /\ Commit([o \in Oid |-> IF o \in call[c].oids THEN Result(oid[o], answer) ELSE oid[o]],
               [oxid EXCEPT ![x] = [r EXCEPT !.handle = HandleLeft(r)]], proc)
     /\ call' = [call EXCEPT ![c] = NoCall]
     /\ UNCHANGED <<set, power>>

\* The server decides (CRemoteUnknown::RundownOid).
ServerAnswers(c, a) ==
  /\ call[c].at = "out" /\ proc[ProcessOf[call[c].oxid]].up
  /\ call' = [call EXCEPT ![c].at = "replying",
                          ![c].answer = [o \in Oid |-> IF o \in call[c].oids THEN a[o] ELSE "keep"]]
  /\ UNCHANGED <<oid, oxid, proc, set, power>>

\* AsyncRundownReturnNotification and RundownOidNotify up to the lock.
Returned(c) ==
  /\ call[c].at = "replying"
  /\ To(c, "answered")
  /\ UNCHANGED <<oid, oxid, proc, set, power>>

\* The call fails: a disconnected apartment has no more use for its OIDs, and
\* after any other error they are kept.
ReturnedError(c) ==
  /\ call[c].at \in {"out", "replying"}
  /\ \E answer \in {"ok", "keep"} :
       call' = [call EXCEPT ![c].at = "answered", ![c].answer = AllAnswer(answer)]
  /\ UNCHANGED <<oid, oxid, proc, set, power>>

\* Mutant: a call that was answered still counts.
ResultsCounted(c) ==
  /\ call[c].at = "answered"
  /\ Commit([o \in Oid |-> IF o \in call[c].oids THEN Result(oid[o], call[c].answer[o])
                           ELSE oid[o]], oxid, proc)
  /\ call' = [call EXCEPT ![c].at = "check", ![c].oids = {}, ![c].answer = AllAnswer("keep")]
  /\ UNCHANGED <<set, power>>

\* ProcessRundownResults, under the lock.
ProcessResults(c) ==
  LET x == call[c].oxid IN
  /\ call[c].at = "answered"
  /\ Commit([o \in Oid |-> IF o \in call[c].oids THEN Result(oid[o], call[c].answer[o])
                           ELSE oid[o]],
            [oxid EXCEPT ![x].calls = @ - 1], proc)
  /\ call' = [call EXCEPT ![c].at = "check", ![c].oids = {}, ![c].answer = AllAnswer("keep")]
  /\ UNCHANGED <<set, power>>

\* Without the lock: queue a helper if more OIDs of this OXID are due (that
\* may fail, and does at the bound).
CheckForMore(c) ==
  LET x == call[c].oxid IN
  /\ call[c].at = "check"
  /\ \/ /\ Eligible(x) # {} /\ oxid[x].items + oxid[x].leaving < MaxItems
        /\ oxid' = [oxid EXCEPT ![x].refs = @ + 1, ![x].items = @ + 1]
     \/ UNCHANGED oxid
  /\ To(c, "handle")
  /\ UNCHANGED <<oid, proc, set, power>>

\* ReleaseRundownHandle.
ReleaseRundownHandle(c) ==
  LET x == call[c].oxid IN
  /\ call[c].at = "handle"
  /\ oxid' = [oxid EXCEPT ![x].handle = HandleLeft(oxid[x])]
  /\ To(c, "drop")
  /\ UNCHANGED <<oid, proc, set, power>>

\* The end of AsyncRundownReturnNotification.
DropReferences(c) ==
  LET x == call[c].oxid IN
  /\ call[c].at = "drop"
  /\ Commit(oid, [oxid EXCEPT ![x].refs = @ - 1],
            [proc EXCEPT ![ProcessOf[x]].refs = @ - 1])
  /\ call' = [call EXCEPT ![c] = NoCall]
  /\ UNCHANGED <<set, power>>

-----------------------------------------------------------------------------
(* Time and power *)

Later == IF power.asleep THEN "slept" ELSE "due"

\* Timeouts expire.
OidDue(o) ==
  /\ oid[o].timer = "fresh"
  /\ oid' = [oid EXCEPT ![o].timer = Later]
  /\ UNCHANGED <<oxid, proc, set, call, power>>

SetDue(s) ==
  /\ set[s].timer = "fresh"
  /\ set' = [set EXCEPT ![s].timer = Later]
  /\ UNCHANGED <<oid, oxid, proc, call, power>>

\* NotifyCOMOnSuspend.  (Power events are handled one after the other.)
Suspend ==
  /\ Suspends /\ Running /\ power.resume = "no"
  /\ power' = [power EXCEPT !.state = "suspended", !.asleep = TRUE]
  /\ UNCHANGED <<oid, oxid, proc, set, call>>

\* "The machine can suspend in critical situations w/o notifying us."  (Bound:
\* not in the middle of NotifyCOMOnResume.)
CriticalSleep ==
  /\ Suspends /\ ~ power.asleep /\ power.resume = "no"
  /\ power' = [power EXCEPT !.asleep = TRUE]
  /\ UNCHANGED <<oid, oxid, proc, set, call>>

\* NotifyCOMOnResume, which may come twice for one sleep: ping all sets, ...
PingAllSets ==
  /\ Suspends /\ power.resume = "no"
  /\ power' = [power EXCEPT !.asleep = FALSE, !.resume = "pinged"]
  /\ LET S == {s \in PingSet : set[s].timer # "out"}
         stale == UNION {Stale(s) : s \in S}
         gone(o) == Cardinality({s \in S : o \in Stale(s)})
     IN /\ set' = [s \in PingSet |->
                     IF s \in S THEN [timer |-> "fresh", pings |-> (set[s].pings + 1) % 3,
                                      members |-> set[s].members \ Stale(s)]
                     ELSE set[s]]
        /\ Commit([o \in Oid |->
                     IF o \notin stale THEN oid[o]
                     ELSE Release([oid[o] EXCEPT !.refs = @ - gone(o) + 1], FALSE)],
                  oxid, proc)
  /\ UNCHANGED call

\* Mutant: the OIDs are not looked at.
ResetNothing ==
  /\ power.resume = "pinged"
  /\ power' = [power EXCEPT !.resume = "reset"]
  /\ UNCHANGED <<oid, oxid, proc, set, call>>

\* ... then give all listed OIDs a new timeout (which is the end if rundowns
\* were never barred), ...
ResetAllOidTimeouts ==
  /\ power.resume = "pinged"
  /\ oid' = [o \in Oid |-> IF oid[o].timer = "out" THEN oid[o]
                           ELSE [oid[o] EXCEPT !.timer = "fresh"]]
  /\ power' = [power EXCEPT !.resume = IF Running THEN "no" ELSE "reset"]
  /\ UNCHANGED <<oxid, proc, set, call>>

\* ... and only then allow rundowns.
Resume ==
  /\ power.resume = "reset"
  /\ power' = [power EXCEPT !.state = "running", !.resume = "no"]
  /\ UNCHANGED <<oid, oxid, proc, set, call>>

-----------------------------------------------------------------------------
Server ==
  \/ \E p \in Process : Connect(p) \/ ProcessRundown(p)
  \/ \E x \in Oxid : \/ AllocateOxid(x)
                     \/ \E F \in SUBSET OidsOf(x) : FreeOxid(x, F)
                     \/ BeginUseProtseq(x) \/ EndUseProtseq(x)
  \/ \E o \in Oid : AllocateOid(o) \/ FreeServerOid(o)
  \/ \E U \in SUBSET Oid : UnpinOids(U)

Client ==
  \E s \in PingSet :
    \/ SimplePing(s) \/ RundownSet(s)
    \/ \E A \in SUBSET Missing(s), D \in SUBSET Registered : ComplexPing(s, A, D)

Rundown ==
  \/ \E x \in Oxid, c \in Call : \E B \in Batches(x) :
       TaskRundown(x, B, c) \/ HelperRundown(x, B, c)
  \/ \E x \in Oxid : HelperIdle(x) \/ HelperDone(x)
  \/ \E c \in Call :
       \/ TakeReferences(c) \/ NoMemory(c) \/ Issue(c) \/ IssueFails(c) \/ CallFailed(c)
       \/ Returned(c) \/ ReturnedError(c) \/ ProcessResults(c)
       \/ CheckForMore(c) \/ ReleaseRundownHandle(c) \/ DropReferences(c)
       \/ \E a \in [Oid -> Answers] : ServerAnswers(c, a)

Environment ==
  \/ \E o \in Oid : OidDue(o)
  \/ \E s \in PingSet : SetDue(s)
  \/ Suspend \/ CriticalSleep \/ PingAllSets \/ ResetAllOidTimeouts \/ Resume

Next == Server \/ Client \/ Rundown \/ Environment

Spec == Init /\ [][Next]_vars

\* Threads that were given work do it, RPC calls return, time passes, and the
\* task threads come to every OID that is due again and again (the list is in
\* the order of the timeouts) and can some time make a binding handle.  A machine
\* that sleeps wakes up some time, and handles the resume.
CallStep(c) ==
  \/ TakeReferences(c) \/ NoMemory(c) \/ Issue(c) \/ IssueFails(c) \/ CallFailed(c)
  \/ Returned(c) \/ ReturnedError(c) \/ ProcessResults(c)
  \/ CheckForMore(c) \/ ReleaseRundownHandle(c) \/ DropReferences(c)

RundownOf(o) ==
  \E c \in Call : \E B \in Batches(OxidOf[o]) :
    o \in B /\ TaskRundown(OxidOf[o], B, c) /\ oid'[o].timer = "out"

Awaking == (power.asleep /\ PingAllSets) \/ ResetAllOidTimeouts \/ Resume

FairSpec ==
  /\ Spec
  /\ WF_vars(Awaking)
  /\ \A c \in Call : WF_vars(CallStep(c))
  /\ \A o \in Oid : WF_vars(OidDue(o)) /\ SF_vars(RundownOf(o))

-----------------------------------------------------------------------------
(* Properties *)

TypeOK ==
  /\ oid \in [Oid -> OidObjects]
  /\ oxid \in [Oxid -> OxidObjects]
  /\ proc \in [Process -> Processes]
  /\ set \in [PingSet -> Sets]
  /\ call \in [Call -> Calls]
  /\ power \in Powers

\* What CServerOid::KeepAlive, RundownOidsHelper and SetRundown assert: an OID
\* is in the list of those waiting to be run down exactly when nobody refers
\* to it and no call has it.
ListedExactly ==
  \A o \in Oid :
    /\ oid[o].timer # "out" <=> oid[o].alive /\ oid[o].refs = 0 /\ ~ oid[o].down
    /\ oid[o].freed => oid[o].refs > 0 /\ ~ oid[o].down

\* An OID counts the sets that hold it and its pin, so that no set keeps a
\* pointer to a deleted OID, however pings, rundowns and results interleave.
RefsExact ==
  \A o \in Oid :
    /\ oid[o].refs = Cardinality({s \in PingSet : o \in set[s].members})
                       + (IF oid[o].pinned THEN 1 ELSE 0)
    /\ oid[o].refs > 0 => oid[o].alive

\* The stages of a call during which it has its OIDs, counts for its OXID, and
\* refers to the OXID and the process.
Unsettled == {"sending", "referenced", "failed", "out", "replying", "answered"}
Referring == Stages \ {"free", "sending", "failed"}

CallsOf(x, stages) == {c \in Call : call[c].at \in stages /\ call[c].oxid = x}

\* An OXID and a process are there as long as anything points to them, and no
\* longer: the window between taking an OID off the list and referencing its
\* OXID for the call, too.
LifetimesExact ==
  /\ \A x \in Oxid :
       /\ oxid[x].refs = (IF oxid[x].running THEN 1 ELSE 0)
                         + Cardinality({o \in OidsOf(x) : oid[o].alive})
                         + Cardinality(CallsOf(x, Referring))
                         + Cardinality({c \in CallsOf(x, Stages) : call[c].helper})
                         + oxid[x].items + oxid[x].leaving + oxid[x].guests
       /\ CallsOf(x, Stages \ {"free"}) # {} => Exists(x)
  /\ \A p \in Process :
       proc[p].refs = (IF proc[p].up THEN 1 ELSE 0)
                      + Cardinality({x \in Oxid : ProcessOf[x] = p /\ Exists(x)})
                      + Cardinality(UNION {CallsOf(x, Referring) :
                                           x \in {y \in Oxid : ProcessOf[y] = p}})

\* Every OID that is being run down is in exactly one call, which will settle
\* it, and every call counts against the limit of its OXID until it is
\* settled.  The shared binding handle stays open while calls use it, and is
\* closed before the OXID is deleted.
CallsExact ==
  /\ \A o \in Oid :
       Cardinality({c \in Call : call[c].at \in Unsettled /\ o \in call[c].oids})
         = IF oid[o].down THEN 1 ELSE 0
  /\ \A x \in Oxid :
       /\ oxid[x].calls = Cardinality(CallsOf(x, Unsettled))
       /\ oxid[x].calls <= MaxCalls
       /\ oxid[x].calls > 0 => oxid[x].handle
       /\ oxid[x].handle => Exists(x)

\* soid.hxx, orsvr.cxx: as long as an OXID runs, its OIDs are deleted only with
\* the consent of its server, which frees them, now or while a client still
\* holds them, or answers a rundown call so; not because clients went, calls
\* failed or time passed.
Consented(o) ==
  \/ FreeServerOid(o) \/ oid[o].freed
  \/ \E c \in Call : /\ call[c].at \in {"replying", "answered"}
                     /\ o \in call[c].oids /\ call[c].answer[o] = "ok"

ServerDecides ==
  [][\A o \in Oid : LET x == OxidOf[o] IN
       oxid[x].running /\ oxid'[x].running /\ oid[o].alive /\ ~ oid'[o].alive => Consented(o)]_vars

\* NotifyCOMOnResume: when the last sleep of the machine has been handled, no
\* set and no OID is still due for time that passed in it, and rundowns are
\* allowed again.  As a noticed sleep bars them until then, it runs down
\* nothing; what a critical one ran down before its resume is lost.
SleepForgiven ==
  ~ power.asleep /\ power.resume = "no" =>
    /\ \A o \in Oid : oid[o].timer # "slept"
    /\ \A s \in PingSet : set[s].timer # "slept"
    /\ Running

\* ScanForOrphanedPinnedOids: no OID stays pinned for an OXID that is dead.
NoOrphanPins ==
  \A o \in Oid : oid[o].pinned => oxid[OxidOf[o]].running

\* Clients that do not hold an OID may renew its timeout (KeepAlive), and each
\* resume of the machine does.
Renewed(o) == oid[o].timer \in {"due", "slept"} /\ oid'[o].timer = "fresh"

\* soid.hxx: an OID that no client pings is offered to its server within some
\* timeouts, or deleted if its server is gone; unless its timeout is renewed
\* for ever.
UnpingedRundown ==
  \A o \in Oid : \/ (oid[o].timer # "out") ~> (oid[o].timer = "out")
                 \/ []<><<Renewed(o)>>_vars

\* The OIDs of a dead OXID do not outlive the clients that ping them.
DeadServerCleaned ==
  \A o \in Oid :
    \/ (oid[o].alive /\ ~ oxid[OxidOf[o]].running)
         ~> (~ oid[o].alive \/ \E s \in PingSet : o \in set[s].members)
    \/ []<><<Renewed(o)>>_vars
=============================================================================
