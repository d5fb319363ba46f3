------------------------------ MODULE SharedLock ------------------------------
(***************************************************************************)
(* CSharedLock, the reader/writer lock of the DCOM resolver (gpServerLock  *)
(* and its like in ole32/dcomss/objex).  Readers and writers are counted   *)
(* by interlocked operations; writers, and readers that meet a writer,     *)
(* queue for a critical section; a writer that has it waits at an          *)
(* auto-reset event for the readers to leave.                              *)
(*                                                                         *)
(* Every interlocked operation, every read of a counter, and every call of *)
(* the system is a step.  A thread does not take the lock again while it   *)
(* has it (which the header forbids).                                      *)
(***************************************************************************)
EXTENDS Naturals, FiniteSets

CONSTANTS
  Thread,
  None     \* no thread

ASSUME SharedLockAssumption == IsFiniteSet(Thread) /\ None \notin Thread

VARIABLES
  at,              \* where a thread is
  goal,            \* what its call will leave it with
  readers, writers,
  event,           \* hevent
  lock,            \* the owner of the critical section
  exclusive_owner

vars == <<at, goal, readers, writers, event, lock, exclusive_owner>>

Goals == {"none", "shared", "exclusive"}

Stages == {"out", "counted", "backing", "testing", "signalling", "entering",
           "inside", "leaving", "clearing", "shared", "announcing", "checking",
           "waiting", "owning", "exclusive", "disowning"}

Init ==
  /\ at = [t \in Thread |-> "out"]
  /\ goal = [t \in Thread |-> "none"]
  /\ readers = 0 /\ writers = 0
  /\ event = FALSE
  /\ lock = None /\ exclusive_owner = None

To(t, stage) == at' = [at EXCEPT ![t] = stage]

\* After letting the readers go, a call is over or queues.
After(g) == IF g = "none" THEN "out" ELSE "entering"

-----------------------------------------------------------------------------
(* LockShared *)

LockShared(t) ==
  /\ at[t] = "out"
  /\ readers' = readers + 1
  /\ goal' = [goal EXCEPT ![t] = "shared"]
  /\ To(t, "counted")
  /\ UNCHANGED <<writers, event, lock, exclusive_owner>>

\* Mutant: writers are not looked for.
NoTest(t) ==
  /\ at[t] = "counted"
  /\ To(t, "clearing")
  /\ UNCHANGED <<goal, readers, writers, event, lock, exclusive_owner>>

\* Without a writer, having counted is having the lock.
SeekWriter(t) ==
  /\ at[t] = "counted"
  /\ To(t, IF writers = 0 THEN "clearing" ELSE "backing")
  /\ UNCHANGED <<goal, readers, writers, event, lock, exclusive_owner>>

\* Mutant: a reader that backs off leaves without a word.
BackOffQuietly(t) ==
  /\ at[t] = "backing"
  /\ readers' = readers - 1
  /\ To(t, "entering")
  /\ UNCHANGED <<goal, writers, event, lock, exclusive_owner>>

\* Mutant: a reader that meets a writer stays counted and looks again.
SpinCounted(t) ==
  /\ at[t] = "backing"
  /\ To(t, "counted")
  /\ UNCHANGED <<goal, readers, writers, event, lock, exclusive_owner>>

\* The last of the readers to back off wakes the writer.
BackOff(t) ==
  /\ at[t] = "backing"
  /\ readers' = readers - 1
  /\ To(t, IF readers = 1 THEN "signalling" ELSE "entering")
  /\ UNCHANGED <<goal, writers, event, lock, exclusive_owner>>

\* Mutant: the count before the critical section is thought to be enough.
NotAgain(t) ==
  /\ at[t] = "inside"
  /\ To(t, "leaving")
  /\ UNCHANGED <<goal, readers, writers, event, lock, exclusive_owner>>

\* It counts again in the critical section, where there is no writer.
CountInside(t) ==
  /\ at[t] = "inside"
  /\ readers' = readers + 1
  /\ To(t, "leaving")
  /\ UNCHANGED <<goal, writers, event, lock, exclusive_owner>>

Clear(t) ==
  /\ at[t] = "clearing"
  /\ exclusive_owner' = None
  /\ To(t, "shared")
  /\ UNCHANGED <<goal, readers, writers, event, lock>>

-----------------------------------------------------------------------------
(* UnlockShared and ConvertToExclusive, which is not atomic *)

DropShared(t, g) ==
  /\ readers' = readers - 1
  /\ goal' = [goal EXCEPT ![t] = g]
  /\ To(t, IF readers = 1 THEN "testing" ELSE After(g))
  /\ UNCHANGED <<writers, event, lock, exclusive_owner>>

UnlockShared(t) == at[t] = "shared" /\ DropShared(t, "none")

ConvertToExclusive(t) == at[t] = "shared" /\ DropShared(t, "exclusive")

\* The last reader wakes a writer, if there is one.
TestWriters(t) ==
  /\ at[t] = "testing"
  /\ To(t, IF writers # 0 THEN "signalling" ELSE After(goal[t]))
  /\ UNCHANGED <<goal, readers, writers, event, lock, exclusive_owner>>

Signal(t) ==
  /\ at[t] = "signalling"
  /\ event' = TRUE
  /\ To(t, After(goal[t]))
  /\ UNCHANGED <<goal, readers, writers, lock, exclusive_owner>>

-----------------------------------------------------------------------------
(* LockExclusive and UnlockExclusive *)

LockExclusive(t) ==
  /\ at[t] = "out"
  /\ goal' = [goal EXCEPT ![t] = "exclusive"]
  /\ To(t, "entering")
  /\ UNCHANGED <<readers, writers, event, lock, exclusive_owner>>

Enter(t) ==
  /\ at[t] = "entering" /\ lock = None
  /\ lock' = t
  /\ To(t, IF goal[t] = "shared" THEN "inside" ELSE "announcing")
  /\ UNCHANGED <<goal, readers, writers, event, exclusive_owner>>

Announce(t) ==
  /\ at[t] = "announcing"
  /\ writers' = writers + 1
  /\ To(t, "checking")
  /\ UNCHANGED <<goal, readers, event, lock, exclusive_owner>>

CheckReaders(t) ==
  /\ at[t] = "checking"
  /\ To(t, IF readers = 0 THEN "owning" ELSE "waiting")
  /\ UNCHANGED <<goal, readers, writers, event, lock, exclusive_owner>>

\* WaitForSingleObject resets the event.
Wait(t) ==
  /\ at[t] = "waiting" /\ event
  /\ event' = FALSE
  /\ To(t, "checking")
  /\ UNCHANGED <<goal, readers, writers, lock, exclusive_owner>>

Own(t) ==
  /\ at[t] = "owning"
  /\ exclusive_owner' = t
  /\ To(t, "exclusive")
  /\ UNCHANGED <<goal, readers, writers, event, lock>>

DropExclusive(t) ==
  /\ writers' = writers - 1
  /\ goal' = [goal EXCEPT ![t] = "none"]
  /\ To(t, "disowning")
  /\ UNCHANGED <<readers, event, lock, exclusive_owner>>

UnlockExclusive(t) == at[t] = "exclusive" /\ DropExclusive(t)

\* Mutant: the owner is not reset.
KeepOwner(t) ==
  /\ at[t] = "disowning"
  /\ To(t, "leaving")
  /\ UNCHANGED <<goal, readers, writers, event, lock, exclusive_owner>>

Disown(t) ==
  /\ at[t] = "disowning"
  /\ exclusive_owner' = None
  /\ To(t, "leaving")
  /\ UNCHANGED <<goal, readers, writers, event, lock>>

Leave(t) ==
  /\ at[t] = "leaving"
  /\ lock' = None
  /\ To(t, IF goal[t] = "shared" THEN "clearing" ELSE "out")
  /\ UNCHANGED <<goal, readers, writers, event, exclusive_owner>>

\* Unlock, for callers that do not know which lock they have.
Unlock(t) ==
  /\ at[t] \in {"shared", "exclusive"}
  /\ IF exclusive_owner = t THEN DropExclusive(t) ELSE DropShared(t, "none")

-----------------------------------------------------------------------------

\* The steps of a thread within a call.
Step(t) ==
  \/ SeekWriter(t) \/ BackOff(t) \/ CountInside(t) \/ Clear(t)
  \/ TestWriters(t) \/ Signal(t)
  \/ Announce(t) \/ CheckReaders(t) \/ Wait(t) \/ Own(t)
  \/ Disown(t) \/ Leave(t)

Release(t) == UnlockShared(t) \/ UnlockExclusive(t) \/ Unlock(t)

Next ==
  \E t \in Thread :
    \/ LockShared(t) \/ LockExclusive(t) \/ ConvertToExclusive(t)
    \/ Release(t) \/ Enter(t) \/ Step(t)

Spec == Init /\ [][Next]_vars

\* Threads run, sections under the lock end, and a thread that waits for a
\* critical section that is free again and again gets it some time.
FairSpec ==
  /\ Spec
  /\ \A t \in Thread : WF_vars(Step(t) \/ Release(t)) /\ SF_vars(Enter(t))

-----------------------------------------------------------------------------
(* Properties *)

In(S) == {t \in Thread : at[t] \in S}

\* The readers that are counted, the writers that are, and the owners of the
\* critical section.
Counted(t) ==
  \/ at[t] \in {"counted", "backing", "clearing", "shared"}
  \/ at[t] = "leaving" /\ goal[t] = "shared"
Announced == {"checking", "waiting", "owning", "exclusive"}
Inside == Announced \cup {"inside", "leaving", "announcing", "disowning"}

TypeOK ==
  /\ at \in [Thread -> Stages]
  /\ goal \in [Thread -> Goals]
  /\ readers \in Nat /\ writers \in Nat
  /\ event \in BOOLEAN
  /\ lock \in Thread \cup {None}
  /\ exclusive_owner \in Thread \cup {None}

\* The threads that have the lock, from the step that decided it.
Shares(t) ==
  \/ at[t] \in {"clearing", "shared"}
  \/ at[t] = "leaving" /\ goal[t] = "shared"
Excludes(t) == at[t] \in {"owning", "exclusive"}

\* A reader/writer lock: who has it exclusively has it alone, although readers
\* count themselves before they look for writers, and writers announce
\* themselves before they look for readers.
Exclusion ==
  \A t, u \in Thread : t # u /\ Excludes(t) => ~ Excludes(u) /\ ~ Shares(u)

\* The counters are exact, and only the owner of the critical section is
\* announced.
CountsExact ==
  /\ readers = Cardinality({t \in Thread : Counted(t)})
  /\ writers = Cardinality(In(Announced))
  /\ \A t \in Thread : at[t] \in Inside <=> lock = t

\* A writer that waits is woken: the event is set, or a reader is still
\* counted, or the last one is about to set the event.
NoLostWakeup ==
  \A t \in Thread : at[t] = "waiting" =>
    \/ event \/ readers > 0
    \/ In({"testing", "signalling"}) # {}

\* What UnlockShared and UnlockExclusive assert, and what Unlock and
\* HeldExclusive rely on: a thread that has the lock finds itself the owner
\* exactly if it has the lock exclusively, and then nobody else is.
OwnerExact ==
  \A t \in Thread :
    /\ at[t] = "exclusive" => exclusive_owner = t
    /\ at[t] = "shared" => exclusive_owner = None
    /\ exclusive_owner = t => at[t] \in {"exclusive", "disowning"}

\* locks.hxx: CSharedLocks don't starve exclusive threads; nor readers.
NotStarved ==
  \A t \in Thread :
    /\ (goal[t] = "exclusive") ~> (at[t] = "exclusive")
    /\ (goal[t] = "shared") ~> (at[t] = "shared")

\* What a caller sees of a thread.
Mode == [t \in Thread |-> IF Excludes(t) THEN "exclusive"
                          ELSE IF Shares(t) THEN "shared" ELSE "none"]

\* The promise is that of the other reader/writer lock, without its atomic
\* conversions: a conversion is a release and an acquisition.
Promise == INSTANCE RWLock WITH
  mode <- Mode, stale <- {}, status <- [t \in Thread |-> "ok"]

\* CSharedLock implements RWLock.
KeepsPromise == Promise!Spec
=============================================================================
